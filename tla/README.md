# A TLA+ model of imapsync

imapsync is a Go daemon that keeps the mailboxes of many users in sync between two
servers (IMAP, Maildir, EWS, or a PST archive to read from).  For every user and every
pair of folders it compares what the two folders hold and appends to each what it lacks.
This directory holds TLA+ modules translated from that code, TLC configurations that
check them on small instances, and proofs checked by TLAPS.  Paths below are relative to
the repository.

    tlc -workers 2 -config PairFull.cfg MCSyncPair      # a run
    tlapm SyncPairProofs.tla                            # the proofs of a module

`PROJECT.json` lists the components, runs, findings, hazards and theorems, and maps each
definition to the lines it models.

## 1. The system

| Component | State | Operations | Talks to |
|---|---|---|---|
| **dedup** `internal/dedup/index.go`, `internal/mailbox/message.go` | the index of a folder: entries, key -> entry | `MatchKeysFrom`, `BuildFrom`, `Missing`, `Delta` | called by the syncer |
| **syncPair** `internal/syncer/syncer.go` | locals of a pass: cached rows, listed, new and gone IDs, the two indexes, what to copy | `syncPair`, `indexFolderFull`, `indexFolderIncremental`, `copyMissing`, `copyOne` | two endpoints, the store |
| **SyncUser** `internal/syncer/syncer.go` | a session with two connections | `userStopped`, `connect`, `dial`, `reconnect`, `close`, `persistStatus` | backends, the store, stats |
| **pool** `internal/syncer/pool.go`, `internal/stats/stats.go` | user list, queue, workers, Collector | `Run`, `reload`, `RunCycle`, `processUser`, `StartReporter` | goroutines over one channel; the user table |
| **discovery** `internal/syncer/discover.go` | both folder lists, pairs | `resolveFolders`, `matchFolders`, `pairFolders` | `ListFolders`, `CreateFolder`, later `Select` |
| **Maildir** `internal/endpoint/maildir.go` | map ID -> path of the last scan, a counter | `Select`, `ListIDs`, `FetchMeta`, `Open`, `Append` | the file system, shared with delivery agents and readers |
| **EWS** `internal/endpoint/ews.go`, `ews_auth.go` | one token per server under a mutex | `call`, `token`, `fetch`, `rejected`, `Select`, `ListIDs`, `FetchMeta`, `Append` | HTTP; all workers share the token |
| **IMAP** `internal/mailbox/client.go`, `internal/endpoint/imap.go` | a connection, a cached LIST | `Select`, `FetchMeta`, `Append`, `ResolveFolder`, `CreateMailbox` | the server |
| **PST** `internal/endpoint/pst.go` | a read-only tree | `ListFolders`, `Select`, `FetchMeta`, `Open` | a file |
| **store** `internal/store/*.go` | sqlite: users, folders, `sync_endpoint`, `sync_msg_cache`, `user_status`, `user_run`; a lock file | `Open`, `OpenExclusive`, `LoadEndpoint`, `PutCachedMsgs`, `DeleteCachedMsgs`, `SaveEndpoint`, `ResetEndpoint`, `RecordRun`, `ResumeUser`, `ForgetUser` | the daemon and, at the same time, the `db-*` commands |
| **config, commands** `config/config.go`, `cmd/imapsync/*.go` | the configuration with the lists of users and folders | `applyDefaults`, `validateBase`, `ValidateEntities`, `cmdRun`, `loadFromSQLite`, `runDaemon`, the `db-*` commands | the store, the pool |

What is hard here:

* **Two live mailboxes, no transaction over them.**  Others deliver, move, reflag and
  delete mail between any two calls of a pass; a server may renumber a folder.
* **Copying is not idempotent by itself.**  An APPEND may succeed whose answer is lost, the
  process may die after it.  Only the match keys keep the next pass from copying again.
* **The cache is written piecemeal.**  Rows, deletions and the endpoint row are separate
  transactions, and a failing one is only recorded.
* **Keys do not form an equivalence.**  Message-ID, header of an earlier copy and surrogate
  hash chain different messages together, and the index is greedy.
* **Configuration that changes under the program.**  The lists of users and folders are
  checked once and loaded again before every cycle; whether the DB is needed is decided in
  two places.
* **Shared state between goroutines and processes**: the token, the statistics, the user
  list, the DB that `db-*` commands change beside the daemon.

What makes each component correct is stated as properties (section 3), and `hazards` in
PROJECT.json ties each of the difficulties to the line where it bites.

## 2. The modules

| Module | Models | Notes on the correspondence |
|---|---|---|
| `Messages` | match keys, the greedy index and the delta as set definitions | A message is `[mid, xhash, sur]`: its Message-ID, the hash header of an earlier copy, the surrogate hash; `None` for absent.  Used by the next two. |
| `DedupIndex` | `BuildFrom` and `Missing` as loops over listings | one step per iteration; `byKey` is the map of the code |
| `SyncPair` | repeated `syncPair` calls against two mailboxes and the cache | one action per network call and per transaction; `pc` names the next one, `cs` the side.  `tag` is the identity of a mail, which the code does not see: properties use it. |
| `TwoWaySync` | the promise of a pass, abstractly | `SyncPair` instantiates it with a refinement mapping |
| `SyncUser` | a user's runs | a `syncPair` call is one step with outcomes ok, error, lost connection |
| `Pool` | cycles, workers, reporter | a user's run is the span from `BeginUser` to `EndUser`; `runPc` is the main goroutine, `daemonCtx` the context of the daemon |
| `EwsAuth` | the shared token and `call`'s loop | tokens are numbered as issued |
| `EwsFolder` | `Select` by name, paging, batches, `Append` | the selected folder is a sequence that changes between requests; `FindFolder` answers in any order with folders that may differ only in case |
| `Folders` | discovery, pairing, creation, resolution | a name is a sequence of words and separators, so translating separators is modelled by what it does; `setup` is the pair of servers with its configuration, chosen at first; `from` of a pair records the entries of the listings it comes from, for the properties and proofs; each endpoint resolves names in its own way (`ResolveFolder`, `folderPath`, `resolvePSTFolder`) |
| `Maildir` | one folder and the programs that share it | a file is directory, unique part, suffix, content; the unique part of a copy is second, process number and counter, and a restart has the same process number or the next |
| `UserState` | status, history and cache rows of users, with the commands | `list` is what the daemon has loaded, `running` the users in a run; the clock may be set back |
| `StoreOpen` | `Open`, the migration and the daemon lock, by several processes | checked as a part of `Startup`; a step is a statement, but the CREATE statements of `schema`, and those of `stateSchema`, are one step each: no property depends on a part of them |
| `Config` | `applyDefaults`, `validateBase`, `validateServer`, `validateEWSAuth`, `ValidateEntities` | operators on a parsed file; a server is its type, the set of settings that are not blank and the values that are compared |
| `Startup` | `cmdRun`, `loadFromSQLite`, `runDaemon`, the reload of the lists, commands that edit them | EXTENDS `StoreOpen` and `Config`; a daemon's `stage` says how far it has come, `pc` of `StoreOpen` where it is inside `Open` |

`SyncPair` is the inside of `SyncUser`'s step `SyncPairCall`, `SyncUser` of `Pool`'s span,
`EwsFolder` and `Maildir` of `SyncPair`'s `ListIDs` and `FetchMeta`: each is checked with
the outcomes the inner one can have.  `Startup` is what comes before `Pool`.  `MC*` modules only define values for constants.
Operators marked `\* Mutant:` are altered forms of the definition that follows them.  They
are used by no specification; they document which mistake each property would catch.

### Abstractions

* Flags, dates, sizes, log lines and counters that no property reads are left out.
* In full mode the IMAP client fetches the messages counted at `Select`; the model lists
  them at the fetch.  A message that arrives between is seen one pass earlier.
* A `ReadDir` call is atomic.
* A blank setting is one that is empty after trimming: the set `has` of a server names the
  others.  Parsing, durations and the reading of certificates are their outcome.
* The IMAP client closes its connection when its context is done; a call interrupted so is
  the outcome "lost connection" of the call.
* `FindItem` has no sort order in the request: an arrival comes first or last.  Offsets past
  the end of the folder behave alike and are folded into one.  Mail arrives and leaves in
  the selected folder only.
* `copyMissing` looks at the context every 64 messages; the model may be interrupted before
  any of them.
* Nobody else creates or deletes folders during discovery, and creating a folder creates no
  other: the parents that a server may add for `a/b` are not modelled.  No folder name begins or ends with
  its side's separator, so the trimming in `ListFolders` and `CreateFolder` of a Maildir has
  nothing to do.
* The clock of `UserState` starts at 1, 0 standing for "none".
* A message that a server rewrites on delivery (`Rewrites`), or gives a Message-ID
  afterwards (`LateMID`), is an action of the environment.

## 3. What is checked

Twelve runs: eleven must pass, one states what the README says and must fail.  Each module
has a type invariant `TypeOK` (`PoolTypeOK`, `FolderTypeOK` in `Pool` and `EwsFolder`).  They are
part of the proofs of their modules, and hold on the instances here when they are added to
the .cfg.

### Dedup

`DedupIndex`: all pairs of listings of up to three messages out of five whose keys chain
in a triangle, the smallest case in which "shares a key" is not transitive.
`IndexIsGreedy` says what the entries are, `DeltaIsExact` what is sent.

### A folder pair

Properties: `NoDuplicates` (no folder holds a mail twice), `CacheSound` and `IndexSound`
(a row or an entry is described by keys of the mail that has its ID), `SecondPassIdle`
(the README's `A->B=0 B->A=0`), `ImplementsTwoWaySync` (refinement), `Converges` (liveness).

| Run | Instance | Properties | Result |
|---|---|---|---|
| `PairFull` | full mode, both sides live, three mails with chained keys, a fault, late Message-IDs and rewritten headers on b | `SecondPassIdle`, `ImplementsTwoWaySync` (which implies that nothing is copied twice) | pass |
| `PairIncremental` | cache, a mail with a foreign hash header, two faults, an expunge, a second validity for a live folder, fair passes | all of them | pass (about 930 000 states, two minutes) |
| `PairFetch` | cache, no faults, nothing new | `FetchesOnlyNew` | violated: finding |

Bounds: three mails are the smallest chain of keys, two are enough for one mail taking over
another's ID; three IDs leave room for their copies; two faults let a failed cache write be followed by
a crash or a lost answer; two validities are the change there is to handle.  `SyncPairProofs`
removes these bounds, and the choice of direction and read-only side, for every property here
but the last.

The mail of `PairIncremental` (`HeaderMail`) has no Message-ID to chain by, and one message
carries a hash header that is not its own, as it does when it was copied before and its Date,
Subject or From changed since: the copy keeps that header and the cached row of the copy
lacks it (`syncer.go:449`).  No other mail has that hash; with one that has, the code makes a
duplicate (see the divergences), and servers that rewrite headers in incremental mode are
left out for the same reason.  `SortedIDs` is TRUE: a new message is listed last.  IDs sorted
as texts, where UID 10 comes before UID 9 (`syncer.go:353`), are the value FALSE; under the
premises of the theorems every property holds with either, which the runs leave to the proofs
because it only adds states.  `Converges` has the disjunct `NewIDs(s) = {}`: with a finite set of IDs a folder
may be full.

### A user, the pool, the token

* `SyncUser`: two pairs, one connection retry, a streak limit of two.  Two pairs distinguish
  "retry this one" from "go on with the next"; the streak is capped where it no longer
  changes anything.  `NoConnectionLeak`, `OneRetryPerPair`, `OkMeansSynced`, `RunReturns`.
* `Pool`: three users for two workers, so that a worker takes a second one and the feed loop
  blocks; the table may hold any subset of them.
* `EwsAuth`: three workers, a revocation and an expiry, so that two workers are refused with
  one token while the third fetches or holds another.

### Folders, Maildir, EWS

* `Folders`: four pairs of servers (two IMAP servers with different separators, a read-only
  PST archive beside a server and beside a Maildir, a Maildir beside a server) and every
  subset of a set of folders chosen to match by attribute, name, case and separator, with
  twins in case and a name the archive has twice, two LIST orders a side, two cycles (the
  second shows whether names round-trip).  `EverythingPaired` says of every folder a listing
  showed that `Select` opens it, and no other, for the name of some pair.  It and
  `PairsDisjoint` name the two exceptions there are: `CaseTwins`, of which `Select` opens the
  first listed, and `SameName`, the folders of an archive with one name, of which it opens the
  first (`Shadowed` is what the others are; their mail is never read).  These are faults of the
  code that the properties set aside, not catch; each exception is needed (see the divergences).  `FoldersProofs` removes
  these bounds; `MCRegular` has TLC evaluate its premises on the four setups, of which
  `Imap` and `Pst`, with their twins, go beyond the premise of `NothingCreatedAgain`.
* `Maildir`: a reader's moves between directory reads; two appends with a crash and a restart
  within one second, under the same or another process number.  `NeverOverwrites` excepts the
  names of a second in which the number came back.  `PathsCurrent` says which of the listed paths
  can be stale, not what `FetchMeta` makes of one (see the divergences).
* `EwsFolder`: two folders whose names may differ only in case, and pages of two over up to
  five messages, so that there are three pages, and one removal at any moment.
  `ListsEveryMessage` speaks of the folder the pair names, not of the one `Select` happened to
  open.

### The store and the start

* `UserState`: five runs, a history of two rows, three seconds and one step back of the clock:
  trimming happens, several runs share a second, and a user is removed, re-added and loaded
  again around a run.  One user is enough, as no statement joins the rows of two.
* `Startup`: two daemons and a command, one death anywhere, files with every combination of
  types and modes and with one of each wrong setting, lists that the commands edit between any
  two steps.  `OneDaemon`, `VersionIsTrue` and `OpenHasColumns` are about the DB, `AcceptedRuns` says that
  what `Load` accepts can be run, `ListsFit` that the lists a daemon works on satisfy
  `ValidateEntities` unless they were edited since they were last checked: that a reload takes
  edited lists without a check is a fault it sets aside, and so is the blank path in `AcceptedRuns`
  (see the divergences).  This is the
  largest run, about two minutes.

### Deadlock

Checked everywhere but in `DedupIndex`, which ends with its result, and in `Folders`, whose
cycles are bounded by `MaxPasses`.

### Divergences met while modelling

Statements of the repository that the code does not keep.  The first is the run `PairFetch`.
For the others the last column says what to check: a definition that no run lists, or a
change of an instance (of `MCFolders` without `MCRegular`, which such instances contradict).

| Statement | What the code does | Counterexample |
|---|---|---|
| README.md:490 "headers are fetched **only for new** IDs" | with nothing new, `newIDs` is nil and `FetchMeta(nil)` fetches all (`syncer.go:370`) | run `PairFetch` |
| README.md:464 present "if **at least one** of its match keys matches" | keys of a message that duplicates another of its own folder are dropped with it (`index.go:107`) | `PresentByAnyKey` in `DedupIndex.cfg` |
| README.md:60 "the second pass over the same mailboxes should show `A->B=0 B->A=0`" | a Maildir, like an archive, is walked as a Go map, and with chained keys the order decides what an entry is (`maildir.go:163`, `pst.go:164`) | `PairFull` with `Unordered = {"a"}` |
| README.md:61 "deduplication works and messages are not duplicated" | the row cached for a copy has the hash the tool computed (`syncer.go:449`), but a message that had a hash header before keeps it (`WithHeader`); after the periodic rescan of one side only the two indexes know the mail by different keys, and a mail is copied again | `PairIncremental` without faults, with mails `[None, h1, h2]` and `[None, h1, h3]` (Message-ID, header, hash) beside one without a header, four IDs, three deliveries: `NoDuplicates`; with `ChainedMail`, both sides live, three deliveries, no faults and `SortedIDs = FALSE`: `SecondPassIdle` |
| README.md:493 "on a mismatch that endpoint's cache is reset" | if `SaveEndpoint` fails, message rows have no endpoint row; with a negative `full_resync_every` nothing resets them (`syncer.go:338`) | `PairIncremental` with `FullResync = FALSE`: `IndexSound` |
| README.md:350 "a token rejected early (revoked) is dropped and refetched once" | a request refused with a token that another worker has dropped already is not retried (`ews_auth.go:136`) | `RevokedIsRetried` in `EwsAuth.cfg` |
| endpoint.go:38 "IDs of every message in the current folder" | paging by offset skips a message when an earlier one leaves (`ews.go:267`) | `ListsEveryMessage` without `~left` |
| maildir.go:171 "message vanished between scan and fetch" is skipped | the scan's map still has the ID, so `Stat` fails and with it the whole call (`maildir.go:174`) | `VanishedIsSkipped` in `Maildir.cfg` |
| README.md:392 "A folder that exists on only one side is **created on the other**" | a Maildir `Sent` paired by attribute is "created" again for a server's folder of the same name, and is in two pairs (`discover.go:76`) | `Maildir` of `MCFolders` with `F(<<"Sent">>, None)` on b: `PairsDisjoint` |
| README.md:392, again | of two folders of a server that differ in case (or have one SPECIAL-USE) only one finds the Maildir folder as its partner; the other is "created" with `MkdirAll`, which succeeds, and the Maildir folder is in two pairs (`maildir.go:298`) | `Maildir` of `MCFolders` with only INBOX and `w` on a, and INBOX, `W` and `w` on b: `PairsDisjoint` |
| README.md:390 paired "by **SPECIAL-USE attribute** first" | the first of two folders with one attribute is taken, in the order of that LIST: a folder that had its partner by attribute is left over in a cycle with another order, and one of its name is created (`discover.go:136`) | `Imap` of `MCFolders` with INBOX and the folders `Sent` and `Items`, both `\Sent`, on a, Inbox and `Top`, also `\Sent`, on b: `CreatesOnce` |
| README.md:406 a name "round-trips through `Select`/`CreateFolder`" | a name with a "." becomes a Maildir++ hierarchy and is created again every cycle (`maildir.go:298`) | the same with `F(<<"w", ".", "x">>, None)` on b: `CreatesOnce` |
| README.md:507 "after every pass over a user a row is written ... to `user_run`" | the key is user and second: of two runs in one second the later replaces the earlier (`state.go:288`) | `RowPerRun` in `UserState.cfg` |
| db.go:224 "removed (along with its cache and history)" | a daemon that still has the user on its list writes the rows again | `RemovedIsForgotten` in `UserState.cfg` |
| store.go:57 Open "applies the schema" | a `db-*` command that read the old version drops the tables after the daemon's `Open` has returned (`store.go:100`) | `OpenHasSchema` in `Startup.cfg` |
| config.go:212 "0 - no retries" | `applyDefaults` replaces 0 by 3 (`config.go:345`) | `applyDefaults` of `Config`: no file leads to `retries = 0` |
| README.md:390 paired "by **case-insensitive name**" | below a separator other than "/", of two folders that differ in case the first listed is opened, even if the other matches exactly (`client.go:198`) | `PairsDisjoint` without `CaseTwins`; with it, one of them is never opened: `EverythingPaired` without it |
| README.md:390, again | of two folders of one name in an archive both are listed and `Select` finds the first for both, so the other is never read (`pst.go:124`) | `PairsDisjoint`, or `EverythingPaired`, without `SameName` |
| config.go:422 `ValidateEntities` "checks the folder and user lists and their consistency with the worker count" | a reload takes the lists as they are; a path for an IMAP side then is used as the login name (`config.go:141`) | `ListsFit` without `edited` |
| config.go:373 "sqlite_path is required", tested after trimming | a path of blanks passes where only the circuit breaker is on, and `needDB` compares with `""`, so that `Open` fails at start (`daemon.go:26`) | `AcceptedRuns` without `cfg.path # " "` |
| maildir.go:212 the unique name | a process started again within the second under the same number (a container) repeats names, and `Rename` replaces the message | `NeverOverwrites` without its exception |
| state.go:323 "trim history": the rows of the latest runs stay | after the clock was set back, the run just made is the oldest and is trimmed at once | `HistoryMatchesStatus` without `stepped` |
| TECHDEBT.md:48 sliding pages are "not critical for the incremental mode" | an ID that is skipped is taken for gone, its row is deleted and its mail is missing from the index of that pass, so the other side's copy of it is appended again (`syncer.go:363`) | from `ListsEveryMessage` without `~left`; not joined with `SyncPair` |

## 4. Fairness

| Module | Assumed | Why |
|---|---|---|
| `SyncPair` | `WF(Pass)` | the pool calls the pair again every `sync_interval`, and no call outlasts `io_timeout` |
| `SyncUser` | `WF(Run)` | every network call has a timeout, back-offs are finite; a run in progress goes on |
| `Pool` | `WF` of the main goroutine, of each worker and of the reporter | the Go scheduler runs every runnable goroutine; `per_user_timeout` ends a user |
| `EwsAuth` | `WF(Step)`, `SF(Token)`, `SF(Rejected)` | the HTTP client has a timeout; a Go mutex is handed to a waiter that has starved for 1 ms, so one that is free again and again is obtained |
| `EwsFolder` | `WF(Work)` | a request is answered or times out |

Mail, operators, faults, crashes and the clock are never fair.

## 5. What is proved

For every value of the constants, under the named assumptions of each module (types and
non-emptiness; `TLC` evaluates them in the runs):

| Module | Theorems | Argument |
|---|---|---|
| `DedupIndexProofs` | `TypeCorrect`, `BuildFromIsGreedy`, `MissingIsExact` | The entry a key leads to is in the list and has the key, and every key of an entry leads to it: with this, `has` is "shares a key with an entry". |
| `SyncPairProofs` | `TypeCorrect`, `CacheIsSound`, `IndexIsSound`, `NothingTwice`, `KeepsThePromise`, `SecondPassFindsNothing` | See below. |
| `RunProofs` | of a user's run: `Invariance`, `TypeCorrect`, `ConnectionsClosed`, `RetriesBounded`, `OkIsHonest`, `StreakAgrees` | Which connections are open is determined by where the run is (`Held`); what has been asked and synchronised by `pair`, `again` and `errs`. |
| | of the pool: `PoolInvariance`, `UsersExactlyOnce`, `ReloadIsAlone`, `StatsFollowWorkers` | The conjunction of the three with the types is inductive, with `CutOnce`: the feed loop gives users up only at its end. |
| `StartupProofs` | `DaemonIsAlone`, `VersionTells`, `ColumnsAreThere`, `AcceptedCanRun`, `ListsStayFit` | A step of `Startup` is one of `StoreOpen` or leaves the DB alone (`StartIsStore`).  For the DB: the holder of the lock is the one daemon past `OpenExclusive` (`LockHeld`), what a process in the migration has dropped stays dropped (`Dropped`), what it has read of the columns is still there (`ColumnsKnown`).  For the start: the file of a daemon past each stage has passed the checks before it (`StageFits`), and so have its lists or they are marked (`ListsChecked`). |
| `MaildirProofs` | `ScanIsComplete`, `PathsAreCurrent`, `NothingPartial`, `NothingOverwritten` | Between the two directory reads a message that stayed is listed or still to be read in `cur` (`Scanned`, `Located`); a file in `tmp` belongs to the append in progress or to a dead process (`Temporary`); a name given out is of an earlier process, an earlier second or counted (`Named`). |
| `EwsProofs` | `AuthInvariance`, `Stampede`, `RetryIsFresh`, `CacheIsNewest` | Of the token: a cached token is the newest and the mutex has one holder (`Locked`), who fetches because nothing is cached (`FetchNeeded`); a refused token was revoked (`RefusedRightly`); every token but a usable cached one is paid for by a revocation or an expiry (`Paid`), and a refused token does not come back before the retry (`Dropped`). |
| | `FolderTypeCorrect`, `ListingIsComplete`, `FetchIsWhole` | Of the folders: see below. |
| `UserStateProofs` | `UserTypeCorrect`, `StatusIsTold`, `HistoryIsKept`, `RemovedIsRemoved` | See below. |
| `FoldersProofs` | `Invariance`, `TypeCorrect`, `NothingLeftOut`, `Grouping`, `NoFolderTwice`, `NothingCreatedAgain` | See below. |

**Types of a pass.**  `TypeCorrect` needs `Shape`: there is something to copy only in the copy
phase, in the order of the two directions, and only what the other side's index has an entry
for.  So `copyMissing` never meets an entry without a row.

**The cache.**  `CacheSound` is not inductive: it speaks of rows whose endpoint row is
current, while rows become current when `SaveEndpoint` runs.  The invariant `Core` follows
a row from the fetch to that moment: IDs are given out once per validity (`GivenOut`); a
saved validity is not newer than the folder's and the selected one is the folder's
(`Validity`); nothing is left over from an earlier pass (`Fresh`); a full pass does not touch
the cache (`Modes`); and rows describe the mails that have their IDs wherever they are or will
be believed: in the DB under the folder's validity, on the side being indexed, in the indexes
and among the copies (`Trusted`).  A row `Describes` a mail when its hash is the mail's and
it lacks at most a Message-ID the server has added since and, for the row of a copy, the
header the copy already had.  The theorems assume
`Premise == Incremental => FullResync /\ Rewrites = {}`: full mode needs nothing; in
incremental mode a negative `full_resync_every` is excluded (see the divergences), and so are
servers that store other headers than they are sent, for which the row of a copy
(`syncer.go:449`) is made from the source.

**No mail twice.**  `NothingTwice` and the refinement `KeepsThePromise` rest on `Different`.
Copies of one mail have the same keys from their sender, and a key made up by a server is that of one mail only
(`Kinship`).  What `indexFolderIncremental` has listed is all that both folders can share: a
message that came later is on one side only (`Listed`).  Therefore an index of a side covers
every mail that both folders hold (`Covered`), and what the delta leaves to be copied is still
missing at its destination when its turn comes, whatever is delivered, expunged or lost in between
(`StillMissing`), the copy whose answer was lost included.  Every step of the tool then is a
`Copy` of `TwoWaySync` or a stutter.  The premise `Distinguishable` says what the code relies
on without saying so:

* what servers make up (`ServerMIDs`, `ServerHashes`) is not in the mail that arrives;
* in incremental mode `full_resync_every` is positive, and servers neither rewrite headers nor add Message-IDs
  afterwards;
* in incremental mode, and where a server rewrites headers, a mail that arrives with the hash
  header has its own hash in it.

The last one came out of the proof: without it the theorem is false, and TLC shows how (the
row on README.md:61 of the divergences).  `PairFull` and `PairIncremental` have a mail with a
foreign header, on a pair with a rewriting server and in incremental mode: both runs go
beyond the premise, to cases where the properties hold for their bounds.

**The second pass.**  `SecondPassFindsNothing` needs `Undisturbed`: as long as nobody else
has changed the folders (`quiet`), the index of a side is one of the folder as it
is (`Exact`); during the copy phase each folder is what was indexed and the copies
made so far (`Copying`); at the end the folders have nothing to ask of each
other (`Settled`).  Beside `Distinguishable` it assumes one of two things, and without both the
property is false (the row on README.md:60 of the divergences):

* `Orderly`: a folder is always listed in the same order, wherever in it a new message comes:
  by UID, or by ID as a text (`syncer.go:353`), as all endpoints are in incremental mode.
  Then the two indexes have nothing to ask of each other (`InOrder`).  A listing has one greedy
  index only, the first message on which two would differ being decided alike
  (`IndexUnique`); the copies made share no key with an entry or with each other, so
  that they become entries, and the others stay what they were, wherever a copy is listed.
* `Unchained`: sharing a key is transitive among the mails that arrive.  Then the order does
  not matter, and may be another each time, as that of a Maildir or an archive in full mode.
  Every mail keeps the keys one that arrived has from its
  sender (`Sent`), so what holds of arrivals holds of a folder (`KeysChain`).  Whatever its index
  is, a message shares a key with an entry, the entry with its copy or partner on the other
  side, and so the message with a message there (`Paired`); its partner shares a key with an
  entry of any index, so the next delta is empty.

**The EWS folder.**  `FolderInv`: while no message has left, every message that was there when
the listing began is listed already or stands behind the offset (`Paging`), wherever
arrivals come in; the selected folder is one the name stands for (`Selected`, from
`FindFolderMeant`: an exact match wins in any order of the answer); what `FetchMeta` has received is the
beginning of what was asked for (`Fetching`, with `BatchAfterBatch`: a batch put behind the
batches so far is a longer beginning).

**The user's rows.**  `UserInv` is the three properties with the types, `Unlisted` (a
user who is gone and was on nobody's list is not started any more) and `Dated` (as long as
the clock went forward, no row is of the future).  `StatusTellsRuns` compares one row, updated
in place, with the whole log of runs; the lemmas say how the last run, the last success and
the streak of a log change when an entry is appended (`StreakCount`).  For the trimming the rows newer than a given one are counted.

**The folders of a mailbox.**  The theorems hold for any finite sets of folders, names of any
words (the pairs of words that differ in case are those of `FoldWord`), attributes, LIST orders and
numbers of cycles, under premises on the setups:

* `PlainNames`: the separator of one side is no character of a name on the other.  Without it a
  name does not round-trip (see the divergences).
* `OneInbox`: no server has two INBOXes.  Both premises are enough for `NothingLeftOut`,
  which is about the folder `Select` opens: that a listed folder of a side whose peer may be
  written to is it for some pair, unless it is `Shadowed`.
* `Grouped`: no two folders of a side go together, by name or by the attributes they have or would
  get, and what goes together on the two sides is matched.  `NoFolderTwice` needs it only if one
  side is a Maildir (`Regular`), since `MkdirAll` succeeds for a folder that is there already,
  while CREATE fails; `NothingCreatedAgain` needs it always.  Each use is forced by a
  counterexample, which are two rows on README.md:390 and 392 of the divergences.

Three invariants, each including the one before:

* `Inv` is about one matching.  A listing shows each folder of its side once (`Listed`), and all but
  those this cycle has created (`Covered`).  A pair comes from two listed folders that match, or
  from one that was left over and created on the other side (`Origins`, which is what the
  history field `from` is for); no entry is in two pairs (`Once`), every matched one is in
  one (`Kept`).  What a loop has passed over matches nothing that is unused (`Unlike`), and if nothing
  failed no entry is left (`NoneLeft`).  Under `Distinct`, `Servers` and `Spelled` a name in the
  server's terms leads back to the name it was made from (`CanonicalNative`, `ReplaceBack`), so
  `Select` finds the folder exactly, or the INBOX (`ResolveFound`), and no other that is not a
  case twin or an earlier folder of one name (`ResolveOnly`, `FirstExists`).
* `GroupInv` adds `Groups`, that the folders of the setup stay grouped while cycles add to
  them: a created folder has the attribute its name gives it (`UsesKnown`), goes together with what
  it was created for (`Across`), and with no other folder of its side (`Lone`).  A folder of an
  archive that is there twice is the exception: its second copy may be created beside the
  folder the first was matched with (`Kin`).  Then two pairs have the same folder only in the
  excepted cases (`NamesApart` of the names, whichever of match and creation the two come from).
* `SettledInv` adds `Settled`: after a cycle in which nothing failed, every folder of a side whose
  peer may be written to is the INBOX, has one of its name there, or one that it alone matches.  This does not depend on the order of the
  next listings, and leaves nothing to create.

The premises hold of what a user may well have, two servers with any folders without case
twins and with one folder to an attribute, and are evaluated on the setups of `MCFolders`.

Existence of a least or greatest element of a set of numbers, which the recursive-looking
arguments above use, comes from `WFMin` and `NatLessThanWellFounded`; no induction over data
is needed.

**Left to TLC**: liveness and everything with ENABLED (`Converges`, `RunReturns`,
`ShutdownCompletes`, `CyclesGoOn`, `CallReturns`, `ListEnds`), which the backends cannot do.
Every invariant and every action property that a passing run checks is stated by a theorem.

## 6. Not modelled

* Connecting to IMAP: TLS, SASL PLAIN with a master user, LOGOUT.
* The conversion of MAPI properties to MIME in the PST reader; MIME words, dates and
  addresses; the hash functions.
* The XML of EWS, and its `Open`, which changes no state; NTLM and basic authentication.
* YAML and CSV parsing, path templates, log and summary texts, command dispatch.
* `db-list`, `db-history`, `db-vacuum`, which change no row; `SetUserEnabled`, which only
  tests call.
* The copied, skipped and error counters of the Collector.
* `internal/endpoint/ewstest`, which is a test double.

They are conversions or single requests without state that steps could interleave on.  What
the code is exposed to and no property covers is in `hazards` with a note.

## 7. Plan

Done: the core (dedup, pair, cache, user, pool, token), discovery, the endpoints' listing,
selecting and appending, the store, the configuration and the start.  Proved: every invariant
and action property that a passing run checks, and the refinement of `TwoWaySync`.

Next, in this order:

1. **Prove.**  For `Folders`, which folders twins in case and shared attributes put into two
   pairs, in place of the premise `Grouped`; that `SyncUser` and `Pool` implement one specification of a
   daemon's cycle.
2. **Model.**  An EWS listing that skips a message, fed into `SyncPair` (a `ListIDs` that
   misses an ID), to state what the skip costs; a passing run with a side that is listed in
   any order, with a property that holds there; the Collector's counters; folder pairs that
   two entries of the configuration share.
