------------------------------- MODULE Maildir ------------------------------
(***************************************************************************)
(* The Maildir endpoint on one folder (internal/endpoint/maildir.go) next  *)
(* to the programs that own the mailbox: a delivery agent and a mail       *)
(* reader that moves, reflags and deletes messages between any two steps   *)
(* of scan, FetchMeta, Open and Append.  The process may die at any point  *)
(* of an Append and start again, under another process number or, as the   *)
(* first process of a container does, under the same.                      *)
(***************************************************************************)
EXTENDS Naturals

CONSTANTS
  Mail,        \* messages that other programs deliver, each under a name of its own
  Copy,        \* messages that the tool appends
  Info,        \* the ":2,..." flag suffixes of cur/
  NoInfo,      \* no suffix, as in new/
  Partial,     \* the content of a file that is not written completely
  MaxTime,     \* seconds the clock counts
  MaxAppend,   \* calls of Append in the life of a process
  MaxCrash     \* how often the process dies

ASSUME MaildirAssumption ==
  /\ MaxTime \in Nat /\ MaxAppend \in Nat /\ MaxCrash \in Nat
  /\ Partial \notin Mail \cup Copy /\ Mail \cap Copy = {}
  /\ Mail \cap (Nat \X Nat \X Nat) = {}    \* their names are not those of Append
  /\ NoInfo \notin Info /\ Info # {}

\* A file: its directory, the unique part of its name, the suffix, its content
File(d, i, s, b) == [dir |-> d, id |-> i, info |-> s, body |-> b]

VARIABLES
  files,     \* the folder's files in tmp, new and cur
  index,     \* e.files: the ID -> path map, as a set of paths with their ID
  pc,        \* "idle", "scanCur", "ready", "fetch", "write", "rename", "down"
  todo,      \* IDs that FetchMeta has still to read
  result,    \* of the last FetchMeta or Open: "none", "ok", "error", "missing"
  name,      \* the unique name of the Append that is going on
  suffix,    \* its flag suffix
  sending,   \* the message it writes
  sent,      \* messages that Append has put in place
  counter,   \* maildirCounter
  pid,       \* os.Getpid
  now,       \* time.Now().Unix()
  crashes,   \* how often the process has died
  again,     \* the second in which it was started under the number of the one
             \* that died in that second, or MaxTime + 1
  orphans,   \* names of the temporary files that dead processes have left
  arrived,   \* messages delivered so far
  steady,    \* IDs in the folder ever since Select began to scan
  touched    \* IDs moved, renamed or deleted since cur was read, or deleted since new was

toolVars == <<index, pc, todo, result>>
appendVars == <<name, suffix, sending, sent, counter>>
ghostVars == <<steady, touched>>
process == <<pid, now, crashes, again, orphans>>
vars == <<files, toolVars, appendVars, process, arrived, ghostVars>>

In(d) == {f \in files : f.dir = d}
Visible == {f \in files : f.dir # "tmp"}
IdsOf(F) == {f.id : f \in F}
Path(f) == [dir |-> f.dir, id |-> f.id, info |-> f.info]
At(p) == {f \in files : Path(f) = p}
NoName == <<0, 0, 0>>

Init ==
  /\ files \in SUBSET {File("new", m, NoInfo, m) : m \in Mail}
  /\ arrived = IdsOf(files)
  /\ index = {} /\ pc = "idle" /\ todo = {} /\ result = "none"
  /\ name = NoName /\ suffix = NoInfo /\ sending = Partial /\ sent = {}
  /\ counter = 0 /\ pid = 1 /\ now = 0
  /\ crashes = 0 /\ again = MaxTime + 1 /\ orphans = {}
  /\ steady = {} /\ touched = {}

-----------------------------------------------------------------------------
\* The other programs

Deliver ==
  /\ \E m \in Mail \ arrived :
       /\ files' = files \cup {File("new", m, NoInfo, m)}
       /\ arrived' = arrived \cup {m}
  /\ UNCHANGED <<toolVars, appendVars, process, ghostVars>>

\* A reader moves a message it has seen from new to cur, or sets its flags
Rename ==
  /\ \E f \in Visible, s \in Info :
       /\ f.info # s
       /\ files' = (files \ {f}) \cup {File("cur", f.id, s, f.body)}
       /\ touched' = IF pc = "scanCur" THEN touched ELSE touched \cup {f.id}
  /\ UNCHANGED <<toolVars, appendVars, process, arrived, steady>>

Delete ==
  /\ \E f \in Visible :
       /\ files' = files \ {f}
       /\ steady' = steady \ {f.id}
       /\ touched' = touched \cup {f.id}
  /\ UNCHANGED <<toolVars, appendVars, process, arrived>>

Tick ==
  /\ now < MaxTime
  /\ now' = now + 1
  /\ UNCHANGED <<files, toolVars, appendVars, pid, crashes, again, orphans, arrived, ghostVars>>

-----------------------------------------------------------------------------
\* Select: the directories exist, e.files is made empty, then new is read ...

\* Mutant: cur is read first
FirstDirCur == "cur"

\* The directory that scan reads first, and the other one
FirstDir == "new"

Dir2(d) == IF d = "new" THEN "cur" ELSE "new"

Select ==
  /\ pc \in {"idle", "ready"}
  /\ index' = {Path(f) : f \in In(FirstDir)}
  /\ pc' = "scanCur"
  /\ steady' = IdsOf(Visible) /\ touched' = {}
  /\ todo' = {} /\ result' = "none"
  /\ UNCHANGED <<files, appendVars, process, arrived>>

\* Mutant: the path that was found first is kept
MergeFirst(old, new) == old \cup {p \in new : p.id \notin IdsOf(old)}

\* A later entry with the same ID replaces the earlier one
Merge(old, new) == new \cup {p \in old : p.id \notin IdsOf(new)}

\* ... and then cur
ScanSecond ==
  /\ pc = "scanCur"
  /\ index' = Merge(index, {Path(f) : f \in In(Dir2(FirstDir))})
  /\ pc' = "ready"
  /\ UNCHANGED <<files, todo, result, appendVars, process, arrived, ghostVars>>

ListIDs == IdsOf(index)

\* FetchMeta for some of the listed IDs (nil: all of them); an ID that is not
\* in e.files would be skipped
FetchBegin ==
  /\ pc = "ready"
  /\ \E ids \in SUBSET ListIDs \ {{}} : todo' = ids
  /\ pc' = "fetch" /\ result' = "none"
  /\ UNCHANGED <<files, index, appendVars, process, arrived, ghostVars>>

\* Stat and readHeaderBlock of one path: a file that is not there any more
\* fails the whole call
FetchOne ==
  /\ pc = "fetch"
  /\ \E p \in index :
       /\ p.id \in todo
       /\ IF At(p) = {}
          THEN todo' = {} /\ result' = "error" /\ pc' = "ready"
          ELSE /\ todo' = todo \ {p.id}
               /\ result' = IF todo' = {} THEN "ok" ELSE result
               /\ pc' = IF todo' = {} THEN "ready" ELSE pc
  /\ UNCHANGED <<files, index, appendVars, process, arrived, ghostVars>>

\* Open; a failing ReadFile is the caller's error for that one message
Open ==
  /\ pc = "ready"
  /\ \E p \in index : result' = IF At(p) = {} THEN "missing" ELSE "ok"
  /\ UNCHANGED <<files, index, pc, todo, appendVars, process, arrived, ghostVars>>

-----------------------------------------------------------------------------
\* Append

\* Mutant: the process-wide counter is left out of the name
UniqueNoCounter == <<now, pid, 1>>

\* sec.pid_counter.host
Unique == <<now, pid, counter + 1>>

TmpDir == "tmp"

\* The name is made, and tmp/name created: O_EXCL fails if it is there
AppendCreate ==
  /\ pc = "ready" /\ counter < MaxAppend
  /\ counter' = counter + 1
  /\ \E c \in Copy \ sent, s \in Info \cup {NoInfo} :
       /\ IF \E f \in In(TmpDir) : f.id = Unique
          THEN UNCHANGED <<files, pc, name, suffix, sending>>
          ELSE /\ files' = files \cup {File(TmpDir, Unique, NoInfo, Partial)}
               /\ name' = Unique /\ suffix' = s /\ sending' = c
               /\ pc' = "write"
  /\ result' = "none"
  /\ UNCHANGED <<index, todo, sent, process, arrived, ghostVars>>

\* Append's local variables are gone when it returns
Returned == name' = NoName /\ suffix' = NoInfo /\ sending' = Partial

Mine == {f \in In(TmpDir) : f.id = name}

\* io.Copy, Close and Chtimes
AppendWrite ==
  /\ pc = "write"
  /\ files' = (files \ Mine) \cup {File(TmpDir, name, NoInfo, sending)}
  /\ pc' = "rename"
  /\ UNCHANGED <<index, todo, result, appendVars, process, arrived, ghostVars>>

\* Rename to new, or to cur under the flag suffix: what has that name is lost.
\* The new path is entered in e.files.
AppendRename ==
  /\ pc = "rename"
  /\ LET f == File(IF suffix = NoInfo THEN "new" ELSE "cur", name, suffix, sending) IN
       /\ files' = {g \in files \ Mine : Path(g) # Path(f)} \cup {f}
       /\ index' = Merge(index, {Path(f)})
  /\ sent' = sent \cup {sending}
  /\ pc' = "ready" /\ Returned
  /\ UNCHANGED <<todo, result, counter, process, arrived, ghostVars>>

\* Mutant: the temporary file is left behind
AppendFailedLeaves ==
  /\ pc \in {"write", "rename"}
  /\ pc' = "ready" /\ Returned
  /\ UNCHANGED <<files, index, todo, result, sent, counter, process, arrived, ghostVars>>

\* Write, Close or Rename fails: the temporary file is removed
AppendFailed ==
  /\ pc \in {"write", "rename"}
  /\ files' = files \ Mine
  /\ pc' = "ready" /\ Returned
  /\ UNCHANGED <<index, todo, result, sent, counter, process, arrived, ghostVars>>

\* The process dies, and is started again in this second or a later one
Crash ==
  /\ pc # "down" /\ crashes < MaxCrash
  /\ pc' = "down" /\ Returned
  /\ index' = {} /\ todo' = {} /\ result' = "none" /\ counter' = 0
  /\ steady' = {} /\ touched' = {}
  /\ crashes' = crashes + 1 /\ again' = now
  /\ orphans' = orphans \cup IdsOf(In(TmpDir))
  /\ UNCHANGED <<files, sent, pid, now, arrived>>

Restart ==
  /\ pc = "down"
  /\ pc' = "idle" /\ pid' \in {pid, pid + 1}
  /\ again' = IF pid' = pid /\ again = now THEN now ELSE MaxTime + 1
  /\ UNCHANGED <<files, index, todo, result, appendVars, now, crashes, orphans, arrived, ghostVars>>

Others == Deliver \/ Rename \/ Delete \/ Tick

Tool == Select \/ ScanSecond \/ FetchBegin \/ FetchOne \/ Open
          \/ AppendCreate \/ AppendWrite \/ AppendRename \/ AppendFailed

Next == Others \/ Tool \/ Crash \/ Restart

Spec == Init /\ [][Next]_vars

-----------------------------------------------------------------------------
Ids == Mail \cup ((0..MaxTime) \X (1..(MaxCrash + 1)) \X Nat)

TypeOK ==
  /\ \A f \in files :
       /\ f.dir \in {"tmp", "new", "cur"} /\ f.id \in Ids
       /\ f.info \in Info \cup {NoInfo} /\ f.body \in Mail \cup Copy \cup {Partial}
  /\ \A p, q \in index : p.id = q.id => p = q
  /\ pc \in {"idle", "scanCur", "ready", "fetch", "write", "rename", "down"}
  /\ todo \subseteq IdsOf(index) /\ result \in {"none", "ok", "error", "missing"}
  /\ counter \in Nat /\ pid \in 1..(MaxCrash + 1) /\ now \in 0..MaxTime
  /\ crashes \in 0..MaxCrash /\ again \in 0..(MaxTime + 1) /\ orphans \subseteq Ids

(***************************************************************************)
(* scan misses no message that stayed in the folder, although a reader may *)
(* move it from one directory to the other between the two ReadDir calls.  *)
(***************************************************************************)
ScanComplete == pc = "ready" => steady \subseteq ListIDs

(***************************************************************************)
(* A listed path is stale only if the message was moved or deleted after   *)
(* scan had read cur: one that changed directory between the two ReadDir   *)
(* calls is known by its new path (scan, FetchMeta, Open).                 *)
(***************************************************************************)
PathsCurrent ==
  pc = "ready" => \A p \in index : p.id \in touched \/ At(p) # {}

(***************************************************************************)
(* No mail reader ever sees a half-written message, and none is left in    *)
(* tmp once its Append has returned, unless the process died in it         *)
(* (Append: tmp, rename, and the removal on every error path).             *)
(***************************************************************************)
NoPartialVisible ==
  /\ \A f \in Visible : f.body # Partial
  /\ pc \in {"idle", "scanCur", "ready", "fetch"} =>
       IdsOf(In("tmp")) \subseteq orphans

(***************************************************************************)
(* No step of the tool removes or replaces a message, neither one of the   *)
(* user's nor one it has appended before, also after a restart within the  *)
(* same second.  Only in a second in which the process was started again   *)
(* under the number it had before can a name come back and replace what    *)
(* was appended under it (Append's unique name, os.Rename).                *)
(***************************************************************************)
NeverOverwrites ==
  [][(Tool \/ Crash \/ Restart) =>
       \/ {<<f.id, f.body>> : f \in Visible} \subseteq {<<f.id, f.body>> : f \in Visible'}
       \/ AppendRename /\ name[1] = again]_vars

(***************************************************************************)
(* The comment in FetchMeta: a message that vanished between scan and      *)
(* fetch is skipped.  Not true of the code: Stat of the stale path fails   *)
(* the call.                                                               *)
(***************************************************************************)
VanishedIsSkipped == result # "error"
=============================================================================
