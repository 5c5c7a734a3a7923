--------------------------- MODULE MaildirProofs ----------------------------
(***************************************************************************)
(* Proofs about Maildir, for any messages, flags, number of crashes and    *)
(* length of time.                                                         *)
(***************************************************************************)
EXTENDS Maildir, TLAPS

Names == Nat \X Nat \X Nat
Suffix == Info \cup {NoInfo}
FileSet == [dir : {"tmp", "new", "cur"}, id : Mail \cup Names, info : Suffix,
            body : Mail \cup Copy \cup {Partial}]
PathSet == [dir : {"new", "cur"}, id : Mail \cup Names, info : Suffix]

Appending == pc \in {"write", "rename"}

Types ==
  /\ files \subseteq FileSet /\ index \subseteq PathSet
  /\ pc \in {"idle", "scanCur", "ready", "fetch", "write", "rename", "down"}
  /\ now \in Nat /\ pid \in Nat /\ counter \in Nat /\ again \in Nat
  /\ Appending => sending \in Copy /\ suffix \in Suffix /\ name \in Names

\* A temporary file is that of the Append that is going on, or an orphan
Temporary ==
  /\ \A f \in files : f.dir # "tmp" => f.body # Partial
  /\ \A f \in files : f.dir = "tmp" => f.id \in orphans \/ (Appending /\ f.id = name)

\* What stayed is listed, or still to be read in cur
Scanned ==
  /\ pc = "scanCur" =>
       \A i \in steady : (\E p \in index : p.id = i) \/ (\E f \in files : f.dir = "cur" /\ f.id = i)
  /\ pc \in {"ready", "fetch", "write", "rename"} => \A i \in steady : \E p \in index : p.id = i

\* A listed path is good, its message touched, or its new path still to be read
Located ==
  /\ pc = "scanCur" =>
       \A p \in index : \/ p.id \in touched
                        \/ \E f \in files : Path(f) = p
                        \/ \E f \in files : f.dir = "cur" /\ f.id = p.id
  /\ pc \in {"ready", "fetch", "write", "rename"} =>
       \A p \in index : p.id \in touched \/ \E f \in files : Path(f) = p

\* A name given out is of an earlier process or an earlier second, or was counted,
\* but for those of the second in which the process number came back
Given(i) ==
  i \notin Mail =>
    /\ i[1] <= now /\ i[2] <= pid
    /\ i[2] = pid => i[3] <= counter \/ i[1] < now \/ i[1] = again

Named ==
  /\ \A f \in files : Given(f.id)
  /\ Appending => name[1] <= now /\ name[2] = pid /\ name[3] <= counter
  /\ Appending => \A f \in files : f.dir # "tmp" /\ f.id = name => name[1] = again

Inv == Types /\ Temporary /\ Scanned /\ Located /\ Named

LEMMA InitInv == Init => Inv
  BY MaildirAssumption
  DEF Init, Inv, Types, Temporary, Scanned, Located, Named, Given, Appending, FileSet,
      PathSet, Suffix, File, Path, IdsOf

LEMMA TypesStep ==
  ASSUME Inv, [Next]_vars
  PROVE  Types'
<1> USE DEF Inv, Types, Appending
<1>1. CASE Deliver
  BY <1>1 DEF Deliver, toolVars, appendVars, process, File, FileSet, Suffix
<1>2. CASE Rename
  <2>1. PICK f \in Visible, s \in Info : files' = (files \ {f}) \cup {File("cur", f.id, s, f.body)}
    BY <1>2 DEF Rename
  <2>2. File("cur", f.id, s, f.body) \in FileSet
    BY DEF Visible, File, FileSet, Suffix
  <2> QED BY <1>2, <2>1, <2>2 DEF Rename, toolVars, appendVars, process
<1>3. CASE Delete
  BY <1>3 DEF Delete, toolVars, appendVars, process
<1>4. CASE Tick
  BY <1>4 DEF Tick, toolVars, appendVars
<1>5. CASE Select
  BY <1>5 DEF Select, FirstDir, In, Path, PathSet, FileSet, appendVars, process
<1>6. CASE ScanSecond
  BY <1>6 DEF ScanSecond, FirstDir, Dir2, Merge, In, Path, PathSet, FileSet, appendVars, process
<1>7. CASE FetchBegin \/ FetchOne \/ Open
  BY <1>7 DEF FetchBegin, FetchOne, Open, appendVars, process
<1>8. CASE AppendCreate
  <2>1. Unique \in Names
    BY DEF Unique, Names
  <2>2. File(TmpDir, Unique, NoInfo, Partial) \in FileSet
    BY <2>1 DEF File, FileSet, Suffix, TmpDir
  <2> QED BY <1>8, <2>1, <2>2 DEF AppendCreate, process, Suffix
<1>9. CASE AppendWrite
  BY <1>9 DEF AppendWrite, File, FileSet, Suffix, TmpDir, appendVars, process
<1>10. CASE AppendRename
  BY <1>10 DEF AppendRename, File, FileSet, Path, PathSet, Suffix, Merge, Returned, process
<1>11. CASE AppendFailed
  BY <1>11 DEF AppendFailed, Returned, process
<1>12. CASE Crash
  BY <1>12 DEF Crash, Returned
<1>13. CASE Restart
  BY <1>13, MaildirAssumption DEF Restart, appendVars
<1>14. CASE UNCHANGED vars
  BY <1>14 DEF vars, toolVars, appendVars, process
<1> QED
  BY <1>1, <1>2, <1>3, <1>4, <1>5, <1>6, <1>7, <1>8, <1>9, <1>10, <1>11, <1>12, <1>13, <1>14
  DEF Next, Others, Tool

LEMMA TemporaryStep ==
  ASSUME Inv, [Next]_vars
  PROVE  Temporary'
<1> USE DEF Inv, Types, Temporary, Appending
<1>1. CASE Deliver
  BY <1>1, MaildirAssumption DEF Deliver, toolVars, appendVars, process, File
<1>2. CASE Rename
  BY <1>2 DEF Rename, Visible, toolVars, appendVars, process, File
<1>3. CASE Delete
  BY <1>3 DEF Delete, toolVars, appendVars, process
<1>4. CASE Tick
  BY <1>4 DEF Tick, toolVars, appendVars
<1>5. CASE Select \/ ScanSecond \/ FetchBegin \/ FetchOne \/ Open
  BY <1>5 DEF Select, ScanSecond, FetchBegin, FetchOne, Open, appendVars, process
<1>8. CASE AppendCreate
  BY <1>8 DEF AppendCreate, process, File, TmpDir
<1>9. CASE AppendWrite
  BY <1>9 DEF AppendWrite, File, TmpDir, appendVars, process
<1>10. CASE AppendRename
  BY <1>10, MaildirAssumption DEF AppendRename, File, Mine, In, TmpDir, Returned, process
<1>11. CASE AppendFailed
  BY <1>11 DEF AppendFailed, Mine, In, TmpDir, Returned, process
<1>12. CASE Crash
  BY <1>12 DEF Crash, Returned, IdsOf, In, TmpDir
<1>13. CASE Restart
  BY <1>13 DEF Restart, appendVars
<1>14. CASE UNCHANGED vars
  BY <1>14 DEF vars, toolVars, appendVars, process
<1> QED
  BY <1>1, <1>2, <1>3, <1>4, <1>5, <1>8, <1>9, <1>10, <1>11, <1>12, <1>13, <1>14
  DEF Next, Others, Tool

LEMMA ScannedStep ==
  ASSUME Inv, [Next]_vars
  PROVE  Scanned'
<1> USE DEF Inv, Types, Scanned
<1>1. CASE Deliver
  BY <1>1 DEF Deliver, toolVars, ghostVars
<1>2. CASE Rename
  <2>1. PICK f \in Visible, s \in Info : files' = (files \ {f}) \cup {File("cur", f.id, s, f.body)}
    BY <1>2 DEF Rename
  <2>2. File("cur", f.id, s, f.body) \in files'
        /\ File("cur", f.id, s, f.body).dir = "cur" /\ File("cur", f.id, s, f.body).id = f.id
    BY <2>1 DEF File
  <2>3. \A g \in files : g.dir = "cur" => \E h \in files' : h.dir = "cur" /\ h.id = g.id
    BY <2>1, <2>2
  <2> QED BY <1>2, <2>3 DEF Rename, toolVars
<1>3. CASE Delete
  BY <1>3 DEF Delete, toolVars
<1>4. CASE Tick
  BY <1>4 DEF Tick, toolVars, ghostVars
<1>5. CASE Select
  <2>1. \A i \in steady' : (\E p \in index' : p.id = i) \/ (\E f \in files : f.dir = "cur" /\ f.id = i)
    <3> TAKE i \in steady'
    <3>1. PICK f \in files : f.dir # "tmp" /\ f.id = i
      BY <1>5 DEF Select, IdsOf, Visible
    <3>2. CASE f.dir = "new"
      <4>1. Path(f) \in index' /\ Path(f).id = i
        BY <1>5, <3>1, <3>2 DEF Select, FirstDir, In, Path
      <4> QED BY <4>1
    <3>3. CASE f.dir = "cur"
      BY <3>1, <3>3
    <3> QED BY <3>1, <3>2, <3>3 DEF FileSet
  <2> QED BY <1>5, <2>1 DEF Select
<1>6. CASE ScanSecond
  <2>1. \A i \in steady' : \E p \in index' : p.id = i
    <3> TAKE i \in steady'
    <3>1. CASE \E f \in files : f.dir = "cur" /\ f.id = i
      <4>1. PICK f \in files : f.dir = "cur" /\ f.id = i
        BY <3>1
      <4>2. Path(f) \in index' /\ Path(f).id = i
        BY <1>6, <4>1 DEF ScanSecond, Merge, Dir2, FirstDir, In, Path
      <4> QED BY <4>2
    <3>2. CASE ~ \E f \in files : f.dir = "cur" /\ f.id = i
      <4>1. PICK p \in index : p.id = i
        BY <1>6, <3>2 DEF ScanSecond, ghostVars
      <4>2. p \in index'
        BY <1>6, <3>2, <4>1 DEF ScanSecond, Merge, IdsOf, Dir2, FirstDir, In, Path
      <4> QED BY <4>1, <4>2
    <3> QED BY <3>1, <3>2
  <2> QED BY <1>6, <2>1 DEF ScanSecond
<1>7. CASE FetchBegin \/ FetchOne \/ Open
  BY <1>7 DEF FetchBegin, FetchOne, Open, ghostVars
<1>8. CASE AppendCreate
  BY <1>8 DEF AppendCreate, ghostVars
<1>9. CASE AppendWrite \/ AppendFailed
  BY <1>9 DEF AppendWrite, AppendFailed, ghostVars
<1>10. CASE AppendRename
  BY <1>10 DEF AppendRename, Merge, IdsOf, Path, File, ghostVars
<1>12. CASE Crash
  BY <1>12 DEF Crash
<1>13. CASE Restart
  BY <1>13 DEF Restart, ghostVars
<1>14. CASE UNCHANGED vars
  BY <1>14 DEF vars, toolVars, ghostVars
<1> QED
  BY <1>1, <1>2, <1>3, <1>4, <1>5, <1>6, <1>7, <1>8, <1>9, <1>10, <1>12, <1>13, <1>14
  DEF Next, Others, Tool

LEMMA LocatedStep ==
  ASSUME Inv, [Next]_vars
  PROVE  Located'
<1> USE DEF Inv, Types, Located
<1>1. CASE Deliver
  BY <1>1 DEF Deliver, toolVars, ghostVars
<1>2. CASE Rename
  <2>1. PICK f \in Visible, s \in Info :
          /\ files' = (files \ {f}) \cup {File("cur", f.id, s, f.body)}
          /\ touched' = IF pc = "scanCur" THEN touched ELSE touched \cup {f.id}
    BY <1>2 DEF Rename
  <2>2. File("cur", f.id, s, f.body) \in files'
        /\ File("cur", f.id, s, f.body).dir = "cur" /\ File("cur", f.id, s, f.body).id = f.id
    BY <2>1 DEF File
  <2>3. \A g \in files : g.dir = "cur" => \E h \in files' : h.dir = "cur" /\ h.id = g.id
    BY <2>1, <2>2
  <2>4. \A g \in files : Path(g).id = g.id /\ (g = f \/ g \in files')
    BY <2>1 DEF Path
  <2>5. \A p \in index : (\E g \in files : Path(g) = p) =>
          p.id = f.id \/ \E g \in files' : Path(g) = p
    BY <2>4
  <2>6. index' = index /\ pc' = pc
    BY <1>2 DEF Rename, toolVars
  <2>7. CASE pc = "scanCur"
    BY <2>1, <2>2, <2>3, <2>5, <2>6, <2>7
  <2>8. CASE pc # "scanCur"
    BY <2>1, <2>5, <2>6, <2>8
  <2> QED BY <2>7, <2>8
<1>3. CASE Delete
  BY <1>3 DEF Delete, toolVars, Path
<1>4. CASE Tick
  BY <1>4 DEF Tick, toolVars, ghostVars
<1>5. CASE Select
  BY <1>5 DEF Select, In
<1>6. CASE ScanSecond
  <2> DEFINE cur == {Path(f) : f \in In("cur")}
  <2>1. index' = cur \cup {p \in index : p.id \notin IdsOf(cur)}
    BY <1>6 DEF ScanSecond, Merge, Dir2, FirstDir
  <2>2. \A f \in files : f.dir = "cur" => f.id \in IdsOf(cur)
    <3> TAKE f \in files
    <3> HAVE f.dir = "cur"
    <3>1. Path(f) \in cur /\ Path(f).id = f.id
      BY DEF In, Path
    <3> QED BY <3>1 DEF IdsOf
  <2>3. \A p \in cur : \E f \in files : Path(f) = p
    BY DEF In
  <2> HIDE DEF cur
  <2>4. files' = files /\ touched' = touched /\ pc = "scanCur" /\ pc' = "ready"
    BY <1>6 DEF ScanSecond, ghostVars
  <2>5. \A p \in index' : p.id \in touched \/ \E f \in files : Path(f) = p
    BY <2>1, <2>2, <2>3, <2>4
  <2> QED BY <2>4, <2>5
<1>7. CASE FetchBegin \/ FetchOne \/ Open
  BY <1>7 DEF FetchBegin, FetchOne, Open, ghostVars
<1>8. CASE AppendCreate
  BY <1>8 DEF AppendCreate, ghostVars
<1>9. CASE AppendWrite \/ AppendFailed
  BY <1>9 DEF AppendWrite, AppendFailed, Mine, In, TmpDir, Path, PathSet, ghostVars
<1>10. CASE AppendRename
  <2> DEFINE f == File(IF suffix = NoInfo THEN "new" ELSE "cur", name, suffix, sending)
  <2>1. /\ files' = {g \in files \ Mine : Path(g) # Path(f)} \cup {f}
        /\ index' \subseteq index \cup {Path(f)}
        /\ touched' = touched /\ pc = "rename" /\ pc' = "ready"
    BY <1>10 DEF AppendRename, Merge, ghostVars
  <2>2. \A g \in Mine : Path(g).dir = "tmp"
    BY DEF Mine, In, TmpDir, Path
  <2> HIDE DEF f
  <2>3. \A p \in index' : p.id \in touched \/ \E g \in files' : Path(g) = p
    <3> TAKE p \in index'
    <3>1. CASE p = Path(f)
      BY <2>1, <3>1
    <3>2. CASE p # Path(f)
      <4>1. p \in index /\ p.dir # "tmp"
        BY <2>1, <3>2 DEF PathSet
      <4> QED BY <2>1, <2>2, <3>2, <4>1
    <3> QED BY <3>1, <3>2
  <2> QED BY <2>1, <2>3
<1>12. CASE Crash
  BY <1>12 DEF Crash
<1>13. CASE Restart
  BY <1>13 DEF Restart, ghostVars
<1>14. CASE UNCHANGED vars
  BY <1>14 DEF vars, toolVars, ghostVars
<1> QED
  BY <1>1, <1>2, <1>3, <1>4, <1>5, <1>6, <1>7, <1>8, <1>9, <1>10, <1>12, <1>13, <1>14
  DEF Next, Others, Tool

LEMMA NamedStep ==
  ASSUME Inv, [Next]_vars
  PROVE  Named'
<1> USE DEF Inv, Types, Named, Appending
<1>0. ASSUME now' = now, pid' = pid, counter' = counter, again' = again
      PROVE  \A i : Given(i)' <=> Given(i)
  BY <1>0 DEF Given
<1>1. CASE Deliver
  <2>1. \A f \in files' : f \in files \/ (f.id \in Mail /\ f.id \notin Names)
    BY <1>1, MaildirAssumption DEF Deliver, File, Names
  <2> QED BY <1>0, <1>1, <2>1 DEF Deliver, toolVars, appendVars, process, Given
<1>2. CASE Rename
  BY <1>0, <1>2 DEF Rename, Visible, toolVars, appendVars, process, File
<1>3. CASE Delete
  BY <1>0, <1>3 DEF Delete, toolVars, appendVars, process
<1>4. CASE Tick
  <2>1. \A f \in files : Given(f.id)'
    BY <1>4 DEF Tick, appendVars, Given, FileSet, Names
  <2> QED BY <1>4, <2>1 DEF Tick, toolVars, appendVars, Names
<1>5. CASE Select \/ ScanSecond \/ FetchBegin \/ FetchOne \/ Open
  BY <1>0, <1>5 DEF Select, ScanSecond, FetchBegin, FetchOne, Open, appendVars, process
<1>8. CASE AppendCreate
  <2>1. \A f \in files : Given(f.id)'
    BY <1>8 DEF AppendCreate, process, Given, FileSet, Names
  <2>u. /\ Unique \in Names /\ Unique \notin Mail
        /\ Unique[1] = now /\ Unique[2] = pid /\ Unique[3] = counter + 1
    BY MaildirAssumption DEF Unique, Names
  <2>2. PICK n \in Names : /\ n = Unique /\ n \notin Mail
                           /\ n[1] = now /\ n[2] = pid /\ n[3] = counter + 1
    BY <2>u
  <2>3. Given(n)' /\ n[1] <= now' /\ n[2] = pid' /\ n[3] <= counter'
    BY <1>8, <2>2 DEF AppendCreate, process, Given
  <2>4. \A f \in files : f.id = n => n[1] = again
    BY <2>2 DEF Given
  <2>5. again' = again /\ pc = "ready"
    BY <1>8 DEF AppendCreate, process
  <2>6. CASE files' = files /\ pc' = pc
    BY <2>1, <2>5, <2>6
  <2>7. CASE files' = files \cup {File(TmpDir, n, NoInfo, Partial)} /\ name' = n
    BY <2>1, <2>3, <2>4, <2>5, <2>7 DEF File, TmpDir
  <2> QED BY <1>8, <2>2, <2>6, <2>7 DEF AppendCreate
<1>9. CASE AppendWrite
  BY <1>0, <1>9 DEF AppendWrite, File, TmpDir, appendVars, process, Given
<1>10. CASE AppendRename
  BY <1>0, <1>10 DEF AppendRename, File, Returned, process, Given
<1>11. CASE AppendFailed
  BY <1>0, <1>11 DEF AppendFailed, Returned, process
<1>12. CASE Crash
  BY <1>12 DEF Crash, Returned, Given, FileSet, Names
<1>13. CASE Restart
  BY <1>13 DEF Restart, appendVars, Given, FileSet, Names
<1>14. CASE UNCHANGED vars
  BY <1>0, <1>14 DEF vars, toolVars, appendVars, process
<1> QED
  BY <1>1, <1>2, <1>3, <1>4, <1>5, <1>8, <1>9, <1>10, <1>11, <1>12, <1>13, <1>14
  DEF Next, Others, Tool

LEMMA Always == Spec => []Inv
<1>1. Inv /\ [Next]_vars => Inv'
  BY TypesStep, TemporaryStep, ScannedStep, LocatedStep, NamedStep DEF Inv
<1> QED
  BY InitInv, <1>1, PTL DEF Spec

(***************************************************************************)
(* scan: a message that stays in the folder is listed, whatever a reader   *)
(* moves between the two directory reads, for any number of messages.      *)
(***************************************************************************)
THEOREM ScanIsComplete == Spec => []ScanComplete
<1>1. Inv => ScanComplete
  BY DEF Inv, Scanned, ScanComplete, ListIDs, IdsOf
<1> QED
  BY <1>1, Always, PTL

(***************************************************************************)
(* scan, FetchMeta and Open: a listed path is stale only if the message    *)
(* was touched after cur had been read.                                    *)
(***************************************************************************)
THEOREM PathsAreCurrent == Spec => []PathsCurrent
<1>1. Inv => PathsCurrent
  BY DEF Inv, Located, PathsCurrent, At
<1> QED
  BY <1>1, Always, PTL

(***************************************************************************)
(* Append: whatever fails and wherever the process dies, no reader sees a  *)
(* message that is not written completely, and only a dead process leaves  *)
(* a temporary file behind.                                                *)
(***************************************************************************)
THEOREM NothingPartial == Spec => []NoPartialVisible
<1>1. Inv => NoPartialVisible
  BY DEF Inv, Temporary, Appending, NoPartialVisible, Visible, IdsOf, In
<1> QED
  BY <1>1, Always, PTL

\* What Append puts in place takes the place of no message
LEMMA RenameKeeps ==
  ASSUME Inv, AppendRename, name[1] # again
  PROVE  Visible \subseteq Visible'
<1> DEFINE f == File(IF suffix = NoInfo THEN "new" ELSE "cur", name, suffix, sending)
<1>1. files' = {g \in files \ Mine : Path(g) # Path(f)} \cup {f}
  BY DEF AppendRename
<1>2. \A g \in Visible : g \notin Mine /\ g.id # name
  BY DEF Visible, Mine, In, TmpDir, Inv, Named, Appending, AppendRename
<1>3. \A g : Path(g) = Path(f) => g.id = name
  BY DEF Path, File
<1> QED
  BY <1>1, <1>2, <1>3 DEF Visible

(***************************************************************************)
(* Append's unique name and os.Rename: no step of the tool removes or      *)
(* replaces a message, but for names of a second in which the process was  *)
(* started again under its old number; for any number of crashes.          *)
(***************************************************************************)
THEOREM NothingOverwritten == Spec => NeverOverwrites
<1> DEFINE Kept == {<<f.id, f.body>> : f \in Visible} \subseteq {<<f.id, f.body>> : f \in Visible'}
<1>1. ASSUME Visible \subseteq Visible'
      PROVE  Kept
  BY <1>1
<1>2. ASSUME Inv, Tool \/ Crash \/ Restart, ~(AppendRename /\ name[1] = again)
      PROVE  Visible \subseteq Visible'
  <2>1. CASE Select \/ ScanSecond \/ FetchBegin \/ FetchOne \/ Open \/ Crash \/ Restart
    BY <2>1 DEF Select, ScanSecond, FetchBegin, FetchOne, Open, Crash, Restart, Visible
  <2>2. CASE AppendCreate
    BY <2>2 DEF AppendCreate, Visible
  <2>3. CASE AppendWrite \/ AppendFailed
    BY <2>3 DEF AppendWrite, AppendFailed, Mine, In, TmpDir, Visible
  <2>4. CASE AppendRename
    BY <1>2, <2>4, RenameKeeps
  <2> QED
    BY <1>2, <2>1, <2>2, <2>3, <2>4 DEF Tool
<1>3. Inv /\ [Next]_vars =>
        [(Tool \/ Crash \/ Restart) => Kept \/ (AppendRename /\ name[1] = again)]_vars
  BY <1>1, <1>2
<1> QED
  BY <1>3, Always, PTL DEF Spec, NeverOverwrites
=============================================================================
