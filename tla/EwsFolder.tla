------------------------------ MODULE EwsFolder -----------------------------
(***************************************************************************)
(* The EWS endpoint (internal/endpoint/ews.go): Select finds the folder    *)
(* of a pair among the mailbox's, ListIDs turns the pages of FindItem by   *)
(* their offset, FetchMeta asks for the metadata batch by batch and Append *)
(* makes an item, while messages arrive in the folder and leave it between *)
(* any two requests.                                                       *)
(***************************************************************************)
EXTENDS Naturals, Sequences, SequencesExt, FiniteSets

CONSTANTS
  MaxItem,     \* messages that are ever in the mailbox
  Folder,      \* its folders, apart from the inbox
  Batch,       \* e.batch, cfg.FetchBatchSize
  MaxRemove    \* how many messages other programs remove

ASSUME EwsFolderAssumption ==
  /\ MaxItem \in Nat \ {0, 1} /\ Batch \in Nat \ {0} /\ MaxRemove \in Nat
  /\ IsFiniteSet(Folder) /\ "inbox" \notin Folder

Place == Folder \cup {"inbox"}

\* Names of pairs and of folders; Fold is what EqualFold compares
Fold == [n \in {"INBOX", "Box", "box"} |-> IF n = "INBOX" THEN "inbox" ELSE "box"]
Name == DOMAIN Fold

\* Names of places that need no search, after ToLower
ewsDistinguished == {"inbox"}

VARIABLES
  display,   \* the display name of each folder
  items,     \* each folder's messages, in the order FindItem returns them
  arrived,   \* how many messages have come: they are numbered as they do
  removed,   \* how many have left
  phase,     \* "idle", "ready", "list", "listed", "fetch", "fetched", "error"
  place,     \* e.folderXML
  named,     \* the folders that the name given to Select stands for
  offset,    \* ListIDs' loop variable
  ids,       \* the IDs collected so far
  start,     \* FetchMeta's loop variable
  meta,      \* the IDs metadata has come back for, in order
  steady,    \* messages in the folder ever since ListIDs began
  left       \* whether a message has left it since then (both until FetchMeta)

folderVars == <<display, items, arrived, removed>>
selectVars == <<place, named>>
listVars == <<offset, ids, start, meta>>
ewsVars == <<folderVars, phase, selectVars, listVars, steady, left>>

FolderInit ==
  /\ display \in [Folder -> {"Box", "box"}]
  /\ \E p \in Place : items = [q \in Place |-> IF q = p THEN <<1, 2>> ELSE <<>>]
  /\ arrived = 2 /\ removed = 0
  /\ phase = "idle" /\ place = "inbox" /\ named = {}
  /\ offset = 0 /\ ids = <<>> /\ start = 0 /\ meta = <<>>
  /\ steady = {} /\ left = FALSE

\* FindItem names no sort order: a message may come first, or last
Added ==
  /\ arrived < MaxItem
  /\ arrived' = arrived + 1
  /\ \E s \in {<<arrived'>> \o items[place], Append(items[place], arrived')} :
       items' = [items EXCEPT ![place] = s]

\* Mail in the folder that is selected; of the others only what they hold when
\* they are selected matters, and FolderInit has them empty or not
Arrive ==
  /\ Added
  /\ UNCHANGED <<display, removed, phase, selectVars, listVars, steady, left>>

Leave ==
  /\ removed < MaxRemove
  /\ \E k \in 1..Len(items[place]) :
       /\ items' = [items EXCEPT ![place] = RemoveAt(@, k)]
       /\ steady' = steady \ {items[place][k]}
  /\ removed' = removed + 1 /\ left' = (phase \in {"list", "listed"})
  /\ UNCHANGED <<display, arrived, phase, selectVars, listVars>>

-----------------------------------------------------------------------------
\* Mutant: the first name that is equal but for case is taken
findFolderFold(listing, n) == SelectInSeq(listing, LAMBDA f : Fold[display[f]] = Fold[n])

\* The position of the first folder of exactly this name, else of the last one
\* whose name differs in case only, else 0
findFolder(listing, n) ==
  LET exact == SelectInSeq(listing, LAMBDA f : display[f] = n)
  IN IF exact # 0 THEN exact
     ELSE SelectLastInSeq(listing, LAMBDA f : Fold[display[f]] = Fold[n])

\* What a name means, whatever the order of the answer
Meant(n) ==
  IF Fold[n] \in ewsDistinguished THEN {"inbox"}
  ELSE LET exact == {f \in Folder : display[f] = n}
       IN IF exact # {} THEN exact ELSE {f \in Folder : Fold[display[f]] = Fold[n]}

\* A pair begins, after the one before has ended.  FindFolder may fail or list
\* the folders in any order; an error leaves the folder as it was, and syncPair
\* gives the pair up.
Select ==
  /\ phase \in {"idle", "ready", "listed", "fetched", "error"}
  /\ \E n \in Name :
       \/ /\ Fold[n] \in ewsDistinguished
          /\ place' = Fold[n] /\ phase' = "ready" /\ named' = Meant(n)
       \/ /\ Fold[n] \notin ewsDistinguished
          /\ \E listing \in SetToSeqs(Folder) :
               LET k == findFolder(listing, n)
               IN k # 0 /\ place' = listing[k] /\ phase' = "ready" /\ named' = Meant(n)
       \/ Fold[n] \notin ewsDistinguished /\ phase' = "error" /\ UNCHANGED selectVars
  /\ offset' = 0 /\ ids' = <<>> /\ start' = 0 /\ meta' = <<>>
  /\ steady' = {} /\ left' = FALSE
  /\ UNCHANGED folderVars

AtMost(m, n) == IF m < n THEN m ELSE n

\* The server's page: Batch entries from the offset on
Page == SubSeq(items[place], offset + 1, AtMost(offset + Batch, Len(items[place])))

\* IncludesLastItemInRange; behind the end it says nothing certain
LastInRange == IF Page = <<>> THEN BOOLEAN ELSE {offset + Batch >= Len(items[place])}

ListBegin ==
  /\ phase = "ready"
  /\ phase' = "list" /\ steady' = Range(items[place]) /\ left' = FALSE
  /\ UNCHANGED <<folderVars, selectVars, listVars>>

\* Mutant: the loop ends with the flag only
EndOfListFlag(last) == last

EndOfList(last) == last \/ Page = <<>>

\* Mutant: one entry is stepped over with every page
NextOffsetBeyond == offset + Batch + 1

NextOffset == offset + Batch

\* Bound: the offsets behind every end of the folder, where all pages are empty,
\* are counted round in a circle
OffsetCap == MaxItem + Batch

Folded(n) == IF n > OffsetCap THEN n - Batch - 1 ELSE n

ListPage ==
  /\ phase = "list"
  /\ ids' = ids \o Page
  /\ \E last \in LastInRange :
       IF EndOfList(last)
       THEN phase' = "listed" /\ offset' = 0
       ELSE offset' = Folded(NextOffset) /\ UNCHANGED phase
  /\ UNCHANGED <<folderVars, selectVars, start, meta, steady, left>>

\* FetchMeta(nil), or with the IDs that the cache does not hold
FetchBegin ==
  /\ phase = "listed"
  /\ phase' = "fetch" /\ steady' = {} /\ left' = FALSE
  /\ ids' \in {ids} \cup {RemoveAt(ids, k) : k \in 1..Len(ids)}
  /\ UNCHANGED <<folderVars, selectVars, offset, start, meta>>

\* Mutant: the next batch begins one entry late
NextStartBeyond == start + Batch + 1

NextStart == start + Batch

\* getItems for one batch: an ErrorItemNotFound among the answers fails the call
FetchBatch ==
  /\ phase = "fetch" /\ start < Len(ids)
  /\ LET batch == SubSeq(ids, start + 1, AtMost(start + Batch, Len(ids))) IN
       IF Range(batch) \subseteq Range(items[place])
       THEN meta' = meta \o batch /\ start' = NextStart /\ UNCHANGED phase
       ELSE meta' = <<>> /\ phase' = "error" /\ start' = 0
  /\ UNCHANGED <<folderVars, selectVars, offset, ids, steady, left>>

FetchEnd ==
  /\ phase = "fetch" /\ start >= Len(ids)
  /\ phase' = "fetched"
  /\ UNCHANGED <<folderVars, selectVars, listVars, steady, left>>

\* A request fails: ListIDs and FetchMeta return nothing
CallFailed ==
  /\ phase \in {"list", "fetch"}
  /\ phase' = "error" /\ offset' = 0 /\ ids' = <<>> /\ start' = 0 /\ meta' = <<>>
  /\ steady' = {} /\ left' = FALSE
  /\ UNCHANGED <<folderVars, selectVars>>

\* Append of a message of the other side, after both indexes are built: CreateItem
\* in the selected folder.  Its answer may be lost.
AppendItem ==
  /\ phase = "fetched" /\ Added
  /\ UNCHANGED <<display, removed, phase, selectVars, listVars, steady, left>>

Work == ListPage \/ FetchBatch \/ FetchEnd

FolderNext == Arrive \/ Leave \/ Select \/ AppendItem \/ ListBegin \/ FetchBegin \/ Work \/ CallFailed

FolderSpec == FolderInit /\ [][FolderNext]_ewsVars

\* Every request is answered, unless it times out (CallFailed)
FairFolderSpec == FolderSpec /\ WF_ewsVars(Work)

-----------------------------------------------------------------------------
FolderTypeOK ==
  /\ display \in [Folder -> Name] /\ DOMAIN items = Place
  /\ \A p \in Place : Range(items[p]) \subseteq 1..arrived /\ IsInjective(items[p])
  /\ arrived \in 0..MaxItem /\ removed \in 0..MaxRemove
  /\ phase \in {"idle", "ready", "list", "listed", "fetch", "fetched", "error"}
  /\ place \in Place /\ named \subseteq Place
  /\ offset \in 0..OffsetCap /\ start \in 0..(Len(ids) + Batch - 1)
  /\ left \in BOOLEAN /\ Range(ids) \subseteq 1..arrived /\ Range(meta) \subseteq Range(ids)

(***************************************************************************)
(* ListIDs returns the ID of every message that is in the folder the pair  *)
(* names from the first page to the last (endpoint.go: "IDs of every       *)
(* message in the current folder"): the folder of exactly that name, where *)
(* there is one, in whatever order FindFolder answers, and whatever        *)
(* arrives in between, at either end, and moves the others to other        *)
(* offsets.  A message that leaves does make the next page skip one that   *)
(* stays: without the premise this is not true.                            *)
(***************************************************************************)
ListsEveryMessage ==
  phase = "listed" => place \in named /\ (left \/ steady \subseteq Range(ids))

(***************************************************************************)
(* FetchMeta returns metadata for exactly the IDs it was asked for, each   *)
(* once and in their order, or it fails: the index is never built from a   *)
(* part of the folder.                                                     *)
(***************************************************************************)
FetchAllOrNothing ==
  /\ phase = "fetched" => meta = ids
  /\ phase = "error" => meta = <<>>

(***************************************************************************)
(* ListIDs returns: the pages come to an end also when messages leave the  *)
(* folder and the offset runs past its end.                                *)
(***************************************************************************)
ListEnds == (phase = "list") ~> (phase \in {"listed", "error"})
=============================================================================
