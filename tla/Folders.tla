------------------------------ MODULE Folders -------------------------------
(***************************************************************************)
(* sync_all_folders (internal/syncer/discover.go): every cycle both sides  *)
(* list their folders, the lists are filtered and matched, what is missing *)
(* is created, and the pairs are handed to syncPair, which resolves their  *)
(* names again.  Names are translated between the "/" of the canonical     *)
(* form and the separator of each side (internal/mailbox/client.go,        *)
(* internal/endpoint/maildir.go).  A name is a sequence of words and       *)
(* separators; a word and its capital form differ only in case.            *)
(***************************************************************************)
EXTENDS Naturals, Sequences, FiniteSets, Functions

CONSTANTS
  None,         \* no SPECIAL-USE attribute
  Word,         \* what names are made of, "/" and "." included
  Setups,       \* the pairs of servers with their configuration that are looked at
  Orders,       \* the orders a server may list folders in: rank of each native name
  MaxPasses     \* how many cycles are looked at

Side == {"a", "b"}
Peer(s) == IF s = "a" THEN "b" ELSE "a"

-----------------------------------------------------------------------------
(* Names *)

\* strings.EqualFold, on the words used here
FoldWord(w) == CASE w = "W" -> "w" [] w = "X" -> "x" [] w = "Inbox" -> "INBOX" [] OTHER -> w
FoldName(n) == [i \in DOMAIN n |-> FoldWord(n[i])]
EqualFold(n, m) == FoldName(n) = FoldName(m)

Replace(n, old, new) == [i \in DOMAIN n |-> IF n[i] = old THEN new ELSE n[i]]
Inbox == <<"INBOX">>

\* A folder of a Maildir or of an archive has its attribute by its name; "Items"
\* stands for "Sent Items"
maildirSpecialUseOf(n) == IF EqualFold(n, <<"Sent">>) THEN "\\Sent" ELSE None
pstSpecialUseOf(n) ==
  IF EqualFold(n, <<"Items">>) \/ EqualFold(n, <<"Sent">>) THEN "\\Sent" ELSE None

UseOf(kind, n) == CASE kind = "maildir" -> maildirSpecialUseOf(n)
                    [] kind = "pst"     -> pstSpecialUseOf(n)
                    [] OTHER            -> None
Uses == {None, "\\Sent"}

\* ListFolders: the canonical name of a folder of side s, in the setup c
CanonicalOf(c, s, n) ==
  IF c.kind[s] # "pst" /\ EqualFold(n, Inbox) THEN Inbox ELSE Replace(n, c.delim[s], "/")

\* CreateMailbox, CreateFolder, ResolveFolder: the name in the server's terms
NativeOf(c, s, n) == Replace(n, "/", c.delim[s])

\* The names the pairs of a setup may have
KnownNames(c) == {CanonicalOf(c, "a", f.name) : f \in c.found["a"]}
                   \cup {CanonicalOf(c, "b", f.name) : f \in c.found["b"]}

\* The names folders of a side may have, the ones to be created included
ServerNames(c, s) == {f.name : f \in c.found[s]} \cup {NativeOf(c, s, n) : n \in KnownNames(c)}

\* A folder of an archive is known by its name and its number.  No name begins or
\* ends with its separator, so that CreateFolder has nothing to trim.
ASSUME FoldersAssumption ==
  /\ MaxPasses \in Nat
  /\ {"/", ".", "INBOX"} \subseteq Word
  /\ \A c \in Setups :
       /\ c.kind \in [Side -> {"imap", "maildir", "pst"}]
       /\ c.delim \in [Side -> {"/", "."}]
       /\ \A s \in Side : c.kind[s] = "maildir" => c.delim[s] = "."
       /\ \A s \in Side : c.kind[s] = "pst" => c.delim[s] = "/"
       /\ \A s \in Side : IsFiniteSet(c.found[s])
       /\ \A s \in Side : \A f \in c.found[s] :
            /\ f \in [name : Seq(Word), use : Uses, sel : {"yes", "no"}, no : Nat]
            /\ f.name # <<>> /\ c.delim[s] \notin {f.name[1], f.name[Len(f.name)]}
            /\ c.kind[s] # "imap" => f.use = UseOf(c.kind[s], f.name)
            /\ f.no # 0 => c.kind[s] = "pst"
            /\ \A g \in c.found[s] : f.name = g.name /\ f.no = g.no => f = g
       /\ c.writable \subseteq {s \in Side : c.kind[s] # "pst"}
  /\ \A r \in Orders :
       /\ r \in [DOMAIN r -> Nat]
       /\ \A n, m \in DOMAIN r : r[n] = r[m] => n = m
       /\ \A c \in Setups : \A s \in Side : ServerNames(c, s) \subseteq DOMAIN r

VARIABLES
  setup,     \* the servers and the configuration: never changes
  exists,    \* the folders of each side: name, attribute, whether they are selectable,
             \* and a number that tells folders of an archive with one name apart
  pc,        \* "idle", "use", "name", "b", "a" (creating on that side), "done"
  list,      \* the filtered listing of each side, in the order it was listed
  pos,       \* how many entries of the current loop's list have been treated
  matchedA,  \* positions in list["a"] that have a partner
  usedB,     \* positions in list["b"] that have a partner
  pairs,     \* the folder pairs so far
  passes,    \* cycles begun
  failed,    \* "yes": a folder could not be created in this cycle
  settled    \* the folders after the first cycle in which nothing failed, or None

loopVars == <<exists, pc, list, pos, matchedA, usedB, pairs, passes, failed, settled>>
vars == <<setup, loopVars>>

Kind == setup.kind              \* of each side: "imap", "maildir" or "pst"
Delim == setup.delim            \* the side's own separator, "/" or "."
Found == setup.found            \* the folders that may exist on a side at first
folderExclude == setup.exclude  \* folded names, a SPECIAL-USE token as a name of one word
Writable == setup.writable      \* sides that direction and ReadOnly allow writing to

-----------------------------------------------------------------------------
(* Listings and searches *)

\* Mutant: the separator of the server is left in the name
CanonicalRaw(s, n) == n

Canonical(s, n) == CanonicalOf(setup, s, n)
Native(s, n) == NativeOf(setup, s, n)

\* FolderInfo; native is not part of it in the code, it is kept to compare with
Info(s, f) == [name |-> Canonical(s, f.name), use |-> f.use, native |-> f.name, no |-> f.no]

\* isExcluded
isExcluded(s, f) == \/ FoldName(Canonical(s, f.name)) \in folderExclude
                    \/ f.use # None /\ <<f.use>> \in folderExclude

\* \Noselect on a server; an archive does not list its structural and search folders
Selectable(f) == f.sel = "yes"

\* filterFolders
filterFolders(s) == {f \in exists[s] : Selectable(f) /\ ~isExcluded(s, f)}

\* Of the steps of a search the first that finds something
FirstFound(s, t) == IF s # {} THEN s ELSE t

Named(s, n) == {f \in exists[s] : f.name = n}
NamedFold(s, n) == {f \in exists[s] : EqualFold(f.name, n)}

\* IMAP: an exact match, then the native form of the name, then any case
ResolveFolder(s, n) ==
  LET native == IF Delim[s] # "/" /\ "/" \in Range(n) THEN NamedFold(s, Native(s, n)) ELSE {}
  IN FirstFound(Named(s, n), FirstFound(native, NamedFold(s, n)))

\* Maildir: the root for the INBOX, else the native form, exact or in any case
folderPath(s, n) ==
  IF EqualFold(n, Inbox) THEN NamedFold(s, Inbox)
  ELSE FirstFound(Named(s, Native(s, n)), NamedFold(s, Native(s, n)))

\* PST: an exact match, the first in the archive, which the numbers tell; then any
\* case ("INBOX" stands for "Inbox")
resolvePSTFolder(s, n) ==
  FirstFound({f \in Named(s, n) : \A g \in Named(s, n) : f.no <= g.no}, NamedFold(s, n))

\* The folders Select may open for a name of a pair, which is never a SPECIAL-USE
\* token here.  Of several the first listed is taken: any of them.
Resolve(s, n) == CASE Kind[s] = "imap"    -> ResolveFolder(s, n)
                   [] Kind[s] = "maildir" -> folderPath(s, n)
                   [] Kind[s] = "pst"     -> resolvePSTFolder(s, n)

-----------------------------------------------------------------------------
Init ==
  /\ setup \in Setups
  /\ exists \in [Side -> SUBSET (Found["a"] \cup Found["b"])]
  /\ \A s \in Side : exists[s] \subseteq Found[s]
  /\ \A s \in Side : Kind[s] # "pst" => \E f \in exists[s] : EqualFold(f.name, Inbox)
  /\ pc = "idle"
  /\ list = [s \in Side |-> <<>>]
  /\ pos = 0 /\ matchedA = {} /\ usedB = {} /\ pairs = <<>>
  /\ passes = 0 /\ failed = "no" /\ settled = None

\* The filtered folders of a side, in the order r
Listing(s, r) ==
  LET F == {Info(s, f) : f \in filterFolders(s)}
      before(g, f) == r[g.native] < r[f.native] \/ (g.native = f.native /\ g.no < f.no)
  IN [i \in 1..Cardinality(F) |->
        CHOOSE f \in F : Cardinality({g \in F : before(g, f)}) = i - 1]

\* resolveFolders: both listings, in whatever order the servers answer
ListFolders ==
  /\ pc \in {"idle", "done"}
  /\ passes < MaxPasses
  /\ passes' = passes + 1
  /\ \E r \in [Side -> Orders] : list' = [s \in Side |-> Listing(s, r[s])]
  /\ pc' = "use"
  /\ pos' = 0 /\ matchedA' = {} /\ usedB' = {} /\ pairs' = <<>>
  /\ failed' = "no"
  /\ UNCHANGED <<exists, settled>>

\* What a loop of matchFolders compares: the attributes, then the names
Fits(f, g) == IF pc = "use" THEN f.use # None /\ f.use = g.use ELSE EqualFold(f.name, g.name)

\* Mutant: a folder of b that has a partner is taken again
PartnerAgain(i) ==
  LET J == {j \in DOMAIN list["b"] : Fits(list["a"][i], list["b"][j])}
  IN IF i \in matchedA THEN {} ELSE {j \in J : \A k \in J : j <= k}

\* The partner found for the i-th folder of a: the first unused one
Partner(i) ==
  LET J == {j \in DOMAIN list["b"] \ usedB : Fits(list["a"][i], list["b"][j])}
  IN IF i \in matchedA THEN {} ELSE {j \in J : \A k \in J : j <= k}

\* A pair and the positions in the listings it comes from, 0 for a folder that was
\* created; from is not part of it in the code, it is kept to compare with
PairOf(n, m, i, j) == [a |-> n, b |-> m, from |-> [a |-> i, b |-> j]]

\* One iteration of a loop of matchFolders
MatchStep ==
  LET i == pos + 1
  IN /\ pos' = i
     /\ \/ /\ Partner(i) = {}
           /\ UNCHANGED <<matchedA, usedB, pairs>>
        \/ \E j \in Partner(i) :
             /\ matchedA' = matchedA \cup {i}
             /\ usedB' = usedB \cup {j}
             /\ pairs' = Append(pairs, PairOf(list["a"][i].name, list["b"][j].name, i, j))

\* matchFolders: by SPECIAL-USE attribute, then by name
MatchFolders ==
  /\ \/ pc \in {"use", "name"} /\ pos < Len(list["a"]) /\ MatchStep /\ UNCHANGED pc
     \/ /\ pc \in {"use", "name"} /\ pos = Len(list["a"])
        /\ pc' = IF pc = "use" THEN "name" ELSE "b"
        /\ pos' = 0
        /\ UNCHANGED <<matchedA, usedB, pairs>>
  /\ UNCHANGED <<exists, list, passes, failed, settled>>

\* CREATE fails if there is such a folder, always for the INBOX, and may fail anyway;
\* MkdirAll succeeds if there is one, and nothing is created for the INBOX.  k is the
\* position of the folder in the listing of the other side.
CreateFolder(s, n, k) ==
  LET inbox == EqualFold(n, Inbox)
      there == \E f \in exists[s] : f.name = Native(s, n)
      new == [name |-> Native(s, n), use |-> UseOf(Kind[s], Native(s, n)), sel |-> "yes", no |-> 0]
  IN \/ failed' = "yes" /\ UNCHANGED <<exists, pairs>>
     \/ /\ Kind[s] = "maildir" \/ (~there /\ ~inbox)
        /\ exists' = IF there \/ inbox THEN exists ELSE [exists EXCEPT ![s] = @ \cup {new}]
        /\ pairs' = Append(pairs, IF s = "b" THEN PairOf(n, n, k, 0) ELSE PairOf(n, n, 0, k))
        /\ UNCHANGED failed

\* Mutant: the folders with a partner on the other list are left out
pairFoldersSwapped(s) ==
  LET src == list[Peer(s)]
      done == IF s = "b" THEN usedB ELSE matchedA
  IN /\ pos < Len(src)
     /\ pos' = pos + 1
     /\ IF pos + 1 \notin done /\ s \in Writable
        THEN CreateFolder(s, src[pos + 1].name, pos + 1)
        ELSE UNCHANGED <<exists, pairs, failed>>

\* One iteration of pairFolders' loop over onlyA (creating on b) or onlyB
pairFolders(s) ==
  LET src == list[Peer(s)]
      done == IF s = "b" THEN matchedA ELSE usedB
  IN /\ pos < Len(src)
     /\ pos' = pos + 1
     /\ IF pos + 1 \notin done /\ s \in Writable
        THEN CreateFolder(s, src[pos + 1].name, pos + 1)
        ELSE UNCHANGED <<exists, pairs, failed>>

CreateMissing ==
  /\ \/ \E s \in Side : pc = s /\ pairFolders(s) /\ UNCHANGED <<pc, settled>>
     \/ /\ pc = "b" /\ pos = Len(list["a"])
        /\ pc' = "a" /\ pos' = 0
        /\ UNCHANGED <<exists, pairs, failed, settled>>
     \/ /\ pc = "a" /\ pos = Len(list["b"])
        /\ pc' = "done"
        /\ settled' = IF settled = None /\ failed = "no" THEN exists ELSE settled
        /\ UNCHANGED <<exists, pairs, failed, pos>>
  /\ UNCHANGED <<list, matchedA, usedB, passes>>

Next == (ListFolders \/ MatchFolders \/ CreateMissing) /\ UNCHANGED setup

Spec == Init /\ [][Next]_vars

-----------------------------------------------------------------------------
TypeOK ==
  /\ \A s \in Side : \A f \in exists[s] : f.name \in ServerNames(setup, s) /\ f.use \in Uses
  /\ pc \in {"idle", "use", "name", "b", "a", "done"}
  /\ pos \in 0..(Len(list["a"]) + Len(list["b"]))
  /\ matchedA \subseteq DOMAIN list["a"] /\ usedB \subseteq DOMAIN list["b"]
  /\ passes \in 0..MaxPasses /\ failed \in {"no", "yes"}

(***************************************************************************)
(* What setups have to satisfy for the names of their folders to be kept   *)
(* apart.  The separator of one side is no character of a name on the      *)
(* other, and a server has one INBOX.                                      *)
(***************************************************************************)
PlainNames(c) ==
  \A s \in Side : \A f \in c.found[s] :
    /\ c.delim[s] = "." => "/" \notin Range(f.name)
    /\ c.delim[s] = "/" /\ c.delim[Peer(s)] = "." => "." \notin Range(f.name)

OneInbox(c) ==
  \A s \in Side : c.kind[s] # "pst" =>
    \A f, g \in c.found[s] : EqualFold(f.name, Inbox) /\ EqualFold(g.name, Inbox) => f = g

\* The attributes folders of a name have, or would get if they were created
UsesOf(c, n) ==
  {u \in Uses \ {None} : \E s \in Side :
     \/ u = UseOf(c.kind[s], NativeOf(c, s, n))
     \/ \E f \in c.found[s] : f.use = u /\ EqualFold(CanonicalOf(c, s, f.name), n)}

Together(c, n, m) == EqualFold(n, m) \/ UsesOf(c, n) \cap UsesOf(c, m) # {}

\* A name has one attribute, no two folders of a side go together, and what goes
\* together on the two sides is matched
Grouped(c) ==
  /\ \A n \in KnownNames(c) : \A u, v \in UsesOf(c, n) : u = v
  /\ \A s \in Side : \A f, g \in c.found[s] :
       Together(c, CanonicalOf(c, s, f.name), CanonicalOf(c, s, g.name))
         => CanonicalOf(c, s, f.name) = CanonicalOf(c, s, g.name)
  /\ \A f \in c.found["a"], g \in c.found["b"] :
       Together(c, CanonicalOf(c, "a", f.name), CanonicalOf(c, "b", g.name))
         => \/ EqualFold(CanonicalOf(c, "a", f.name), CanonicalOf(c, "b", g.name))
            \/ f.use # None /\ f.use = g.use

\* The MkdirAll of a Maildir succeeds for a folder that is there and has a partner
Regular(c) == PlainNames(c) /\ OneInbox(c) /\ ("maildir" \in Range(c.kind) => Grouped(c))

\* Two subfolders that differ only in case, on a server whose separator is not
\* "/": ResolveFolder takes whichever was listed first for both
CaseTwins(s, n, m) ==
  /\ Kind[s] = "imap" /\ Delim[s] # "/" /\ "/" \in Range(n)
  /\ n # m /\ EqualFold(n, m)

\* Two folders of an archive with one name: Select knows the first only
SameName(s, n, m) == Kind[s] = "pst" /\ n = m

(***************************************************************************)
(* No folder is in two pairs of one cycle, on either side, when the names  *)
(* are resolved again by Select: otherwise the mail of two folders would   *)
(* be poured together, or one folder synchronised in place of another.     *)
(* The exceptions are subfolders that differ only in case below a foreign  *)
(* separator, and folders of an archive with one name (matchFolders,       *)
(* pairFolders, ResolveFolder, resolvePSTFolder).                          *)
(***************************************************************************)
PairsDisjoint ==
  pc = "done" =>
    \A p, q \in DOMAIN pairs : p # q =>
      \/ \E s \in Side : SameName(s, pairs[p][s], pairs[q][s])
      \/ \A s \in Side :
           \/ Resolve(s, pairs[p][s]) \cap Resolve(s, pairs[q][s]) = {}
           \/ CaseTwins(s, pairs[p][s], pairs[q][s])

\* Select opens, or may open, another folder for the name of f: a subfolder that
\* differs only in case, or the first of an archive's folders with one name
Shadowed(s, f) ==
  \E g \in exists[s] \ {f} :
    \/ CaseTwins(s, Canonical(s, f.name), Canonical(s, g.name))
    \/ SameName(s, f.name, g.name) /\ g.no < f.no

(***************************************************************************)
(* A cycle in which every folder could be created reaches what it listed:  *)
(* each folder of a side whose peer may be written to has a pair whose     *)
(* name makes Select open that folder and no other, and every name of a    *)
(* pair leads to a folder (README: a folder that exists on only one side   *)
(* is created on the other).  Not reached are the two exceptions Shadowed  *)
(* names: the later folders of an archive with one name, whose mail is     *)
(* never read, and one of two subfolders that differ only in case.         *)
(***************************************************************************)
EverythingPaired ==
  (pc = "done" /\ failed = "no") =>
    /\ \A s \in Side : Peer(s) \in Writable =>
         \A f \in filterFolders(s) :
           Shadowed(s, f) \/ \E p \in DOMAIN pairs : Resolve(s, pairs[p][s]) = {f}
    /\ \A p \in DOMAIN pairs : \A s \in Side : Resolve(s, pairs[p][s]) # {}

(***************************************************************************)
(* Folder names round-trip: once a cycle has created all it wanted, later  *)
(* cycles find everything paired and create nothing, and a side that must  *)
(* not be written to never gets a folder at all.                           *)
(***************************************************************************)
CreatesOnce ==
  [][/\ settled # None => UNCHANGED exists
     /\ \A s \in Side \ Writable : exists'[s] = exists[s]]_vars
=============================================================================
