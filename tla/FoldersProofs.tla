---------------------------- MODULE FoldersProofs ----------------------------
(***************************************************************************)
(* Proofs about Folders, for any setups, any folders and names on both     *)
(* sides, any order of the listings and any number of cycles.              *)
(***************************************************************************)
EXTENDS Folders, TLAPS, FiniteSetTheorems, SequenceTheorems, WellFoundedInduction

-----------------------------------------------------------------------------
(* Names *)

\* A name is the function of its words
LEMMA NameEqual ==
  ASSUME NEW n \in Seq(Word), NEW m \in Seq(Word),
         DOMAIN n = DOMAIN m, \A i \in DOMAIN n : n[i] = m[i]
  PROVE  n = m
<1>1. n = [i \in DOMAIN n |-> n[i]] /\ m = [i \in DOMAIN m |-> m[i]]
  OBVIOUS
<1> QED
  BY <1>1

\* What Replace does, word by word
LEMMA ReplaceIs ==
  ASSUME NEW n \in Seq(Word), NEW o \in Word, NEW w \in Word
  PROVE  /\ Replace(n, o, w) \in Seq(Word)
         /\ DOMAIN Replace(n, o, w) = DOMAIN n
         /\ \A i \in DOMAIN n : Replace(n, o, w)[i] = IF n[i] = o THEN w ELSE n[i]
<1>1. DOMAIN n = 1..Len(n) /\ Len(n) \in Nat /\ \A i \in DOMAIN n : n[i] \in Word
  OBVIOUS
<1>2. Replace(n, o, w) \in [1..Len(n) -> Word]
  BY <1>1 DEF Replace
<1>3. Replace(n, o, w) \in Seq(Word)
  BY <1>1, <1>2, SeqDef
<1>4. \A i \in DOMAIN n : Replace(n, o, w)[i] = IF n[i] = o THEN w ELSE n[i]
  BY DEF Replace
<1> QED
  BY <1>3, <1>4 DEF Replace

\* Separators have no case
LEMMA FoldSeparator ==
  ASSUME NEW w, NEW d \in {"/", "."}
  PROVE  FoldWord(w) = d <=> w = d
  BY DEF FoldWord

\* EqualFold, word by word
LEMMA FoldIs ==
  ASSUME NEW n \in Seq(Word), NEW m \in Seq(Word)
  PROVE  EqualFold(n, m) <=> /\ DOMAIN n = DOMAIN m
                             /\ \A i \in DOMAIN n : FoldWord(n[i]) = FoldWord(m[i])
<1>1. ASSUME EqualFold(n, m)
      PROVE  DOMAIN n = DOMAIN m /\ \A i \in DOMAIN n : FoldWord(n[i]) = FoldWord(m[i])
  <2>1. DOMAIN n = DOMAIN FoldName(n) /\ DOMAIN m = DOMAIN FoldName(m)
    BY DEF FoldName
  <2>2. \A i \in DOMAIN n : FoldName(n)[i] = FoldWord(n[i])
    BY DEF FoldName
  <2>3. \A i \in DOMAIN m : FoldName(m)[i] = FoldWord(m[i])
    BY DEF FoldName
  <2> QED
    BY <1>1, <2>1, <2>2, <2>3 DEF EqualFold
<1>2. ASSUME DOMAIN n = DOMAIN m, \A i \in DOMAIN n : FoldWord(n[i]) = FoldWord(m[i])
      PROVE  EqualFold(n, m)
  BY <1>2 DEF EqualFold, FoldName
<1> QED
  BY <1>1, <1>2

\* Inbox is the canonical name of an INBOX
LEMMA InboxItself ==
  /\ Inbox \in Seq(Word) /\ DOMAIN Inbox = {1} /\ Inbox[1] = "INBOX"
  /\ EqualFold(Inbox, Inbox)
<1>1. "INBOX" \in Word
  BY FoldersAssumption
<1>2. Inbox \in Seq(Word) /\ Len(Inbox) = 1 /\ Inbox[1] = "INBOX"
  BY <1>1 DEF Inbox
<1>3. DOMAIN Inbox = {1}
  BY <1>2
<1> QED
  BY <1>2, <1>3 DEF EqualFold

\* The INBOX is one word
LEMMA InboxIs ==
  ASSUME NEW n \in Seq(Word)
  PROVE  /\ EqualFold(n, Inbox) <=> DOMAIN n = {1} /\ FoldWord(n[1]) = "INBOX"
         /\ EqualFold(n, Inbox) => "/" \notin Range(n) /\ "." \notin Range(n)
<1>1. Inbox \in Seq(Word) /\ DOMAIN Inbox = {1} /\ Inbox[1] = "INBOX"
  BY InboxItself
<1>2. FoldWord("INBOX") = "INBOX"
  BY DEF FoldWord
<1>3. EqualFold(n, Inbox) <=> DOMAIN n = {1} /\ FoldWord(n[1]) = "INBOX"
  BY <1>1, <1>2, FoldIs
<1>4. ASSUME EqualFold(n, Inbox) PROVE "/" \notin Range(n) /\ "." \notin Range(n)
  <2>1. DOMAIN n = {1} /\ FoldWord(n[1]) = "INBOX"
    BY <1>3, <1>4
  <2>2. n[1] \in Word
    BY <2>1
  <2>3. n[1] # "/" /\ n[1] # "."
    BY <2>1, <2>2, FoldSeparator
  <2> QED
    BY <2>1, <2>3 DEF Range
<1> QED
  BY <1>3, <1>4

\* A change of separators makes no INBOX and no other name of one
LEMMA ReplaceInbox ==
  ASSUME NEW n \in Seq(Word), NEW o \in {"/", "."}, NEW w \in {"/", "."}
  PROVE  EqualFold(Replace(n, o, w), Inbox) <=> EqualFold(n, Inbox)
<1> DEFINE r == Replace(n, o, w)
<1>0. o \in Word /\ w \in Word
  BY FoldersAssumption
<1>1. r \in Seq(Word) /\ DOMAIN r = DOMAIN n
      /\ \A i \in DOMAIN n : r[i] = IF n[i] = o THEN w ELSE n[i]
  BY <1>0, ReplaceIs
<1>2. \A i \in DOMAIN n : n[i] \in Word /\ r[i] \in Word
  BY <1>1
<1>3. \A i \in DOMAIN n : FoldWord(r[i]) = "INBOX" <=> FoldWord(n[i]) = "INBOX"
  <2> TAKE i \in DOMAIN n
  <2>1. CASE n[i] = o
    <3>1. r[i] = w
      BY <1>1, <2>1
    <3>2. FoldWord(r[i]) = w /\ FoldWord(n[i]) = o
      BY <1>2, <2>1, <3>1, FoldSeparator
    <3> QED
      BY <3>2
  <2>2. CASE n[i] # o
    BY <1>1, <2>2
  <2> QED
    BY <2>1, <2>2
<1> HIDE DEF r
<1> QED
  BY <1>1, <1>3, InboxIs DEF r

\* Names that differ only in case do so after a change of separators, and before if
\* the new separator is no character of them
LEMMA ReplaceFold ==
  ASSUME NEW n \in Seq(Word), NEW m \in Seq(Word), NEW o \in {"/", "."}, NEW w \in {"/", "."}
  PROVE  /\ EqualFold(n, m) => EqualFold(Replace(n, o, w), Replace(m, o, w))
         /\ (o = w \/ (w \notin Range(n) /\ w \notin Range(m)))
              => /\ EqualFold(Replace(n, o, w), Replace(m, o, w)) => EqualFold(n, m)
                 /\ Replace(n, o, w) = Replace(m, o, w) => n = m
<1> DEFINE r == Replace(n, o, w)
           q == Replace(m, o, w)
<1>0. o \in Word /\ w \in Word
  BY FoldersAssumption
<1>1. r \in Seq(Word) /\ DOMAIN r = DOMAIN n
      /\ \A i \in DOMAIN n : r[i] = IF n[i] = o THEN w ELSE n[i]
  BY <1>0, ReplaceIs, SMTT(30)
<1>2. q \in Seq(Word) /\ DOMAIN q = DOMAIN m
      /\ \A i \in DOMAIN m : q[i] = IF m[i] = o THEN w ELSE m[i]
  BY <1>0, ReplaceIs, SMTT(30)
<1>3. /\ \A i \in DOMAIN n : n[i] \in Word /\ (w \notin Range(n) => n[i] # w)
      /\ \A i \in DOMAIN m : m[i] \in Word /\ (w \notin Range(m) => m[i] # w)
  BY DEF Range
<1>4. \A x : (FoldWord(x) = o <=> x = o) /\ (FoldWord(x) = w <=> x = w)
  BY FoldSeparator
<1> HIDE DEF r, q
<1>5. EqualFold(n, m) => EqualFold(r, q)
  <2> SUFFICES ASSUME EqualFold(n, m) PROVE EqualFold(r, q)
    OBVIOUS
  <2>1. DOMAIN n = DOMAIN m /\ \A i \in DOMAIN n : FoldWord(n[i]) = FoldWord(m[i])
    BY FoldIs
  <2>2. \A i \in DOMAIN r : FoldWord(r[i]) = FoldWord(q[i])
    BY <1>1, <1>2, <1>3, <1>4, <2>1
  <2> QED
    BY <1>1, <1>2, <2>1, <2>2, FoldIs
<1>6. ASSUME o = w \/ (w \notin Range(n) /\ w \notin Range(m)), EqualFold(r, q)
      PROVE  EqualFold(n, m)
  <2>1. DOMAIN r = DOMAIN q /\ \A i \in DOMAIN r : FoldWord(r[i]) = FoldWord(q[i])
    BY <1>1, <1>2, <1>6, FoldIs
  <2>2. ASSUME NEW i \in DOMAIN n PROVE FoldWord(n[i]) = FoldWord(m[i])
    <3>1. FoldWord(r[i]) = FoldWord(q[i]) /\ i \in DOMAIN m
      BY <1>1, <1>2, <2>1
    <3>2. QED
      <4>1. CASE n[i] = o
        BY <1>1, <1>2, <1>3, <1>4, <1>6, <3>1, <4>1
      <4>2. CASE n[i] # o
        BY <1>1, <1>2, <1>3, <1>4, <1>6, <3>1, <4>2
      <4> QED
        BY <4>1, <4>2
  <2> QED
    BY <1>1, <1>2, <2>1, <2>2, FoldIs
<1>7. ASSUME o = w \/ (w \notin Range(n) /\ w \notin Range(m)), r = q
      PROVE  n = m
  <2>1. DOMAIN n = DOMAIN m
    BY <1>1, <1>2, <1>7
  <2>2. \A i \in DOMAIN n : n[i] = m[i]
    BY <1>1, <1>2, <1>3, <1>7
  <2> QED
    BY <2>1, <2>2, NameEqual
<1> QED
  BY <1>5, <1>6, <1>7 DEF r, q

\* There and back
LEMMA ReplaceBack ==
  ASSUME NEW n \in Seq(Word), NEW o \in {"/", "."}, NEW w \in {"/", "."},
         o = w \/ w \notin Range(n)
  PROVE  Replace(Replace(n, o, w), w, o) = n
<1> DEFINE r == Replace(n, o, w)
           q == Replace(r, w, o)
<1>0. o \in Word /\ w \in Word
  BY FoldersAssumption
<1>1. r \in Seq(Word) /\ DOMAIN r = DOMAIN n
      /\ \A i \in DOMAIN n : r[i] = IF n[i] = o THEN w ELSE n[i]
  BY <1>0, ReplaceIs
<1> HIDE DEF r
<1>2. q \in Seq(Word) /\ DOMAIN q = DOMAIN r
      /\ \A i \in DOMAIN r : q[i] = IF r[i] = w THEN o ELSE r[i]
  BY <1>0, <1>1, ReplaceIs
<1> HIDE DEF q
<1>3. \A i \in DOMAIN n : w \notin Range(n) => n[i] # w
  BY DEF Range
<1>4. \A i \in DOMAIN q : q[i] = n[i]
  BY <1>1, <1>2, <1>3
<1> QED
  BY <1>1, <1>2, <1>4, NameEqual DEF r, q

\* No separator is left of the old kind; without one nothing changes
LEMMA ReplaceGone ==
  ASSUME NEW n \in Seq(Word), NEW o \in {"/", "."}, NEW w \in {"/", "."}
  PROVE  /\ o # w => o \notin Range(Replace(n, o, w))
         /\ o = w \/ o \notin Range(n) => Replace(n, o, w) = n
<1>0. o \in Word /\ w \in Word
  BY FoldersAssumption
<1>1. Replace(n, o, w) \in Seq(Word) /\ DOMAIN Replace(n, o, w) = DOMAIN n
      /\ \A i \in DOMAIN n : Replace(n, o, w)[i] = IF n[i] = o THEN w ELSE n[i]
  BY <1>0, ReplaceIs
<1>2. o # w => o \notin Range(Replace(n, o, w))
  BY <1>1 DEF Range
<1>3. ASSUME o = w \/ o \notin Range(n) PROVE Replace(n, o, w) = n
  <2>1. \A i \in DOMAIN n : Replace(n, o, w)[i] = n[i]
    BY <1>1, <1>3 DEF Range
  <2> QED
    BY <1>1, <2>1, NameEqual
<1> QED
  BY <1>2, <1>3

-----------------------------------------------------------------------------
(* Names in a setup *)

\* The separator and the kind of a side
LEMMA SetupIs ==
  ASSUME NEW c \in Setups, NEW s \in Side
  PROVE  /\ c.kind[s] \in {"imap", "maildir", "pst"} /\ c.delim[s] \in {"/", "."}
         /\ c.kind[s] = "maildir" => c.delim[s] = "."
         /\ c.kind[s] = "pst" => c.delim[s] = "/"
         /\ Peer(s) \in Side /\ Peer(Peer(s)) = s /\ Peer(s) # s
         /\ \A f \in c.found[s] : f.name \in Seq(Word)
  BY FoldersAssumption DEF Side, Peer

\* What the canonical and the native form of a name are
LEMMA CanonicalIs ==
  ASSUME NEW c \in Setups, NEW s \in Side, NEW n \in Seq(Word)
  PROVE  /\ CanonicalOf(c, s, n) \in Seq(Word) /\ NativeOf(c, s, n) \in Seq(Word)
         /\ EqualFold(CanonicalOf(c, s, n), Inbox) <=> EqualFold(n, Inbox)
         /\ EqualFold(NativeOf(c, s, n), Inbox) <=> EqualFold(n, Inbox)
         /\ c.kind[s] = "pst" => CanonicalOf(c, s, n) = n /\ NativeOf(c, s, n) = n
         /\ c.kind[s] # "pst" /\ EqualFold(n, Inbox) => CanonicalOf(c, s, n) = Inbox
         /\ ~EqualFold(n, Inbox) => CanonicalOf(c, s, n) = Replace(n, c.delim[s], "/")
<1>1. c.kind[s] \in {"imap", "maildir", "pst"} /\ c.delim[s] \in {"/", "."}
      /\ (c.kind[s] = "pst" => c.delim[s] = "/")
  BY SetupIs
<1>2. "/" \in Word /\ c.delim[s] \in Word
  BY <1>1, FoldersAssumption
<1>3. NativeOf(c, s, n) \in Seq(Word) /\ Replace(n, c.delim[s], "/") \in Seq(Word)
  BY <1>2, ReplaceIs DEF NativeOf
<1>4. /\ EqualFold(NativeOf(c, s, n), Inbox) <=> EqualFold(n, Inbox)
      /\ EqualFold(Replace(n, c.delim[s], "/"), Inbox) <=> EqualFold(n, Inbox)
  BY <1>1, ReplaceInbox DEF NativeOf
<1>5. c.kind[s] = "pst" => NativeOf(c, s, n) = n /\ Replace(n, c.delim[s], "/") = n
  BY <1>1, ReplaceGone DEF NativeOf
<1>6. CASE c.kind[s] = "pst"
  <2>1. CanonicalOf(c, s, n) = n
    BY <1>5, <1>6 DEF CanonicalOf
  <2> QED
    BY <1>3, <1>4, <1>5, <1>6, <2>1
<1>7. CASE c.kind[s] # "pst" /\ EqualFold(n, Inbox)
  <2>1. CanonicalOf(c, s, n) = Inbox
    BY <1>7 DEF CanonicalOf
  <2> QED
    BY <1>3, <1>4, <1>7, <2>1, InboxItself
<1>8. CASE c.kind[s] # "pst" /\ ~EqualFold(n, Inbox)
  <2>1. CanonicalOf(c, s, n) = Replace(n, c.delim[s], "/")
    BY <1>8 DEF CanonicalOf
  <2> QED
    BY <1>3, <1>4, <1>8, <2>1
<1> QED
  BY <1>6, <1>7, <1>8

\* A name of a server survives the way to its canonical form and back, a canonical one
\* the way to the server and back, but for the case of the INBOX
LEMMA NativeCanonical ==
  ASSUME NEW c \in Setups, NEW s \in Side, NEW n \in Seq(Word),
         c.delim[s] = "." => "/" \notin Range(n),
         c.kind[s] = "pst" \/ ~EqualFold(n, Inbox)
  PROVE  NativeOf(c, s, CanonicalOf(c, s, n)) = n
<1>1. c.delim[s] \in {"/", "."} /\ "/" \in {"/", "."}
  BY SetupIs
<1>2. CASE c.kind[s] = "pst"
  BY <1>2, CanonicalIs
<1>3. CASE ~EqualFold(n, Inbox)
  <2>1. CanonicalOf(c, s, n) = Replace(n, c.delim[s], "/")
    BY <1>3, CanonicalIs
  <2>2. c.delim[s] = "/" \/ "/" \notin Range(n)
    BY <1>1
  <2>3. Replace(Replace(n, c.delim[s], "/"), "/", c.delim[s]) = n
    BY <1>1, <2>2, ReplaceBack
  <2> QED
    BY <2>1, <2>3 DEF NativeOf
<1> QED
  BY <1>2, <1>3

\* A name in the server's terms is listed as the name it was made from
LEMMA CanonicalNative ==
  ASSUME NEW c \in Setups, NEW s \in Side, NEW n \in Seq(Word),
         c.delim[s] = "." => "." \notin Range(n),
         c.kind[s] = "pst" \/ ~EqualFold(n, Inbox)
  PROVE  CanonicalOf(c, s, NativeOf(c, s, n)) = n
<1>1. c.delim[s] \in {"/", "."} /\ "/" \in {"/", "."} /\ NativeOf(c, s, n) \in Seq(Word)
  BY SetupIs, CanonicalIs
<1>2. CASE c.kind[s] = "pst"
  BY <1>2, CanonicalIs
<1>3. CASE ~EqualFold(n, Inbox)
  <2>1. CanonicalOf(c, s, NativeOf(c, s, n)) = Replace(NativeOf(c, s, n), c.delim[s], "/")
    BY <1>1, <1>3, CanonicalIs
  <2>2. "/" = c.delim[s] \/ c.delim[s] \notin Range(n)
    BY <1>1
  <2>3. Replace(Replace(n, "/", c.delim[s]), c.delim[s], "/") = n
    BY <1>1, <2>2, ReplaceBack
  <2> QED
    BY <2>1, <2>3 DEF NativeOf
<1> QED
  BY <1>2, <1>3

\* The native forms of names without the separator of a side are told apart by case as
\* the names are
LEMMA NativeFold ==
  ASSUME NEW c \in Setups, NEW s \in Side, NEW n \in Seq(Word), NEW m \in Seq(Word)
  PROVE  /\ EqualFold(n, m) => EqualFold(NativeOf(c, s, n), NativeOf(c, s, m))
         /\ (c.delim[s] = "." => "." \notin Range(n) /\ "." \notin Range(m))
              => /\ EqualFold(NativeOf(c, s, n), NativeOf(c, s, m)) => EqualFold(n, m)
                 /\ NativeOf(c, s, n) = NativeOf(c, s, m) => n = m
<1>1. c.delim[s] \in {"/", "."} /\ "/" \in {"/", "."}
  BY SetupIs
<1> QED
  BY <1>1, ReplaceFold DEF NativeOf

\* The separator of a side is in no name a pair may have
LEMMA KnownIs ==
  ASSUME NEW c \in Setups, NEW n \in KnownNames(c)
  PROVE  /\ n \in Seq(Word)
         /\ PlainNames(c) => \A s \in Side : c.delim[s] = "." => "." \notin Range(n)
<1>1. PICK t \in Side : \E f \in c.found[t] : n = CanonicalOf(c, t, f.name)
  BY DEF KnownNames, Side
<1>2. PICK f \in c.found[t] : n = CanonicalOf(c, t, f.name)
  BY <1>1
<1>3. f.name \in Seq(Word) /\ c.delim[t] \in {"/", "."}
  BY SetupIs
<1>4. n \in Seq(Word)
  BY <1>2, <1>3, CanonicalIs
<1>5. ASSUME PlainNames(c), NEW s \in Side, c.delim[s] = "." PROVE "." \notin Range(n)
  <2>1. CASE EqualFold(n, Inbox)
    BY <1>4, <2>1, InboxIs
  <2>2. CASE ~EqualFold(n, Inbox) /\ c.delim[t] = "."
    <3>1. n = Replace(f.name, ".", "/")
      BY <1>2, <1>3, <2>2, CanonicalIs
    <3> QED
      BY <1>3, <3>1, ReplaceGone
  <2>3. CASE ~EqualFold(n, Inbox) /\ c.delim[t] = "/"
    <3>1. s = Peer(t)
      BY <1>5, <2>3 DEF Side, Peer
    <3>2. "." \notin Range(f.name)
      BY <1>5, <2>3, <3>1 DEF PlainNames
    <3>3. n = Replace(f.name, "/", "/")
      BY <1>2, <1>3, <2>3, CanonicalIs
    <3> QED
      BY <1>3, <3>2, <3>3, ReplaceGone
  <2> QED
    BY <1>3, <2>1, <2>2, <2>3
<1> QED
  BY <1>4, <1>5

\* The attributes of names that differ only in case are the same
LEMMA UsesFold ==
  ASSUME NEW c \in Setups, NEW n \in Seq(Word), NEW m \in Seq(Word), EqualFold(n, m)
  PROVE  UsesOf(c, n) = UsesOf(c, m)
<1>1. \A s \in Side : FoldName(NativeOf(c, s, n)) = FoldName(NativeOf(c, s, m))
  BY NativeFold DEF EqualFold
<1>2. \A s \in Side : UseOf(c.kind[s], NativeOf(c, s, n)) = UseOf(c.kind[s], NativeOf(c, s, m))
  BY <1>1 DEF UseOf, maildirSpecialUseOf, pstSpecialUseOf, EqualFold
<1> QED
  BY <1>2 DEF UsesOf, EqualFold

\* With one attribute to a name, going together is an equivalence
LEMMA TogetherOnce ==
  ASSUME NEW c \in Setups, NEW n \in KnownNames(c), NEW m \in KnownNames(c), NEW k \in KnownNames(c),
         \A x \in KnownNames(c) : \A u, v \in UsesOf(c, x) : u = v
  PROVE  /\ Together(c, n, n)
         /\ Together(c, n, m) => Together(c, m, n)
         /\ Together(c, n, m) /\ Together(c, m, k) => Together(c, n, k)
<1>1. n \in Seq(Word) /\ m \in Seq(Word) /\ k \in Seq(Word)
  BY KnownIs
<1>2. /\ EqualFold(n, m) => UsesOf(c, n) = UsesOf(c, m)
      /\ EqualFold(m, k) => UsesOf(c, m) = UsesOf(c, k)
  BY <1>1, UsesFold
<1>3. \A u, v \in UsesOf(c, m) : u = v
  OBVIOUS
<1>4. EqualFold(n, n) /\ (EqualFold(n, m) => EqualFold(m, n))
      /\ (EqualFold(n, m) /\ EqualFold(m, k) => EqualFold(n, k))
  BY DEF EqualFold
<1> QED
  BY <1>2, <1>3, <1>4 DEF Together

-----------------------------------------------------------------------------
(***************************************************************************)
(* The invariants.  First the types, as the proofs need them.              *)
(***************************************************************************)
\* Folders and entries of listings
Folder == [name : Seq(Word), use : Uses, sel : {"yes", "no"}, no : Nat]
Entry == [name : Seq(Word), use : Uses, native : Seq(Word), no : Nat]
Pair == [a : Seq(Word), b : Seq(Word), from : [a : Nat, b : Nat]]

Matched(s) == IF s = "a" THEN matchedA ELSE usedB

Types ==
  /\ setup \in Setups
  /\ exists \in [Side -> SUBSET Folder] /\ \A s \in Side : IsFiniteSet(exists[s])
  /\ pc \in {"idle", "use", "name", "b", "a", "done"}
  /\ list \in [Side -> Seq(Entry)]
  /\ pos \in Nat
  /\ pc \in {"use", "name", "b"} => pos <= Len(list["a"])
  /\ pc \in {"a", "done"} => pos <= Len(list["b"])
  /\ pc = "idle" => pos = 0
  /\ matchedA \subseteq DOMAIN list["a"] /\ usedB \subseteq DOMAIN list["b"]
  /\ pairs \in Seq(Pair)
  /\ passes \in 0..MaxPasses /\ failed \in {"no", "yes"}

(***************************************************************************)
(* The folders that exist: those of a side are told apart by name and      *)
(* number, there is one INBOX, and every name is one the other side can    *)
(* be given.                                                               *)
(***************************************************************************)
Distinct ==
  \A s \in Side : \A f, g \in exists[s] : f.name = g.name /\ f.no = g.no => f = g

Servers ==
  \A s \in Side :
    /\ Kind[s] = "pst" => exists[s] \subseteq Found[s]
    /\ Kind[s] # "pst" =>
         /\ \A f \in exists[s] : f.no = 0
         /\ \A f, g \in exists[s] : EqualFold(f.name, Inbox) /\ EqualFold(g.name, Inbox) => f = g
         /\ \E f \in exists[s] : EqualFold(f.name, Inbox)

Spelled ==
  \A s \in Side : \A f \in exists[s] :
    /\ Canonical(s, f.name) \in KnownNames(setup)
    /\ f.name \in ServerNames(setup, s)
    /\ Delim[s] = "." => "/" \notin Range(f.name)

(***************************************************************************)
(* The listings: each shows every folder of its side once, but for those   *)
(* this cycle has created.                                                 *)
(***************************************************************************)
Listed ==
  \A s \in Side : \A k \in DOMAIN list[s] :
    /\ \E f \in filterFolders(s) : list[s][k] = Info(s, f)
    /\ \A l \in DOMAIN list[s] : list[s][k] = list[s][l] => k = l

Covered ==
  pc # "idle" => \A s \in Side : \A f \in filterFolders(s) :
    \/ \E k \in DOMAIN list[s] : list[s][k] = Info(s, f)
    \/ \E p \in DOMAIN pairs : /\ pairs[p].from[s] = 0
                               /\ f.name = Native(s, pairs[p][s])
                               /\ ~EqualFold(pairs[p][s], Inbox)

(***************************************************************************)
(* The pairs: a pair comes from a match of two listed folders or from the  *)
(* creation of one that is listed on the other side without a partner; no  *)
(* listed folder is in two pairs, and every matched one is in one.         *)
(***************************************************************************)
SameUse(f, g) == f.use # None /\ f.use = g.use
Alike(f, g) == EqualFold(f.name, g.name) \/ SameUse(f, g)

MatchedPair(p) ==
  LET i == pairs[p].from["a"]
      j == pairs[p].from["b"]
  IN /\ i \in matchedA /\ j \in usedB
     /\ pairs[p]["a"] = list["a"][i].name /\ pairs[p]["b"] = list["b"][j].name
     /\ Alike(list["a"][i], list["b"][j])

CreatedPair(p, s) ==
  LET k == pairs[p].from[Peer(s)]
      n == list[Peer(s)][k].name
  IN /\ Kind[s] # "pst"
     /\ pairs[p].from[s] = 0
     /\ k \in DOMAIN list[Peer(s)] \ Matched(Peer(s))
     /\ pairs[p]["a"] = n /\ pairs[p]["b"] = n
     /\ \/ \E f \in exists[s] : f.name = Native(s, n)
        \/ Kind[s] = "maildir" /\ EqualFold(n, Inbox)
     /\ Kind[s] = "imap" => /\ ~EqualFold(n, Inbox)
                            /\ \A j \in DOMAIN list[s] : list[s][j].native # Native(s, n)

Origins ==
  /\ \A p \in DOMAIN pairs : MatchedPair(p) \/ \E s \in Side : CreatedPair(p, s)
  /\ pc \in {"use", "name"} => \A p \in DOMAIN pairs : MatchedPair(p)
  /\ pc = "b" => \A p \in DOMAIN pairs :
       /\ pairs[p].from["a"] # 0
       /\ pairs[p].from["b"] = 0 => pairs[p].from["a"] <= pos
  /\ pc = "a" => \A p \in DOMAIN pairs : pairs[p].from["a"] = 0 => pairs[p].from["b"] <= pos

Once ==
  \A s \in Side : \A p, q \in DOMAIN pairs :
    p # q /\ pairs[p].from[s] = pairs[q].from[s] => pairs[p].from[s] = 0

Kept == \A s \in Side : \A k \in Matched(s) : \E p \in DOMAIN pairs : pairs[p].from[s] = k

(***************************************************************************)
(* The loops: what they leave over does not match.                         *)
(***************************************************************************)
Unlike ==
  \A i \in DOMAIN list["a"] \ matchedA, j \in DOMAIN list["b"] \ usedB :
    /\ pc # "use" \/ i <= pos => ~SameUse(list["a"][i], list["b"][j])
    /\ pc \in {"b", "a", "done"} \/ (pc = "name" /\ i <= pos)
         => ~EqualFold(list["a"][i].name, list["b"][j].name)

\* The entries of the other side that have been treated in creating folders on side s
Treated(s) ==
  {k \in DOMAIN list[Peer(s)] : \/ pc = "done" \/ (s = "b" /\ pc = "a")
                                \/ pc = s /\ k <= pos}

NoneLeft ==
  failed = "no" => \A s \in Writable : \A k \in Treated(s) \ Matched(Peer(s)) :
    \E p \in DOMAIN pairs : pairs[p].from[Peer(s)] = k

(***************************************************************************)
(* Where folders are grouped: which of them go together.  A folder of an   *)
(* archive may be there twice, and its second copy be created next to the  *)
(* folder that the first one is matched with: then there is only Kin.      *)
(***************************************************************************)
UsesKnown ==
  \A s \in Side : \A f \in exists[s] : f.use # None => f.use \in UsesOf(setup, Canonical(s, f.name))

Lone(s) ==
  \A f, g \in filterFolders(s) :
    Together(setup, Canonical(s, f.name), Canonical(s, g.name))
      => Canonical(s, f.name) = Canonical(s, g.name)

Across ==
  \A f \in filterFolders("a"), g \in filterFolders("b") :
    Together(setup, Canonical("a", f.name), Canonical("b", g.name))
      => EqualFold(Canonical("a", f.name), Canonical("b", g.name)) \/ SameUse(f, g)

Kin(s) ==
  \A f, g \in filterFolders(s) :
    Together(setup, Canonical(s, f.name), Canonical(s, g.name))
      => \/ Canonical(s, f.name) = Canonical(s, g.name)
         \/ \E e \in filterFolders(Peer(s)) :
              Canonical(Peer(s), e.name) \in {Canonical(s, f.name), Canonical(s, g.name)}

Groups ==
  Grouped(setup) =>
    /\ UsesKnown /\ Across
    /\ \A s \in Side : Kin(s) /\ (Kind[Peer(s)] # "pst" => Lone(s))

-----------------------------------------------------------------------------
(* Resolving a name *)

\* A non-empty set of numbers has a least element
LEMMA LeastExists ==
  ASSUME NEW S \in SUBSET Nat, S # {}
  PROVE  \E n \in S : \A m \in S : n <= m
<1>1. PICK n \in S : \A m \in S : ~(<<m, n>> \in OpToRel(<, Nat))
  BY NatLessThanWellFounded, WFMin
<1>2. \A m \in S : ~(m < n)
  BY <1>1 DEF OpToRel
<1> QED
  BY <1>2

\* A folder the name n leads to: one of exactly that name, or the INBOX
Exact(s, n) == \/ Kind[s] # "pst" /\ EqualFold(n, Inbox)
               \/ \E f \in exists[s] : f.name = Native(s, n)

\* A name without the canonical separator is the same in the server's terms
LEMMA NativeSame ==
  ASSUME NEW c \in Setups, NEW s \in Side, NEW n \in Seq(Word), c.delim[s] = "/" \/ "/" \notin Range(n)
  PROVE  NativeOf(c, s, n) = n
<1>1. c.delim[s] \in {"/", "."} /\ "/" \in {"/", "."}
  BY SetupIs
<1> QED
  BY <1>1, ReplaceGone DEF NativeOf

\* Names that differ only in case have the same separators
LEMMA RangeFold ==
  ASSUME NEW n \in Seq(Word), NEW m \in Seq(Word), EqualFold(n, m), "/" \in Range(n)
  PROVE  "/" \in Range(m)
<1>1. DOMAIN n = DOMAIN m /\ \A i \in DOMAIN n : FoldWord(n[i]) = FoldWord(m[i])
  BY FoldIs
<1>2. PICK i \in DOMAIN n : n[i] = "/"
  BY DEF Range
<1>3. FoldWord(n[i]) = "/"
  BY <1>2, FoldSeparator
<1>4. m[i] = "/"
  BY <1>1, <1>3, FoldSeparator
<1> QED
  BY <1>1, <1>4 DEF Range

\* What the types say of the current setup
LEMMA CurrentSetup ==
  ASSUME Types, NEW s \in Side
  PROVE  /\ setup \in Setups
         /\ Kind[s] \in {"imap", "maildir", "pst"} /\ Delim[s] \in {"/", "."}
         /\ Kind[s] = "maildir" => Delim[s] = "."
         /\ Kind[s] = "pst" => Delim[s] = "/"
         /\ Peer(s) \in Side /\ Peer(Peer(s)) = s /\ Peer(s) # s
         /\ \A f \in exists[s] : f.name \in Seq(Word)
<1>1. setup \in Setups /\ \A f \in exists[s] : f.name \in Seq(Word)
  BY DEF Types, Folder
<1> QED
  BY <1>1, SetupIs DEF Kind, Delim

\* Of the folders with a name there is a first
LEMMA FirstExists ==
  ASSUME Types, NEW s \in Side, NEW n, NEW h \in Named(s, n)
  PROVE  \E f \in Named(s, n) : \A g \in Named(s, n) : f.no <= g.no
<1> DEFINE S == {f.no : f \in Named(s, n)}
<1>1. \A f \in Named(s, n) : f.no \in Nat
  BY DEF Types, Named, Folder
<1>2. S \in SUBSET Nat /\ S # {}
  BY <1>1
<1>3. PICK k \in S : \A l \in S : k <= l
  BY <1>2, LeastExists
<1>4. PICK f \in Named(s, n) : f.no = k
  BY <1>3
<1> QED
  BY <1>3, <1>4

\* A name leads somewhere if there is a folder it stands for
LEMMA ResolveFinds ==
  ASSUME Types, Servers, Spelled, NEW s \in Side, NEW f \in exists[s], NEW n \in Seq(Word),
         \/ f.name = Native(s, n)
         \/ Kind[s] # "pst" /\ EqualFold(n, Inbox) /\ EqualFold(f.name, Inbox)
  PROVE  Resolve(s, n) # {}
<1>1. /\ setup \in Setups /\ Kind[s] \in {"imap", "maildir", "pst"} /\ Delim[s] \in {"/", "."}
      /\ Kind[s] = "pst" => Delim[s] = "/"
      /\ f.name \in Seq(Word)
  BY CurrentSetup
<1>2. CASE Kind[s] # "pst" /\ EqualFold(n, Inbox)
  <2>1. EqualFold(f.name, Inbox)
    BY <1>1, <1>2, CanonicalIs DEF Native
  <2>2. EqualFold(f.name, n)
    BY <1>2, <2>1 DEF EqualFold
  <2>3. f \in NamedFold(s, n) /\ f \in NamedFold(s, Inbox)
    BY <2>1, <2>2 DEF NamedFold
  <2>4. Named(s, n) \subseteq {f}
    <3>1. \A g \in exists[s] : EqualFold(g.name, Inbox) => g = f
      BY <1>2, <2>1 DEF Servers
    <3> QED
      BY <1>2, <3>1 DEF Named
  <2>5. "/" \notin Range(n)
    BY <1>2, InboxIs
  <2>6. f \in ResolveFolder(s, n)
    BY <2>3, <2>4, <2>5 DEF ResolveFolder, FirstFound
  <2>7. f \in folderPath(s, n)
    BY <1>2, <2>3 DEF folderPath
  <2> QED
    BY <1>1, <1>2, <2>6, <2>7 DEF Resolve
<1>3. CASE f.name = Native(s, n) /\ (Kind[s] = "pst" \/ ~EqualFold(n, Inbox))
  <2>1. f \in Named(s, Native(s, n)) /\ f \in NamedFold(s, Native(s, n))
    BY <1>3 DEF Named, NamedFold, EqualFold
  <2>2. CASE Kind[s] = "imap" /\ Delim[s] = "." /\ "/" \in Range(n)
    <3>1. Named(s, n) = {}
      BY <2>2 DEF Named, Spelled
    <3>2. f \in ResolveFolder(s, n)
      BY <2>1, <2>2, <3>1 DEF ResolveFolder, FirstFound
    <3> QED
      BY <2>2, <3>2 DEF Resolve
  <2>3. CASE Kind[s] = "imap" /\ (Delim[s] = "/" \/ "/" \notin Range(n))
    <3>1. Native(s, n) = n
      BY <1>1, <2>3, NativeSame DEF Native, Delim
    <3>2. f \in ResolveFolder(s, n)
      BY <2>1, <3>1 DEF ResolveFolder, FirstFound
    <3> QED
      BY <2>3, <3>2 DEF Resolve
  <2>4. CASE Kind[s] = "maildir"
    <3>1. f \in folderPath(s, n)
      BY <1>3, <2>1, <2>4 DEF folderPath, FirstFound
    <3> QED
      BY <2>4, <3>1 DEF Resolve
  <2>5. CASE Kind[s] = "pst"
    <3>1. Native(s, n) = n
      BY <1>1, <2>5, NativeSame DEF Native, Delim
    <3>2. \E g \in Named(s, n) : \A h \in Named(s, n) : g.no <= h.no
      BY <2>1, <3>1, FirstExists
    <3>3. resolvePSTFolder(s, n) # {}
      BY <3>2 DEF resolvePSTFolder, FirstFound
    <3> QED
      BY <2>5, <3>3 DEF Resolve
  <2> QED
    BY <1>1, <2>2, <2>3, <2>4, <2>5
<1> QED
  BY <1>2, <1>3

\* A name leads to folders of that name or of another case of it; of another case only
\* if there is none of that name, or below the separator of a server
LEMMA ResolveFound ==
  ASSUME Types, Spelled, NEW s \in Side, NEW n \in Seq(Word), NEW g \in Resolve(s, n)
  PROVE  /\ g \in exists[s] /\ EqualFold(g.name, Native(s, n))
         /\ \/ Kind[s] # "pst" /\ EqualFold(n, Inbox)
            \/ Kind[s] = "imap" /\ Delim[s] # "/" /\ "/" \in Range(n)
            \/ (\E f \in exists[s] : f.name = Native(s, n)) => g.name = Native(s, n)
         /\ Kind[s] = "pst" =>
              \A f \in exists[s] : f.name = Native(s, n) => g.name = f.name /\ g.no <= f.no
<1>1. /\ setup \in Setups /\ Kind[s] \in {"imap", "maildir", "pst"} /\ Delim[s] \in {"/", "."}
      /\ Kind[s] = "pst" => Delim[s] = "/"
      /\ \A f \in exists[s] : f.name \in Seq(Word)
  BY CurrentSetup
<1>2. CASE Kind[s] = "imap" /\ Delim[s] = "." /\ "/" \in Range(n)
  <2>1. Named(s, n) = {}
    BY <1>2 DEF Named, Spelled
  <2>2. NamedFold(s, n) = {}
    <3> SUFFICES ASSUME NEW f \in exists[s], EqualFold(f.name, n) PROVE FALSE
      BY DEF NamedFold
    <3>1. "/" \in Range(f.name)
      BY <1>1, <1>2, RangeFold DEF EqualFold
    <3> QED
      BY <1>2, <3>1 DEF Spelled
  <2>3. g \in NamedFold(s, Native(s, n))
    BY <1>2, <2>1, <2>2 DEF Resolve, ResolveFolder, FirstFound
  <2> QED
    BY <1>2, <2>3 DEF NamedFold
<1>3. CASE Kind[s] = "imap" /\ (Delim[s] = "/" \/ "/" \notin Range(n))
  <2>1. Native(s, n) = n
    BY <1>1, <1>3, NativeSame DEF Native, Delim
  <2>2. g \in FirstFound(Named(s, n), NamedFold(s, n))
    BY <1>3 DEF Resolve, ResolveFolder, FirstFound
  <2> QED
    BY <1>3, <2>1, <2>2 DEF FirstFound, Named, NamedFold, EqualFold
<1>5. CASE Kind[s] = "pst"
  <2> DEFINE First == {f \in Named(s, n) : \A h \in Named(s, n) : f.no <= h.no}
  <2>1. Native(s, n) = n
    BY <1>1, <1>5, NativeSame DEF Native, Delim
  <2>2. g \in FirstFound(First, NamedFold(s, n))
    BY <1>5 DEF Resolve, resolvePSTFolder
  <2>3. g \in exists[s] /\ EqualFold(g.name, n)
    BY <2>2 DEF FirstFound, Named, NamedFold, EqualFold
  <2>4. ASSUME NEW f \in exists[s], f.name = n PROVE g.name = f.name /\ g.no <= f.no
    <3>1. f \in Named(s, n)
      BY <2>4 DEF Named
    <3>2. First # {}
      BY <3>1, FirstExists
    <3>3. g \in First
      BY <2>2, <3>2 DEF FirstFound
    <3> QED
      BY <2>4, <3>1, <3>3 DEF Named
  <2> QED
    BY <1>5, <2>1, <2>3, <2>4
<1>4. CASE Kind[s] = "maildir"
  <2>1. g \in folderPath(s, n)
    BY <1>4 DEF Resolve
  <2>2. CASE EqualFold(n, Inbox)
    <3>1. EqualFold(Native(s, n), Inbox)
      BY <1>1, <2>2, CanonicalIs DEF Native
    <3> QED
      BY <1>4, <2>1, <2>2, <3>1 DEF folderPath, NamedFold, EqualFold
  <2>3. CASE ~EqualFold(n, Inbox)
    BY <1>4, <2>1, <2>3 DEF folderPath, FirstFound, Named, NamedFold, EqualFold
  <2> QED
    BY <2>2, <2>3
<1> QED
  BY <1>1, <1>2, <1>3, <1>4, <1>5

\* A name leads to the folder it stands for and to no other, unless that is shadowed
LEMMA ResolveOnly ==
  ASSUME Types, Servers, Distinct, Spelled, PlainNames(setup), NEW s \in Side,
         NEW f \in exists[s], ~Shadowed(s, f), NEW n \in KnownNames(setup),
         \/ f.name = Native(s, n)
         \/ Kind[s] # "pst" /\ EqualFold(n, Inbox) /\ EqualFold(f.name, Inbox)
  PROVE  Resolve(s, n) = {f}
<1>1. /\ setup \in Setups /\ n \in Seq(Word)
      /\ Kind[s] \in {"imap", "maildir", "pst"} /\ Delim[s] \in {"/", "."}
      /\ \A h \in exists[s] : h.name \in Seq(Word) /\ h.no \in Nat
  BY CurrentSetup, KnownIs DEF Types, Folder
<1>2. Resolve(s, n) # {}
  BY <1>1, ResolveFinds
<1> SUFFICES ASSUME NEW g \in Resolve(s, n) PROVE g = f
  BY <1>2
<1>3. g \in exists[s] /\ EqualFold(g.name, Native(s, n))
  BY <1>1, ResolveFound
<1>4. CASE Kind[s] # "pst" /\ EqualFold(n, Inbox)
  <2>1. EqualFold(Native(s, n), Inbox)
    BY <1>1, <1>4, CanonicalIs DEF Native
  <2>2. EqualFold(g.name, Inbox) /\ EqualFold(f.name, Inbox)
    BY <1>3, <2>1 DEF EqualFold
  <2> QED
    BY <1>3, <1>4, <2>2 DEF Servers
<1>5. CASE Kind[s] = "imap" /\ ~EqualFold(n, Inbox) /\ Delim[s] # "/" /\ "/" \in Range(n)
  <2>1. f.name = Native(s, n) /\ f.no = 0 /\ g.no = 0
    BY <1>3, <1>5 DEF Servers
  <2>2. ~EqualFold(f.name, Inbox) /\ ~EqualFold(g.name, Inbox)
    <3>1. ~EqualFold(Native(s, n), Inbox)
      BY <1>1, <1>5, CanonicalIs DEF Native
    <3> QED
      BY <1>3, <2>1, <3>1 DEF EqualFold
  <2>3. Canonical(s, f.name) = n
    BY <1>1, <1>5, <2>1, KnownIs, CanonicalNative DEF Canonical, Native, Delim
  <2>4. EqualFold(Canonical(s, f.name), Canonical(s, g.name))
    <3>1. /\ Canonical(s, f.name) = Replace(f.name, Delim[s], "/")
          /\ Canonical(s, g.name) = Replace(g.name, Delim[s], "/")
      BY <1>1, <1>3, <2>2, CanonicalIs DEF Canonical, Delim
    <3>2. EqualFold(f.name, g.name)
      BY <1>3, <2>1 DEF EqualFold
    <3> QED
      BY <1>1, <1>3, <3>1, <3>2, ReplaceFold
  <2>5. ASSUME Canonical(s, g.name) = Canonical(s, f.name) PROVE g = f
    <3>1. /\ Native(s, Canonical(s, f.name)) = f.name
          /\ Native(s, Canonical(s, g.name)) = g.name
      BY <1>1, <1>3, <2>2, NativeCanonical DEF Native, Canonical, Delim, Spelled
    <3> QED
      BY <1>3, <2>1, <2>5, <3>1 DEF Distinct
  <2>6. ASSUME g # f PROVE FALSE
    <3>1. CaseTwins(s, Canonical(s, f.name), Canonical(s, g.name))
      BY <1>5, <2>3, <2>4, <2>5, <2>6 DEF CaseTwins
    <3> QED
      BY <1>3, <2>6, <3>1 DEF Shadowed
  <2> QED
    BY <2>6
<1>6. CASE Kind[s] = "pst"
  <2>0. f.name = Native(s, n)
    BY <1>6
  <2>1. g.name = f.name /\ g.no <= f.no
    <3>1. \A h \in exists[s] : h.name = Native(s, n) => g.name = h.name /\ g.no <= h.no
      BY <1>1, <1>6, ResolveFound
    <3> QED
      BY <2>0, <3>1
  <2>2. ASSUME g.no < f.no PROVE FALSE
    <3>1. g # f
      BY <1>1, <2>2
    <3>2. SameName(s, f.name, g.name) /\ g \in exists[s] \ {f}
      BY <1>3, <1>6, <2>1, <3>1 DEF SameName
    <3> QED
      BY <2>2, <3>2 DEF Shadowed
  <2>3. g.no = f.no
    BY <1>1, <1>3, <2>1, <2>2
  <2> QED
    BY <1>3, <2>1, <2>3 DEF Distinct
<1>7. CASE /\ Kind[s] # "pst" /\ ~EqualFold(n, Inbox)
           /\ ~(Kind[s] = "imap" /\ Delim[s] # "/" /\ "/" \in Range(n))
  <2>1. f.name = Native(s, n)
    BY <1>7
  <2>2. g.name = f.name
    BY <1>1, <1>7, <2>1, ResolveFound
  <2> QED
    BY <1>3, <1>7, <2>2 DEF Distinct, Servers
<1> QED
  BY <1>1, <1>4, <1>5, <1>6, <1>7

\* Two names that lead exactly do not lead to the same folder
LEMMA ResolveApart ==
  ASSUME Types, Spelled, PlainNames(setup), NEW s \in Side,
         NEW n \in KnownNames(setup), NEW m \in KnownNames(setup), n # m,
         Kind[s] = "pst" \/ ~EqualFold(n, Inbox) \/ ~EqualFold(m, Inbox),
         Exact(s, n), Exact(s, m)
  PROVE  Resolve(s, n) \cap Resolve(s, m) = {} \/ CaseTwins(s, n, m)
<1> SUFFICES ASSUME NEW g \in Resolve(s, n), g \in Resolve(s, m), ~CaseTwins(s, n, m) PROVE FALSE
  OBVIOUS
<1>1. setup \in Setups
  BY CurrentSetup
<1>2. /\ n \in Seq(Word) /\ m \in Seq(Word)
      /\ Delim[s] = "." => "." \notin Range(n) /\ "." \notin Range(m)
  BY <1>1, KnownIs DEF Delim
<1>3. EqualFold(g.name, Native(s, n)) /\ EqualFold(g.name, Native(s, m))
  BY <1>2, ResolveFound
<1>4. EqualFold(Native(s, n), Native(s, m))
  BY <1>3 DEF EqualFold
<1>5. EqualFold(n, m)
  BY <1>1, <1>2, <1>4, NativeFold DEF Native, Delim
<1>6. Kind[s] = "pst" \/ (~EqualFold(n, Inbox) /\ ~EqualFold(m, Inbox))
  BY <1>5 DEF EqualFold
<1>7. ~(Kind[s] = "imap" /\ Delim[s] # "/" /\ "/" \in Range(n))
  BY <1>5 DEF CaseTwins
<1>8. ~(Kind[s] = "imap" /\ Delim[s] # "/" /\ "/" \in Range(m))
  BY <1>2, <1>5, <1>7, RangeFold DEF EqualFold
<1>9. g.name = Native(s, n)
  BY <1>2, <1>6, <1>7, ResolveFound DEF Exact
<1>10. g.name = Native(s, m)
  BY <1>2, <1>6, <1>8, ResolveFound DEF Exact
<1> QED
  BY <1>1, <1>2, <1>9, <1>10, NativeFold DEF Native, Delim

-----------------------------------------------------------------------------
(* The listings *)

\* What a listing shows of a side
Shown(s) == {Info(s, f) : f \in filterFolders(s)}

\* What an entry of a listing shows of its folder
LEMMA InfoIs ==
  ASSUME Types, NEW s \in Side, NEW f \in exists[s]
  PROVE  /\ Info(s, f) \in Entry
         /\ Info(s, f).name = Canonical(s, f.name) /\ Info(s, f).use = f.use
         /\ Info(s, f).native = f.name /\ Info(s, f).no = f.no
<1>1. f \in Folder /\ setup \in Setups
  BY DEF Types
<1>2. Canonical(s, f.name) \in Seq(Word)
  BY <1>1, CanonicalIs DEF Canonical, Folder
<1> QED
  BY <1>1, <1>2 DEF Info, Entry, Folder

\* It has as many entries as there are folders to show
LEMMA ShownFinite ==
  ASSUME Types, NEW s \in Side
  PROVE  IsFiniteSet(Shown(s)) /\ Shown(s) \subseteq Entry
<1> DEFINE m == [f \in filterFolders(s) |-> Info(s, f)]
<1>1. filterFolders(s) \subseteq exists[s] /\ IsFiniteSet(exists[s])
  BY DEF filterFolders, Types
<1>2. IsFiniteSet(filterFolders(s))
  BY <1>1, FS_Subset
<1>3. m \in Surjection(filterFolders(s), Shown(s))
  BY DEF Surjection, Shown
<1> HIDE DEF m
<1>4. IsFiniteSet(Shown(s))
  BY <1>2, <1>3, FS_Surjection
<1>5. Shown(s) \subseteq Entry
  BY <1>1, InfoIs DEF Shown
<1> QED
  BY <1>4, <1>5

\* A listing is a sequence of all that is shown, each once
LEMMA ListingIs ==
  ASSUME Types, Distinct, Spelled, NEW s \in Side, NEW r \in Orders
  PROVE  LET L == Listing(s, r)
         IN /\ L \in Seq(Entry)
            /\ \A k \in DOMAIN L : L[k] \in Shown(s)
            /\ \A k, l \in DOMAIN L : L[k] = L[l] => k = l
            /\ \A e \in Shown(s) : \E k \in DOMAIN L : L[k] = e
<1> DEFINE F == Shown(s)
           before(g, f) == r[g.native] < r[f.native] \/ (g.native = f.native /\ g.no < f.no)
           below(f) == {g \in F : before(g, f)}
           rank(f) == Cardinality(below(f))
           N == Cardinality(F)
           L == Listing(s, r)
<1>1. IsFiniteSet(F) /\ F \subseteq Entry
  BY ShownFinite
<1>2. N \in Nat
  BY <1>1, FS_CardinalityType
<1>3. ASSUME NEW g \in F, NEW f \in F, g.native = f.native, g.no = f.no
      PROVE  g = f
  <2>1. PICK x \in filterFolders(s) : g = Info(s, x)
    BY DEF Shown
  <2>2. PICK y \in filterFolders(s) : f = Info(s, y)
    BY DEF Shown
  <2>3. x \in exists[s] /\ y \in exists[s]
    BY DEF filterFolders
  <2>4. x.name = y.name /\ x.no = y.no
    BY <1>3, <2>1, <2>2, <2>3, InfoIs
  <2>5. x = y
    BY <2>3, <2>4 DEF Distinct
  <2> QED
    BY <2>1, <2>2, <2>5
<1>4. \A f \in F : f.no \in Nat /\ f.native \in DOMAIN r /\ r[f.native] \in Nat
  <2> TAKE f \in F
  <2>1. PICK x \in filterFolders(s) : f = Info(s, x)
    BY DEF Shown
  <2>2. x \in exists[s]
    BY DEF filterFolders
  <2>3. f.native = x.name /\ x.name \in ServerNames(setup, s)
    BY <2>1, <2>2, InfoIs DEF Spelled
  <2>4. setup \in Setups /\ r \in [DOMAIN r -> Nat]
    BY FoldersAssumption DEF Types
  <2>5. f.native \in DOMAIN r
    BY <2>3, <2>4, FoldersAssumption
  <2>6. f.no \in Nat
    BY <1>1 DEF Entry
  <2> QED
    BY <2>4, <2>5, <2>6
<1>5. \A g, f \in F : r[g.native] = r[f.native] => g.native = f.native
  BY <1>4, FoldersAssumption
<1>6. \A f \in F : ~before(f, f)
  BY <1>4
<1>7. \A g, f \in F : g = f \/ before(g, f) \/ before(f, g)
  BY <1>3, <1>4, <1>5
<1>8. \A g, f, h \in F : before(g, f) /\ before(f, h) => before(g, h)
  BY <1>4
<1> HIDE DEF before
<1>9. \A f \in F : rank(f) \in 0..(N - 1)
  <2> TAKE f \in F
  <2>1. below(f) \in SUBSET (F \ {f})
    BY <1>6
  <2>2. IsFiniteSet(F \ {f}) /\ Cardinality(F \ {f}) = N - 1
    BY <1>1, FS_RemoveElement
  <2>3. IsFiniteSet(below(f)) /\ rank(f) <= N - 1
    BY <2>1, <2>2, FS_Subset
  <2>4. rank(f) \in Nat
    BY <2>3, FS_CardinalityType
  <2> QED
    BY <1>2, <2>3, <2>4
<1>10. ASSUME NEW f \in F, NEW g \in F, before(f, g) PROVE rank(f) # rank(g)
  <2>1. below(f) \cup {f} \in SUBSET below(g)
    BY <1>8, <1>10
  <2>2. f \notin below(f)
    BY <1>6
  <2>3. IsFiniteSet(below(f)) /\ IsFiniteSet(below(g))
    BY <1>1, FS_Subset
  <2>4. Cardinality(below(f) \cup {f}) = rank(f) + 1
    BY <2>2, <2>3, FS_AddElement
  <2>5. rank(f) + 1 <= rank(g)
    BY <2>1, <2>3, <2>4, FS_Subset
  <2>6. rank(f) \in Nat /\ rank(g) \in Nat
    BY <2>3, FS_CardinalityType
  <2> QED
    BY <2>5, <2>6
<1>11. \A f, g \in F : rank(f) = rank(g) => f = g
  BY <1>7, <1>10
<1> DEFINE m == [f \in F |-> rank(f) + 1]
<1> HIDE DEF rank
<1>12. m \in Injection(F, 1..N)
  <2>1. m \in [F -> 1..N]
    BY <1>2, <1>9
  <2>2. \A f, g \in F : m[f] = m[g] => f = g
    BY <1>2, <1>9, <1>11
  <2> QED
    BY <2>1, <2>2 DEF Injection, IsInjective
<1>13. IsFiniteSet(1..N) /\ Cardinality(1..N) = N
  BY <1>2, FS_Interval
<1>14. m \in Surjection(F, 1..N)
  BY <1>12, <1>13, FS_Injection
<1>15. \A k \in 1..N : \E f \in F : rank(f) = k - 1
  <2> TAKE k \in 1..N
  <2>1. PICK f \in F : m[f] = k
    BY <1>14 DEF Surjection
  <2>2. rank(f) + 1 = k /\ rank(f) \in Nat
    BY <1>2, <1>9, <2>1
  <2> QED
    BY <2>2
<1> HIDE DEF m
<1>16. L = [k \in 1..N |-> CHOOSE f \in F : rank(f) = k - 1]
  BY DEF Listing, Shown, rank, before
<1>17. \A k \in 1..N : L[k] \in F /\ rank(L[k]) = k - 1
  BY <1>15, <1>16
<1>18. DOMAIN L = 1..N
  BY <1>16
<1>19. L \in Seq(Entry)
  <2>1. L = [k \in 1..N |-> L[k]]
    BY <1>16, <1>18
  <2>2. L \in [1..N -> Entry]
    BY <1>1, <1>17, <2>1
  <2> QED
    BY <1>2, <2>2, SeqDef
<1> HIDE DEF L
<1>20. \A k, l \in 1..N : L[k] = L[l] => k = l
  <2> SUFFICES ASSUME NEW k \in 1..N, NEW l \in 1..N, L[k] = L[l] PROVE k = l
    OBVIOUS
  <2>1. k - 1 = l - 1
    BY <1>17
  <2> QED
    BY <1>2, <2>1
<1>21. ASSUME NEW e \in F PROVE \E k \in 1..N : L[k] = e
  <2>1. PICK k \in 1..N : k = rank(e) + 1
    BY <1>2, <1>9
  <2>2. L[k] \in F /\ rank(L[k]) = k - 1
    BY <1>17
  <2>3. rank(L[k]) = rank(e)
    BY <1>2, <1>9, <2>1, <2>2
  <2>4. L[k] = e
    BY <1>11, <2>2, <2>3
  <2> QED
    BY <2>4
<1> HIDE DEF F
<1> QED
  BY <1>17, <1>18, <1>19, <1>20, <1>21 DEF L, F

-----------------------------------------------------------------------------
(* Steps in general *)

Inv == /\ PlainNames(setup) /\ OneInbox(setup)
       /\ Types /\ Distinct /\ Servers /\ Spelled
       /\ Listed /\ Covered /\ Origins /\ Once /\ Kept /\ Unlike /\ NoneLeft

\* A pair has a name for each side and the positions it comes from
LEMMA PairIs ==
  ASSUME NEW n, NEW m, NEW i, NEW j
  PROVE  /\ PairOf(n, m, i, j)["a"] = n /\ PairOf(n, m, i, j)["b"] = m
         /\ PairOf(n, m, i, j).from["a"] = i /\ PairOf(n, m, i, j).from["b"] = j
         /\ n \in Seq(Word) /\ m \in Seq(Word) /\ i \in Nat /\ j \in Nat => PairOf(n, m, i, j) \in Pair
  BY DEF PairOf, Pair

\* A pair is added at the end
LEMMA PairAdded ==
  ASSUME Types, NEW q \in Pair, pairs' = Append(pairs, q)
  PROVE  /\ pairs' \in Seq(Pair)
         /\ DOMAIN pairs' = DOMAIN pairs \cup {Len(pairs) + 1} /\ Len(pairs) + 1 \notin DOMAIN pairs
         /\ \A p \in DOMAIN pairs : pairs'[p] = pairs[p]
         /\ pairs'[Len(pairs) + 1] = q
<1>1. pairs \in Seq(Pair)
  BY DEF Types
<1> QED
  BY <1>1

\* The folders on show, after a step
LEMMA FilterNext ==
  ASSUME UNCHANGED setup, NEW s \in Side
  PROVE  /\ \A f : f \in filterFolders(s)' <=> f \in exists'[s] /\ Selectable(f) /\ ~isExcluded(s, f)
         /\ \A f : Info(s, f)' = Info(s, f)
  BY DEF filterFolders, isExcluded, Canonical, folderExclude, Info

\* The folders stay as they are when none is created
LEMMA FoldersStay ==
  ASSUME Inv, UNCHANGED <<setup, exists>>
  PROVE  /\ PlainNames(setup)' /\ OneInbox(setup)' /\ Distinct' /\ Servers' /\ Spelled'
         /\ \A s \in Side : filterFolders(s)' = filterFolders(s)
<1>1. PlainNames(setup)' /\ OneInbox(setup)'
  BY DEF Inv
<1>2. Distinct' /\ Servers'
  BY DEF Inv, Distinct, Servers, Kind, Found
<1>3. Spelled'
  BY DEF Inv, Spelled, Canonical, Delim
<1>4. \A s \in Side : filterFolders(s)' = filterFolders(s)
  BY DEF filterFolders, isExcluded, Canonical, folderExclude
<1> QED
  BY <1>1, <1>2, <1>3, <1>4

\* A listing stays right when folders are added
LEMMA ListedStays ==
  ASSUME Inv, UNCHANGED <<setup, list>>, \A s \in Side : exists[s] \subseteq exists'[s]
  PROVE  Listed'
<1> SUFFICES ASSUME NEW s \in Side, NEW k \in DOMAIN list[s]
             PROVE  /\ \E f \in filterFolders(s)' : list[s][k] = Info(s, f)'
                    /\ \A l \in DOMAIN list[s] : list[s][k] = list[s][l] => k = l
  BY DEF Listed
<1>1. PICK f \in filterFolders(s) : list[s][k] = Info(s, f)
  BY DEF Inv, Listed
<1>2. f \in filterFolders(s)' /\ list[s][k] = Info(s, f)'
  BY <1>1, FilterNext DEF filterFolders
<1> QED
  BY <1>2 DEF Inv, Listed

\* A pair that is there stays what it is
LEMMA MatchedStays ==
  ASSUME NEW p, UNCHANGED list, pairs'[p] = pairs[p],
         matchedA \subseteq matchedA', usedB \subseteq usedB', MatchedPair(p)
  PROVE  MatchedPair(p)'
  BY DEF MatchedPair, Alike, SameUse

\* The pair of a created folder stays one when folders are added
LEMMA CreatedStays ==
  ASSUME NEW p, NEW s \in Side, UNCHANGED <<setup, list, matchedA, usedB>>, pairs'[p] = pairs[p],
         exists[s] \subseteq exists'[s], CreatedPair(p, s)
  PROVE  CreatedPair(p, s)'
  BY DEF CreatedPair, Kind, Native, Matched

\* An entry of a listing
LEMMA EntryIs ==
  ASSUME Types, Spelled, Listed, NEW s \in Side, NEW k \in DOMAIN list[s]
  PROVE  /\ list[s] \in Seq(Entry) /\ DOMAIN list[s] = 1..Len(list[s]) /\ k \in Nat /\ k # 0
         /\ list[s][k] \in Entry /\ list[s][k].name \in Seq(Word)
         /\ list[s][k].name \in KnownNames(setup)
         /\ \E f \in filterFolders(s) : /\ list[s][k] = Info(s, f) /\ f \in exists[s]
                                        /\ list[s][k].name = Canonical(s, f.name)
                                        /\ list[s][k].native = f.name /\ list[s][k].use = f.use
<1>1. list[s] \in Seq(Entry)
  BY DEF Types
<1>2. PICK f \in filterFolders(s) : list[s][k] = Info(s, f)
  BY DEF Listed
<1>3. f \in exists[s]
  BY DEF filterFolders
<1>4. /\ list[s][k] \in Entry /\ list[s][k].name = Canonical(s, f.name)
      /\ list[s][k].native = f.name /\ list[s][k].use = f.use
  BY <1>2, <1>3, InfoIs
<1>5. Canonical(s, f.name) \in KnownNames(setup)
  BY <1>3 DEF Spelled
<1>6. list[s][k].name \in Seq(Word)
  BY <1>4 DEF Entry
<1>7. DOMAIN list[s] = 1..Len(list[s]) /\ k \in Nat /\ k # 0
  BY <1>1
<1> QED
  BY <1>1, <1>2, <1>3, <1>4, <1>5, <1>6, <1>7

\* A partner is an unused entry that fits; without one none does
LEMMA PartnerIs ==
  ASSUME Types, NEW i
  PROVE  /\ \A j \in Partner(i) : i \notin matchedA /\ j \in DOMAIN list["b"] \ usedB /\ Fits(list["a"][i], list["b"][j])
         /\ Partner(i) = {} /\ i \notin matchedA =>
              \A j \in DOMAIN list["b"] \ usedB : ~Fits(list["a"][i], list["b"][j])
<1> DEFINE J == {j \in DOMAIN list["b"] \ usedB : Fits(list["a"][i], list["b"][j])}
<1>1. Partner(i) = IF i \in matchedA THEN {} ELSE {j \in J : \A k \in J : j <= k}
  BY DEF Partner
<1>2. J \in SUBSET Nat
  <2>1. list["b"] \in Seq(Entry)
    BY DEF Types, Side
  <2> QED
    BY <2>1
<1>3. J # {} => \E n \in J : \A m \in J : n <= m
  BY <1>2, LeastExists
<1> QED
  BY <1>1, <1>3

-----------------------------------------------------------------------------
(* The steps *)

\* Before the first cycle
LEMMA InitInv == Init /\ PlainNames(setup) /\ OneInbox(setup) => Inv
<1> SUFFICES ASSUME Init, PlainNames(setup), OneInbox(setup) PROVE Inv
  OBVIOUS
<1>1. setup \in Setups /\ \A s \in Side : exists[s] \subseteq Found[s]
  BY DEF Init
<1>2. Types
  <2>1. \A s \in Side : Found[s] \subseteq Folder /\ IsFiniteSet(Found[s])
    BY <1>1, FoldersAssumption DEF Found, Folder
  <2>2. exists \in [Side -> SUBSET Folder] /\ \A s \in Side : IsFiniteSet(exists[s])
    BY <1>1, <2>1, FS_Subset DEF Init
  <2>3. \A s \in Side : list[s] = <<>>
    BY DEF Init
  <2>4. list \in [Side -> Seq(Entry)]
    BY <2>3 DEF Init
  <2> QED
    BY <1>1, <2>2, <2>3, <2>4, FoldersAssumption DEF Init, Types, Side
<1>3. Distinct
  BY <1>1, FoldersAssumption DEF Distinct, Found
<1>4. Servers
  <2>1. \A s \in Side : \A f \in Found[s] : f.no # 0 => Kind[s] = "pst"
    BY <1>1, FoldersAssumption DEF Found, Kind
  <2> QED
    BY <1>1, <2>1 DEF Servers, OneInbox, Init, Found, Kind
<1>5. Spelled
  <2> SUFFICES ASSUME NEW s \in Side, NEW f \in exists[s]
               PROVE  /\ Canonical(s, f.name) \in KnownNames(setup)
                      /\ f.name \in ServerNames(setup, s)
                      /\ Delim[s] = "." => "/" \notin Range(f.name)
    BY DEF Spelled
  <2>1. f \in setup.found[s]
    BY <1>1 DEF Found
  <2> QED
    BY <2>1 DEF KnownNames, ServerNames, Canonical, Side, PlainNames, Delim
<1>6. \A s \in Side : DOMAIN list[s] = {}
  BY DEF Init
<1>7. DOMAIN pairs = {} /\ matchedA = {} /\ usedB = {} /\ pc = "idle"
  BY DEF Init
<1>8. Listed /\ Covered /\ Origins /\ Once /\ Kept
  BY <1>6, <1>7 DEF Listed, Covered, Origins, Once, Kept, Matched
<1>9. Unlike /\ NoneLeft
  BY <1>6, <1>7 DEF Unlike, NoneLeft, Treated, Side, Peer
<1> QED
  BY <1>2, <1>3, <1>4, <1>5, <1>8, <1>9 DEF Inv

\* Only a side that a folder can be created on is written to
LEMMA WritableIs ==
  ASSUME setup \in Setups
  PROVE  Writable \subseteq Side /\ \A s \in Writable : Kind[s] # "pst"
  BY FoldersAssumption DEF Writable, Kind

\* Nothing is to be created while the loops of matchFolders run
LEMMA NothingTreated ==
  ASSUME setup \in Setups, UNCHANGED setup, pc' \in {"use", "name"}
  PROVE  NoneLeft'
<1>1. \A s \in Writable : Treated(s)' = {}
  BY WritableIs DEF Treated, Side
<1>2. Writable' = Writable
  BY DEF Writable
<1> QED
  BY <1>1, <1>2 DEF NoneLeft

\* Both sides are listed
LEMMA ListStep ==
  ASSUME Inv, ListFolders, UNCHANGED setup
  PROVE  Inv'
<1>1. PICK r \in [Side -> Orders] : list' = [s \in Side |-> Listing(s, r[s])]
  BY DEF ListFolders
<1>2. /\ UNCHANGED <<setup, exists>> /\ pc' = "use" /\ pos' = 0 /\ matchedA' = {} /\ usedB' = {}
      /\ pairs' = <<>> /\ failed' = "no" /\ passes' = passes + 1 /\ passes < MaxPasses
  BY DEF ListFolders
<1>3. \A s \in Side : /\ list'[s] \in Seq(Entry)
                      /\ \A k \in DOMAIN list'[s] : list'[s][k] \in Shown(s)
                      /\ \A k, l \in DOMAIN list'[s] : list'[s][k] = list'[s][l] => k = l
                      /\ \A e \in Shown(s) : \E k \in DOMAIN list'[s] : list'[s][k] = e
  <2> TAKE s \in Side
  <2>1. list'[s] = Listing(s, r[s]) /\ r[s] \in Orders
    BY <1>1
  <2> QED
    BY <2>1, ListingIs DEF Inv
<1>4. /\ PlainNames(setup)' /\ OneInbox(setup)' /\ Distinct' /\ Servers' /\ Spelled'
      /\ \A s \in Side : filterFolders(s)' = filterFolders(s)
  BY <1>2, FoldersStay
<1>5. \A s \in Side : \A f : Info(s, f)' = Info(s, f)
  BY <1>2, FilterNext
<1>6. DOMAIN pairs' = {}
  BY <1>2
<1>7. Types'
  <2>1. list' \in [Side -> Seq(Entry)]
    BY <1>1, <1>3
  <2>2. Len(list'["a"]) \in Nat
    BY <2>1 DEF Side
  <2>3. passes' \in 0..MaxPasses
    BY <1>2, FoldersAssumption DEF Inv, Types
  <2> QED
    BY <1>2, <2>1, <2>2, <2>3 DEF Inv, Types
<1>8. Listed'
  BY <1>3, <1>4, <1>5 DEF Listed, Shown
<1>9. Covered'
  <2> SUFFICES ASSUME NEW s \in Side, NEW f \in filterFolders(s)
               PROVE  \E k \in DOMAIN list'[s] : list'[s][k] = Info(s, f)
    BY <1>4, <1>5 DEF Covered
  <2>1. Info(s, f) \in Shown(s)
    BY DEF Shown
  <2> QED
    BY <1>3, <2>1
<1>10. Origins' /\ Once' /\ Kept'
  BY <1>2, <1>6 DEF Origins, Once, Kept, Matched
<1>11. Unlike'
  <2>1. list'["a"] \in Seq(Entry)
    BY <1>3 DEF Side
  <2>2. \A i \in DOMAIN list'["a"] : ~(i <= 0)
    BY <2>1
  <2> QED
    BY <1>2, <2>2 DEF Unlike
<1>12. NoneLeft'
  BY <1>2, NothingTreated DEF Inv, Types
<1> QED
  BY <1>4, <1>7, <1>8, <1>9, <1>10, <1>11, <1>12 DEF Inv

\* What is left over after an entry of a has been looked at
LEMMA UnlikeStep ==
  ASSUME Inv, pc \in {"use", "name"}, pos < Len(list["a"]), UNCHANGED <<list, pc>>, pos' = pos + 1,
         matchedA \subseteq matchedA', usedB \subseteq usedB',
         pos + 1 \in matchedA' \/ \A j \in DOMAIN list["b"] \ usedB : ~Fits(list["a"][pos + 1], list["b"][j])
  PROVE  Unlike'
<1> SUFFICES ASSUME NEW i \in DOMAIN list["a"] \ matchedA', NEW j \in DOMAIN list["b"] \ usedB'
             PROVE  /\ pc # "use" \/ i <= pos + 1 => ~SameUse(list["a"][i], list["b"][j])
                    /\ pc \in {"b", "a", "done"} \/ (pc = "name" /\ i <= pos + 1)
                         => ~EqualFold(list["a"][i].name, list["b"][j].name)
  BY DEF Unlike, SameUse
<1>1. i \in DOMAIN list["a"] \ matchedA /\ j \in DOMAIN list["b"] \ usedB
  OBVIOUS
<1>2. list["a"] \in Seq(Entry) /\ pos \in Nat
  BY DEF Inv, Types, Side
<1>3. i \in Nat
  BY <1>2
<1>4. CASE i # pos + 1
  <2>1. i <= pos + 1 => i <= pos
    BY <1>2, <1>3, <1>4
  <2> QED
    BY <1>1, <2>1 DEF Inv, Unlike
<1>5. CASE i = pos + 1
  <2>1. ~Fits(list["a"][i], list["b"][j])
    BY <1>1, <1>5
  <2>2. pc = "use" => ~SameUse(list["a"][i], list["b"][j])
    BY <2>1 DEF Fits, SameUse
  <2>3. pc = "name" => ~EqualFold(list["a"][i].name, list["b"][j].name)
    BY <2>1 DEF Fits
  <2>4. pc # "use" => ~SameUse(list["a"][i], list["b"][j])
    BY <1>1 DEF Inv, Unlike
  <2> QED
    BY <2>2, <2>3, <2>4
<1> QED
  BY <1>4, <1>5

\* The loops of matchFolders: an entry without a partner is passed over
LEMMA PassStep ==
  ASSUME Inv, pc \in {"use", "name"}, pos < Len(list["a"]), Partner(pos + 1) = {}, pos' = pos + 1,
         UNCHANGED <<setup, exists, pc, list, matchedA, usedB, pairs, passes, failed>>
  PROVE  Inv'
<1>1. /\ PlainNames(setup)' /\ OneInbox(setup)' /\ Distinct' /\ Servers' /\ Spelled'
      /\ \A s \in Side : filterFolders(s)' = filterFolders(s)
  BY FoldersStay
<1>2. Types'
  <2>1. pos \in Nat /\ Len(list["a"]) \in Nat
    BY DEF Inv, Types, Side
  <2>2. pos + 1 \in Nat /\ pos + 1 <= Len(list["a"])
    BY <2>1
  <2> QED
    BY <2>2 DEF Inv, Types
<1>3. Listed'
  BY ListedStays
<1>4. Covered'
  BY <1>1, FilterNext DEF Inv, Covered, Native
<1>5. \A p \in DOMAIN pairs : MatchedPair(p)'
  BY MatchedStays DEF Inv, Origins
<1>6. Origins' /\ Once' /\ Kept'
  BY <1>5 DEF Inv, Origins, Once, Kept, Matched
<1>7. Unlike'
  BY UnlikeStep, PartnerIs DEF Inv
<1>8. NoneLeft'
  BY NothingTreated DEF Inv, Types
<1> QED
  BY <1>1, <1>2, <1>3, <1>4, <1>6, <1>7, <1>8 DEF Inv

\* One with a partner is paired
LEMMA MatchedStep ==
  ASSUME Inv, pc \in {"use", "name"}, pos < Len(list["a"]), NEW j \in Partner(pos + 1), pos' = pos + 1,
         matchedA' = matchedA \cup {pos + 1}, usedB' = usedB \cup {j},
         pairs' = Append(pairs, PairOf(list["a"][pos + 1].name, list["b"][j].name, pos + 1, j)),
         UNCHANGED <<setup, exists, pc, list, passes, failed>>
  PROVE  Inv'
<1> PICK i, z : i = pos + 1 /\ z = Len(pairs) + 1
  OBVIOUS
<1> DEFINE q == PairOf(list["a"][i].name, list["b"][j].name, i, j)
<1>1. Types /\ Spelled /\ Listed
  BY DEF Inv
<1>2. /\ i \notin matchedA /\ j \in DOMAIN list["b"] /\ j \notin usedB
      /\ Fits(list["a"][i], list["b"][j])
  BY <1>1, PartnerIs
<1>3. i \in DOMAIN list["a"] /\ i \in Nat /\ pos \in Nat /\ i <= Len(list["a"])
  BY <1>1 DEF Types, Side
<1>4. /\ list["a"][i].name \in Seq(Word) /\ i # 0
      /\ list["b"][j].name \in Seq(Word) /\ j \in Nat /\ j # 0
  BY <1>1, <1>2, <1>3, EntryIs DEF Side
<1>5. /\ q \in Pair /\ q["a"] = list["a"][i].name /\ q["b"] = list["b"][j].name
      /\ q.from["a"] = i /\ q.from["b"] = j
  BY <1>3, <1>4, PairIs
<1> HIDE DEF q
<1>6. /\ pairs' \in Seq(Pair) /\ DOMAIN pairs' = DOMAIN pairs \cup {z} /\ z \notin DOMAIN pairs
      /\ \A p \in DOMAIN pairs : pairs'[p] = pairs[p]
      /\ pairs'[z] = q
  BY <1>1, <1>5, PairAdded DEF q
<1>7. /\ PlainNames(setup)' /\ OneInbox(setup)' /\ Distinct' /\ Servers' /\ Spelled'
      /\ \A s \in Side : filterFolders(s)' = filterFolders(s)
  BY FoldersStay
<1>8. Types'
  BY <1>1, <1>2, <1>3, <1>6 DEF Types
<1>9. Listed'
  BY ListedStays
<1>10. Covered'
  <2> SUFFICES ASSUME NEW s \in Side, NEW f \in filterFolders(s)
               PROVE  \/ \E k \in DOMAIN list[s] : list[s][k] = Info(s, f)
                      \/ \E p \in DOMAIN pairs' : /\ pairs'[p].from[s] = 0
                                                  /\ f.name = Native(s, pairs'[p][s])
                                                  /\ ~EqualFold(pairs'[p][s], Inbox)
    BY <1>7, FilterNext DEF Covered, Native
  <2>1. CASE \E k \in DOMAIN list[s] : list[s][k] = Info(s, f)
    BY <2>1
  <2>2. CASE \E p \in DOMAIN pairs : /\ pairs[p].from[s] = 0
                                     /\ f.name = Native(s, pairs[p][s])
                                     /\ ~EqualFold(pairs[p][s], Inbox)
    BY <1>6, <2>2
  <2> QED
    BY <2>1, <2>2 DEF Inv, Covered
<1>11. MatchedPair(z)'
  <2>1. Alike(list["a"][i], list["b"][j])
    BY <1>2 DEF Fits, Alike, SameUse
  <2> QED
    BY <1>5, <1>6, <2>1 DEF MatchedPair, Alike, SameUse
<1>12. \A p \in DOMAIN pairs : MatchedPair(p) /\ MatchedPair(p)'
  BY <1>6, MatchedStays DEF Inv, Origins
<1>13. Origins'
  <2>1. \A p \in DOMAIN pairs' : MatchedPair(p)'
    BY <1>6, <1>11, <1>12
  <2> QED
    BY <2>1 DEF Origins
<1>14. Once'
  <2>1. \A p \in DOMAIN pairs : pairs[p].from["a"] # i /\ pairs[p].from["b"] # j
    BY <1>2, <1>12 DEF MatchedPair
  <2> SUFFICES ASSUME NEW s \in Side, NEW p \in DOMAIN pairs', NEW o \in DOMAIN pairs', p # o,
                      pairs'[p].from[s] = pairs'[o].from[s]
               PROVE  pairs'[p].from[s] = 0
    BY DEF Once
  <2>2. CASE p \in DOMAIN pairs /\ o \in DOMAIN pairs
    BY <1>6, <2>2 DEF Inv, Once
  <2>3. CASE p = z \/ o = z
    BY <1>5, <1>6, <2>1, <2>3 DEF Side
  <2> QED
    BY <1>6, <2>2, <2>3
<1>15. Kept'
  <2> SUFFICES ASSUME NEW s \in Side, NEW k \in Matched(s)'
               PROVE  \E p \in DOMAIN pairs' : pairs'[p].from[s] = k
    BY DEF Kept
  <2>1. CASE k \in Matched(s)
    BY <1>6, <2>1 DEF Inv, Kept
  <2>2. CASE k \notin Matched(s)
    <3>1. pairs'[z].from[s] = k
      BY <1>5, <1>6, <2>2 DEF Matched, Side
    <3> QED
      BY <1>6, <3>1
  <2> QED
    BY <2>1, <2>2
<1>16. Unlike'
  BY UnlikeStep
<1>17. NoneLeft'
  BY NothingTreated DEF Inv, Types
<1> QED
  BY <1>7, <1>8, <1>9, <1>10, <1>13, <1>14, <1>15, <1>16, <1>17 DEF Inv

\* The pairs stay what they are while nothing is added to them
LEMMA PairsStay ==
  ASSUME Inv, UNCHANGED <<setup, exists, list, matchedA, usedB, pairs>>
  PROVE  /\ \A p \in DOMAIN pairs' : MatchedPair(p)' \/ \E s \in Side : CreatedPair(p, s)'
         /\ Once' /\ Kept' /\ Listed'
         /\ pc # "idle" => Covered'
<1>1. ASSUME NEW p \in DOMAIN pairs PROVE MatchedPair(p)' \/ \E s \in Side : CreatedPair(p, s)'
  <2>1. CASE MatchedPair(p)
    BY <2>1, MatchedStays
  <2>2. ASSUME NEW s \in Side, CreatedPair(p, s) PROVE CreatedPair(p, s)'
    BY <2>2, CreatedStays
  <2> QED
    BY <2>1, <2>2 DEF Inv, Origins
<1>2. Once' /\ Kept'
  BY DEF Inv, Once, Kept, Matched
<1>3. Listed'
  BY ListedStays
<1>4. pc # "idle" => Covered'
  BY FoldersStay, FilterNext DEF Inv, Covered, Native
<1> QED
  BY <1>1, <1>2, <1>3, <1>4

\* One loop ends and the next begins
LEMMA TurnStep ==
  ASSUME Inv, UNCHANGED <<setup, exists, list, matchedA, usedB, pairs, passes, failed>>,
         \/ pc = "use" /\ pos = Len(list["a"]) /\ pc' = "name" /\ pos' = 0
         \/ pc = "name" /\ pos = Len(list["a"]) /\ pc' = "b" /\ pos' = 0
         \/ pc = "b" /\ pos = Len(list["a"]) /\ pc' = "a" /\ pos' = 0
         \/ pc = "a" /\ pos = Len(list["b"]) /\ pc' = "done" /\ pos' = pos
  PROVE  Inv'
<1>1. /\ PlainNames(setup)' /\ OneInbox(setup)' /\ Distinct' /\ Servers' /\ Spelled'
  BY FoldersStay
<1>2. /\ list["a"] \in Seq(Entry) /\ list["b"] \in Seq(Entry)
      /\ Len(list["a"]) \in Nat /\ Len(list["b"]) \in Nat
      /\ DOMAIN list["a"] = 1..Len(list["a"]) /\ DOMAIN list["b"] = 1..Len(list["b"])
  BY DEF Inv, Types, Side
<1>3. Types'
  BY <1>2 DEF Inv, Types
<1>4. Once' /\ Kept' /\ Listed' /\ Covered'
  BY PairsStay
<1>5. Origins'
  <2>1. \A p \in DOMAIN pairs' : MatchedPair(p)' \/ \E s \in Side : CreatedPair(p, s)'
    BY PairsStay
  <2>2. pc = "use" => \A p \in DOMAIN pairs' : MatchedPair(p)'
    BY MatchedStays DEF Inv, Origins
  <2>3. pc = "name" => \A p \in DOMAIN pairs : pairs[p].from["a"] # 0 /\ pairs[p].from["b"] # 0
    <3>1. 0 \notin matchedA /\ 0 \notin usedB
      BY <1>2 DEF Inv, Types
    <3> QED
      BY <3>1 DEF Inv, Origins, MatchedPair
  <2>4. pc = "b" => \A p \in DOMAIN pairs : pairs[p].from["a"] # 0
    BY DEF Inv, Origins
  <2>5. CASE pc = "use"
    BY <2>1, <2>2, <2>5 DEF Origins
  <2>6. CASE pc = "name"
    BY <2>1, <2>3, <2>6 DEF Origins
  <2>7. CASE pc = "b"
    BY <2>1, <2>4, <2>7 DEF Origins
  <2>8. CASE pc = "a"
    BY <2>1, <2>8 DEF Origins
  <2> QED
    BY <2>5, <2>6, <2>7, <2>8
<1>6. Unlike'
  <2> SUFFICES ASSUME NEW i \in DOMAIN list["a"] \ matchedA, NEW j \in DOMAIN list["b"] \ usedB
               PROVE  /\ pc' # "use" \/ i <= pos' => ~SameUse(list["a"][i], list["b"][j])
                      /\ pc' \in {"b", "a", "done"} \/ (pc' = "name" /\ i <= pos')
                           => ~EqualFold(list["a"][i].name, list["b"][j].name)
    BY DEF Unlike, SameUse
  <2>1. i \in 1..Len(list["a"]) /\ ~(i <= 0)
    BY <1>2
  <2> QED
    BY <2>1, <1>2 DEF Inv, Unlike
<1>7. NoneLeft'
  <2>1. Writable \subseteq Side /\ Writable' = Writable
    BY WritableIs DEF Inv, Types, Writable
  <2>2. \A s \in Side : Treated(s)' \subseteq Treated(s)
    BY <1>2 DEF Treated, Side, Peer
  <2> SUFFICES ASSUME failed' = "no", NEW s \in Writable, NEW k \in Treated(s)', k \notin Matched(Peer(s))
               PROVE  \E p \in DOMAIN pairs : pairs[p].from[Peer(s)] = k
    BY <2>1 DEF NoneLeft, Matched
  <2>3. k \in Treated(s)
    BY <2>1, <2>2
  <2> QED
    BY <2>3 DEF Inv, NoneLeft
<1> QED
  BY <1>1, <1>3, <1>4, <1>5, <1>6, <1>7 DEF Inv

\* Nothing is created for an entry
LEMMA SkipStep ==
  ASSUME Inv, NEW s \in Side, pc = s, pos < Len(list[Peer(s)]), pos' = pos + 1,
         UNCHANGED <<setup, exists, pc, list, matchedA, usedB, pairs, passes>>,
         failed' \in {"no", "yes"}, failed' = "no" => failed = "no",
         failed' = "no" => pos + 1 \in Matched(Peer(s)) \/ s \notin Writable
  PROVE  Inv'
<1>1. /\ PlainNames(setup)' /\ OneInbox(setup)' /\ Distinct' /\ Servers' /\ Spelled'
  BY FoldersStay
<1>2. /\ pos \in Nat /\ Len(list["a"]) \in Nat /\ Len(list["b"]) \in Nat
      /\ DOMAIN list["a"] = 1..Len(list["a"]) /\ DOMAIN list["b"] = 1..Len(list["b"])
  BY DEF Inv, Types, Side
<1>3. Types'
  BY <1>2 DEF Inv, Types, Side, Peer
<1>4. Once' /\ Kept' /\ Listed' /\ Covered'
  BY PairsStay DEF Side
<1>5. Origins'
  <2>1. \A p \in DOMAIN pairs' : MatchedPair(p)' \/ \E x \in Side : CreatedPair(p, x)'
    BY PairsStay
  <2>2. \A p \in DOMAIN pairs : pairs[p].from["a"] \in Nat /\ pairs[p].from["b"] \in Nat
    <3>1. pairs \in Seq(Pair)
      BY DEF Inv, Types
    <3>2. \A p \in DOMAIN pairs : pairs[p] \in Pair
      BY <3>1
    <3> QED
      BY <3>2 DEF Pair
  <2>3. CASE pc = "b"
    BY <1>2, <2>1, <2>2, <2>3 DEF Inv, Origins
  <2>4. CASE pc = "a"
    BY <1>2, <2>1, <2>2, <2>4 DEF Inv, Origins
  <2> QED
    BY <2>3, <2>4 DEF Side
<1>6. Unlike'
  BY DEF Inv, Unlike, Side, SameUse
<1>7. NoneLeft'
  <2>1. Writable \subseteq Side /\ Writable' = Writable
    BY WritableIs DEF Inv, Types, Writable
  <2>2. \A x \in Side : Treated(x)' \subseteq Treated(x) \cup (IF x = s THEN {pos + 1} ELSE {})
    <3> SUFFICES ASSUME NEW x \in Side, NEW k \in Treated(x)', ~(x = s /\ k = pos + 1)
                 PROVE  k \in Treated(x)
      OBVIOUS
    <3>1. k \in DOMAIN list[Peer(x)] /\ k \in Nat
      BY <1>2 DEF Treated, Side, Peer
    <3>2. x = s /\ k <= pos + 1 => k <= pos
      BY <1>2, <3>1
    <3> QED
      BY <3>1, <3>2 DEF Treated, Side, Peer
  <2> SUFFICES ASSUME failed' = "no", NEW x \in Writable, NEW k \in Treated(x)', k \notin Matched(Peer(x))
               PROVE  \E p \in DOMAIN pairs : pairs[p].from[Peer(x)] = k
    BY <2>1 DEF NoneLeft, Matched
  <2>3. k \in Treated(x)
    BY <2>1, <2>2
  <2> QED
    BY <2>3 DEF Inv, NoneLeft
<1> QED
  BY <1>1, <1>3, <1>4, <1>5, <1>6, <1>7 DEF Inv

\* The folder that is created for a name
Taken(s, n) == \E f \in exists[s] : f.name = Native(s, n)
Made(s, n) == [name |-> Native(s, n), use |-> UseOf(Kind[s], Native(s, n)), sel |-> "yes", no |-> 0]

\* It is listed under the name it was created for
LEMMA MadeIs ==
  ASSUME Inv, NEW s \in Side, NEW n \in KnownNames(setup), ~EqualFold(n, Inbox)
  PROVE  /\ n \in Seq(Word) /\ Made(s, n) \in Folder /\ ~EqualFold(Made(s, n).name, Inbox)
         /\ Made(s, n).name = Native(s, n) /\ Made(s, n).no = 0
         /\ Canonical(s, Made(s, n).name) = n
         /\ Made(s, n).name \in ServerNames(setup, s)
         /\ Delim[s] = "." => "/" \notin Range(Made(s, n).name)
<1>1. setup \in Setups /\ PlainNames(setup) /\ Delim[s] \in {"/", "."} /\ "/" \in {"/", "."}
  BY CurrentSetup DEF Inv
<1>2. n \in Seq(Word) /\ (Delim[s] = "." => "." \notin Range(n))
  BY <1>1, KnownIs DEF Delim
<1>3. Native(s, n) \in Seq(Word) /\ ~EqualFold(Native(s, n), Inbox)
  BY <1>1, <1>2, CanonicalIs DEF Native
<1>4. UseOf(Kind[s], Native(s, n)) \in Uses
  BY DEF UseOf, maildirSpecialUseOf, pstSpecialUseOf, Uses
<1>5. Made(s, n) \in Folder /\ Made(s, n).name = Native(s, n) /\ Made(s, n).no = 0
  BY <1>3, <1>4 DEF Made, Folder
<1>6. Canonical(s, Native(s, n)) = n
  BY <1>1, <1>2, CanonicalNative DEF Canonical, Native, Delim
<1>7. Native(s, n) \in ServerNames(setup, s)
  BY DEF ServerNames, Native
<1>8. Delim[s] = "." => "/" \notin Range(Native(s, n))
  BY <1>1, <1>2, ReplaceGone DEF Native, NativeOf, Delim
<1> QED
  BY <1>2, <1>3, <1>5, <1>6, <1>7, <1>8

\* Creating it keeps the folders of each side apart
LEMMA MadeStep ==
  ASSUME Inv, NEW s \in Side, Kind[s] # "pst", NEW n \in KnownNames(setup), ~EqualFold(n, Inbox),
         ~Taken(s, n), UNCHANGED setup, exists' = [exists EXCEPT ![s] = @ \cup {Made(s, n)}]
  PROVE  /\ exists'[s] = exists[s] \cup {Made(s, n)}
         /\ \A x \in Side : x # s => exists'[x] = exists[x]
         /\ exists' \in [Side -> SUBSET Folder] /\ \A x \in Side : IsFiniteSet(exists'[x])
         /\ Distinct' /\ Servers' /\ Spelled'
<1> PICK new : new = Made(s, n)
  OBVIOUS
<1>1. /\ new \in Folder /\ ~EqualFold(new.name, Inbox) /\ new.name = Native(s, n) /\ new.no = 0
      /\ Canonical(s, new.name) = n /\ new.name \in ServerNames(setup, s)
      /\ Delim[s] = "." => "/" \notin Range(new.name)
  BY MadeIs
<1>2. exists \in [Side -> SUBSET Folder] /\ \A x \in Side : IsFiniteSet(exists[x])
  BY DEF Inv, Types
<1>3. exists'[s] = exists[s] \cup {new} /\ \A x \in Side : x # s => exists'[x] = exists[x]
  BY <1>2
<1>4. exists' \in [Side -> SUBSET Folder]
  BY <1>1, <1>2
<1>5. ASSUME NEW x \in Side PROVE IsFiniteSet(exists'[x])
  BY <1>2, <1>3, FS_AddElement
<1>6. \A f \in exists[s] : f.name # new.name
  BY <1>1 DEF Taken
<1>7. Distinct'
  BY <1>3, <1>6 DEF Inv, Distinct
<1>8. Servers'
  <2> SUFFICES ASSUME NEW x \in Side
               PROVE  /\ Kind[x] = "pst" => exists'[x] \subseteq Found[x]
                      /\ Kind[x] # "pst" =>
                           /\ \A f \in exists'[x] : f.no = 0
                           /\ \A f, g \in exists'[x] : EqualFold(f.name, Inbox) /\ EqualFold(g.name, Inbox) => f = g
                           /\ \E f \in exists'[x] : EqualFold(f.name, Inbox)
    BY DEF Servers, Kind, Found
  <2>1. CASE x = s
    BY <1>1, <1>3, <2>1 DEF Inv, Servers
  <2>2. CASE x # s
    BY <1>3, <2>2 DEF Inv, Servers
  <2> QED
    BY <2>1, <2>2
<1>9. Spelled'
  <2> SUFFICES ASSUME NEW x \in Side, NEW f \in exists'[x]
               PROVE  /\ Canonical(x, f.name) \in KnownNames(setup)
                      /\ f.name \in ServerNames(setup, x)
                      /\ Delim[x] = "." => "/" \notin Range(f.name)
    BY DEF Spelled, Canonical, Delim
  <2>1. CASE f \in exists[x]
    BY <2>1 DEF Inv, Spelled
  <2>2. CASE f \notin exists[x]
    <3>1. x = s /\ f = new
      BY <1>3, <2>2
    <3> QED
      BY <1>1, <3>1
  <2> QED
    BY <2>1, <2>2
<1> QED
  BY <1>3, <1>4, <1>5, <1>7, <1>8, <1>9

\* A folder is created on s, or is there, for the next entry of the other side
LEMMA CreateStep ==
  ASSUME Inv, NEW s \in Side, pc = s, pos < Len(list[Peer(s)]), pos' = pos + 1,
         NEW k, k = pos + 1, NEW n, n = list[Peer(s)][k].name,
         k \notin Matched(Peer(s)), s \in Writable,
         Kind[s] = "maildir" \/ (~Taken(s, n) /\ ~EqualFold(n, Inbox)),
         exists' = IF Taken(s, n) \/ EqualFold(n, Inbox) THEN exists
                   ELSE [exists EXCEPT ![s] = @ \cup {Made(s, n)}],
         pairs' = Append(pairs, IF s = "b" THEN PairOf(n, n, k, 0) ELSE PairOf(n, n, 0, k)),
         UNCHANGED <<setup, pc, list, matchedA, usedB, passes, failed>>
  PROVE  Inv'
<1> PICK t, z : t = Peer(s) /\ z = Len(pairs) + 1
  OBVIOUS
<1> PICK q : q = IF s = "b" THEN PairOf(n, n, k, 0) ELSE PairOf(n, n, 0, k)
  OBVIOUS
<1>0. /\ t = Peer(s) /\ z = Len(pairs) + 1
      /\ setup' = setup /\ pc' = pc /\ list' = list /\ pos' = pos + 1
  OBVIOUS
<1>1. Types /\ Spelled /\ Listed
  BY DEF Inv
<1>2. t \in Side /\ Peer(t) = s /\ s # t /\ \A x \in Side : x = s \/ x = t
  BY DEF Side, Peer
<1>3. /\ list \in [Side -> Seq(Entry)] /\ pos \in Nat
      /\ \A x \in Side : /\ list[x] \in Seq(Entry) /\ Len(list[x]) \in Nat
                         /\ DOMAIN list[x] = 1..Len(list[x])
  BY <1>1 DEF Types
<1>4. k \in DOMAIN list[t] /\ k \in Nat /\ k # 0 /\ k \notin Matched(t) /\ k <= Len(list[t])
  BY <1>2, <1>3
<1>5. n \in KnownNames(setup) /\ n \in Seq(Word)
  BY <1>1, <1>2, <1>4, EntryIs
<1>6. Kind[s] # "pst" /\ Writable \subseteq Side /\ Writable' = Writable
  BY <1>1, WritableIs DEF Types, Writable
<1>7. /\ q \in Pair /\ q["a"] = n /\ q["b"] = n /\ q.from[s] = 0 /\ q.from[t] = k
  BY <1>2, <1>4, <1>5, PairIs DEF Side
<1>8. /\ pairs' \in Seq(Pair) /\ DOMAIN pairs' = DOMAIN pairs \cup {z} /\ z \notin DOMAIN pairs
      /\ \A p \in DOMAIN pairs : pairs'[p] = pairs[p]
      /\ pairs'[z] = q
  BY <1>1, <1>7, PairAdded
<1>9. /\ exists' \in [Side -> SUBSET Folder] /\ \A x \in Side : IsFiniteSet(exists'[x])
      /\ \A x \in Side : exists[x] \subseteq exists'[x]
      /\ \A x \in Side : \A f \in exists'[x] \ exists[x] :
           x = s /\ f.name = Native(s, n) /\ ~EqualFold(n, Inbox)
      /\ ~EqualFold(n, Inbox) => \E f \in exists'[s] : f.name = Native(s, n)
      /\ Distinct' /\ Servers' /\ Spelled'
  <2>1. CASE Taken(s, n) \/ EqualFold(n, Inbox)
    <3>1. exists' = exists
      BY <2>1
    <3>2. Distinct' /\ Servers' /\ Spelled'
      BY <3>1, FoldersStay
    <3> QED
      BY <1>1, <2>1, <3>1, <3>2 DEF Types, Taken
  <2>2. CASE ~Taken(s, n) /\ ~EqualFold(n, Inbox)
    <3>1. /\ exists'[s] = exists[s] \cup {Made(s, n)} /\ \A x \in Side : x # s => exists'[x] = exists[x]
          /\ exists' \in [Side -> SUBSET Folder] /\ \A x \in Side : IsFiniteSet(exists'[x])
          /\ Distinct' /\ Servers' /\ Spelled'
      BY <1>5, <1>6, <2>2, MadeStep
    <3>2. Made(s, n).name = Native(s, n)
      BY DEF Made
    <3> QED
      BY <2>2, <3>1, <3>2
  <2> QED
    BY <2>1, <2>2
<1>10. PlainNames(setup)' /\ OneInbox(setup)'
  BY DEF Inv
<1>11. Types'
  <2>1. pos + 1 \in Nat /\ pos + 1 <= Len(list[t])
    BY <1>3, <1>4
  <2> QED
    BY <1>1, <1>2, <1>8, <1>9, <2>1 DEF Types, Peer
<1>12. Listed'
  BY <1>9, ListedStays
<1>13. Covered'
  <2>1. ASSUME NEW x \in Side, NEW f \in filterFolders(x)'
        PROVE  \/ \E l \in DOMAIN list[x] : list[x][l] = Info(x, f)
               \/ \E p \in DOMAIN pairs' : /\ pairs'[p].from[x] = 0
                                           /\ f.name = Native(x, pairs'[p][x])
                                           /\ ~EqualFold(pairs'[p][x], Inbox)
    <3>1. f \in exists'[x] /\ Selectable(f) /\ ~isExcluded(x, f)
      BY <2>1, FilterNext
    <3>2. CASE f \in exists[x]
      <4>1. f \in filterFolders(x)
        BY ONLY <3>1, <3>2 DEF filterFolders
      <4>2. pc # "idle"
        BY DEF Side
      <4>3. Covered
        BY DEF Inv
      <4>4. CASE \E p \in DOMAIN pairs : /\ pairs[p].from[x] = 0
                                         /\ f.name = Native(x, pairs[p][x])
                                         /\ ~EqualFold(pairs[p][x], Inbox)
        BY ONLY <1>8, <4>4
      <4> QED
        BY ONLY <2>1, <4>1, <4>2, <4>3, <4>4 DEF Covered
    <3>3. CASE f \notin exists[x]
      <4>1. x = s /\ f.name = Native(s, n) /\ ~EqualFold(n, Inbox)
        BY ONLY <1>9, <2>1, <3>1, <3>3
      <4>2. pairs'[z].from[x] = 0 /\ pairs'[z][x] = n
        BY <1>7, <1>8, <4>1 DEF Side
      <4> QED
        BY ONLY <1>8, <4>1, <4>2
    <3> QED
      BY ONLY <3>2, <3>3
  <2>2. \A x \in Side : \A f : Info(x, f)' = Info(x, f)
    BY FilterNext
  <2> QED
    BY ONLY <1>0, <2>1, <2>2 DEF Covered, Native
<1>14. CreatedPair(z, s)'
  <2>1. pairs'[z].from[t] = k /\ pairs'[z].from[s] = 0 /\ pairs'[z]["a"] = n /\ pairs'[z]["b"] = n
    BY <1>7, <1>8
  <2>2. k \in DOMAIN list[t] \ Matched(t)' /\ n = list[t][k].name
    BY <1>4 DEF Matched
  <2>3. (\E f \in exists'[s] : f.name = Native(s, n)) \/ (Kind[s] = "maildir" /\ EqualFold(n, Inbox))
    BY <1>9
  <2>4. Kind[s] = "imap" => ~EqualFold(n, Inbox) /\ \A j \in DOMAIN list[s] : list[s][j].native # Native(s, n)
    <3> SUFFICES ASSUME Kind[s] = "imap", NEW j \in DOMAIN list[s] PROVE list[s][j].native # Native(s, n)
      OBVIOUS
    <3>1. \E f \in exists[s] : list[s][j].native = f.name
      BY <1>1, EntryIs
    <3> QED
      BY <3>1 DEF Taken
  <2> QED
    BY <1>6, <2>1, <2>2, <2>3, <2>4 DEF CreatedPair, Kind, Native
<1>15. \A p \in DOMAIN pairs' : MatchedPair(p)' \/ \E x \in Side : CreatedPair(p, x)'
  <2>1. ASSUME NEW p \in DOMAIN pairs PROVE MatchedPair(p)' \/ \E x \in Side : CreatedPair(p, x)'
    <3>1. CASE MatchedPair(p)
      BY <1>8, <3>1, MatchedStays
    <3>2. ASSUME NEW x \in Side, CreatedPair(p, x) PROVE CreatedPair(p, x)'
      BY <1>8, <1>9, <3>2, CreatedStays
    <3> QED
      BY <3>1, <3>2 DEF Inv, Origins
  <2> QED
    BY <1>8, <1>14, <2>1
<1>16. \A p \in DOMAIN pairs : pairs[p].from["a"] \in Nat /\ pairs[p].from["b"] \in Nat
  <2>1. pairs \in Seq(Pair)
    BY <1>1 DEF Types
  <2>2. \A p \in DOMAIN pairs : pairs[p] \in Pair
    BY <2>1
  <2> QED
    BY <2>2 DEF Pair
<1>17. Origins'
  <2>1. CASE pc = "b"
    <3>1. t = "a" /\ s = "b"
      BY <2>1 DEF Peer
    <3>2. \A p \in DOMAIN pairs : /\ pairs[p].from["a"] # 0
                                  /\ pairs[p].from["b"] = 0 => pairs[p].from["a"] <= pos
      BY ONLY Inv, <2>1 DEF Inv, Origins
    <3>3. \A p \in DOMAIN pairs' : /\ pairs'[p].from["a"] # 0
                                   /\ pairs'[p].from["b"] = 0 => pairs'[p].from["a"] <= pos + 1
      <4>1. q.from["b"] = 0 /\ q.from["a"] = pos + 1 /\ pos + 1 # 0
        BY <1>4, <1>7, <3>1
      <4> QED
        BY ONLY <1>3, <1>8, <1>16, <3>2, <4>1
    <3> QED
      BY ONLY <1>0, <1>15, <2>1, <3>3 DEF Origins
  <2>2. CASE pc = "a"
    <3>1. t = "b" /\ s = "a"
      BY <2>2 DEF Peer
    <3>2. \A p \in DOMAIN pairs : pairs[p].from["a"] = 0 => pairs[p].from["b"] <= pos
      BY ONLY Inv, <2>2 DEF Inv, Origins
    <3>3. \A p \in DOMAIN pairs' : pairs'[p].from["a"] = 0 => pairs'[p].from["b"] <= pos + 1
      <4>1. q.from["b"] = pos + 1
        BY <1>7, <3>1
      <4> QED
        BY ONLY <1>3, <1>8, <1>16, <3>2, <4>1
    <3> QED
      BY ONLY <1>0, <1>15, <2>2, <3>3 DEF Origins
  <2> QED
    BY <2>1, <2>2 DEF Side
<1>18. \A p \in DOMAIN pairs : pairs[p].from[t] # k
  <2> SUFFICES ASSUME NEW p \in DOMAIN pairs, pairs[p].from[t] = k PROVE FALSE
    OBVIOUS
  <2>1. ~MatchedPair(p)
    BY <1>2, <1>4 DEF MatchedPair, Matched, Side
  <2>2. ~CreatedPair(p, t)
    BY <1>4 DEF CreatedPair
  <2>3. CreatedPair(p, s)
    BY <1>2, <2>1, <2>2 DEF Inv, Origins
  <2>4. pairs[p].from[s] = 0
    BY <2>3 DEF CreatedPair
  <2>5. k <= pos
    BY <1>2, <2>4 DEF Inv, Origins, Side
  <2> QED
    BY <1>3, <2>5
<1>19. Once'
  <2>1. ASSUME NEW x \in Side, NEW p \in DOMAIN pairs', NEW o \in DOMAIN pairs', p # o,
               pairs'[p].from[x] = pairs'[o].from[x]
        PROVE  pairs'[p].from[x] = 0
    <3>1. CASE p \in DOMAIN pairs /\ o \in DOMAIN pairs
      <4>1. Once
        BY DEF Inv
      <4> QED
        BY ONLY <1>8, <2>1, <3>1, <4>1 DEF Once
    <3>2. ASSUME NEW v \in DOMAIN pairs, pairs[v].from[x] = q.from[x] PROVE q.from[x] = 0
      BY ONLY <1>2, <1>7, <1>18, <2>1, <3>2
    <3>3. CASE p = z \/ o = z
      BY ONLY <1>8, <2>1, <3>2, <3>3
    <3> QED
      BY ONLY <1>8, <2>1, <3>1, <3>3
  <2> QED
    BY ONLY <2>1 DEF Once
<1>20. Kept'
  <2>1. Kept /\ \A y : Matched(y)' = Matched(y)
    BY DEF Inv, Matched
  <2> QED
    BY ONLY <1>8, <2>1 DEF Kept
<1>21. Unlike'
  <2>1. Unlike /\ pc \in {"a", "b"}
    BY DEF Inv, Side
  <2>2. matchedA' = matchedA /\ usedB' = usedB
    OBVIOUS
  <2> QED
    BY ONLY <1>0, <2>1, <2>2 DEF Unlike, SameUse
<1>22. NoneLeft'
  <2>1. failed' = failed /\ \A y : Matched(y)' = Matched(y)
    BY DEF Matched
  <2>2. ASSUME failed = "no", NEW x \in Writable, NEW l \in Treated(x)', l \notin Matched(Peer(x))
        PROVE  \E p \in DOMAIN pairs' : pairs'[p].from[Peer(x)] = l
    <3>1. x \in Side
      BY <1>6
    <3>2. CASE x = s /\ l = k
      BY ONLY <1>0, <1>7, <1>8, <3>2
    <3>3. CASE ~(x = s /\ l = k)
      <4>1. l \in DOMAIN list[Peer(x)] /\ l \in Nat
        BY <1>3, <2>2, <3>1 DEF Treated, Side, Peer
      <4>2. x = s /\ l <= pos + 1 => l <= pos
        BY <1>3, <3>3, <4>1
      <4>3. l \in Treated(x)
        BY <2>2, <3>1, <4>1, <4>2 DEF Treated, Side, Peer
      <4>4. \E p \in DOMAIN pairs : pairs[p].from[Peer(x)] = l
        BY <2>2, <4>3 DEF Inv, NoneLeft
      <4> QED
        BY ONLY <1>8, <4>4
    <3> QED
      BY <3>2, <3>3
  <2> QED
    BY ONLY <1>6, <2>1, <2>2 DEF NoneLeft
<1> QED
  BY <1>9, <1>10, <1>11, <1>12, <1>13, <1>17, <1>19, <1>20, <1>21, <1>22 DEF Inv

\* An iteration of pairFolders
LEMMA PairStep ==
  ASSUME Inv, NEW s \in Side, pc = s, pairFolders(s),
         UNCHANGED <<setup, pc, list, matchedA, usedB, passes>>
  PROVE  Inv'
<1> PICK k, n : k = pos + 1 /\ n = list[Peer(s)][k].name
  OBVIOUS
<1>1. Matched(Peer(s)) = IF s = "b" THEN matchedA ELSE usedB
  BY DEF Matched, Peer, Side
<1>2. /\ pos < Len(list[Peer(s)]) /\ pos' = pos + 1
      /\ IF k \notin Matched(Peer(s)) /\ s \in Writable
         THEN CreateFolder(s, n, k) ELSE UNCHANGED <<exists, pairs, failed>>
  BY <1>1 DEF pairFolders
<1>3. failed \in {"no", "yes"}
  BY DEF Inv, Types
<1>4. CASE ~(k \notin Matched(Peer(s)) /\ s \in Writable)
  BY <1>2, <1>3, <1>4, SkipStep
<1>5. CASE k \notin Matched(Peer(s)) /\ s \in Writable
  <2>1. CASE failed' = "yes" /\ UNCHANGED <<exists, pairs>>
    BY <1>2, <2>1, SkipStep
  <2>2. CASE /\ Kind[s] = "maildir" \/ (~Taken(s, n) /\ ~EqualFold(n, Inbox))
             /\ exists' = IF Taken(s, n) \/ EqualFold(n, Inbox) THEN exists
                          ELSE [exists EXCEPT ![s] = @ \cup {Made(s, n)}]
             /\ pairs' = Append(pairs, IF s = "b" THEN PairOf(n, n, k, 0) ELSE PairOf(n, n, 0, k))
             /\ UNCHANGED failed
    BY <1>2, <1>5, <2>2, CreateStep
  <2> QED
    BY <1>2, <1>5, <2>1, <2>2 DEF CreateFolder, Taken, Made
<1> QED
  BY <1>4, <1>5

\* A step that changes nothing
LEMMA StutterStep ==
  ASSUME Inv, UNCHANGED vars
  PROVE  Inv'
<1>1. UNCHANGED <<setup, exists, pc, list, pos, matchedA, usedB, pairs, passes, failed>>
  BY DEF vars, loopVars
<1>2. /\ PlainNames(setup)' /\ OneInbox(setup)' /\ Distinct' /\ Servers' /\ Spelled'
  BY <1>1, FoldersStay
<1>3. Types'
  BY <1>1 DEF Inv, Types
<1>4. Once' /\ Kept' /\ Listed' /\ (pc # "idle" => Covered')
      /\ \A p \in DOMAIN pairs' : MatchedPair(p)' \/ \E s \in Side : CreatedPair(p, s)'
  BY <1>1, PairsStay
<1>5. \A p \in DOMAIN pairs : MatchedPair(p) => MatchedPair(p)'
  BY <1>1, MatchedStays
<1>6. Origins' /\ Covered'
  BY <1>1, <1>4, <1>5 DEF Inv, Origins, Covered
<1>7. Unlike'
  BY <1>1 DEF Inv, Unlike, SameUse
<1>8. NoneLeft'
  BY <1>1 DEF Inv, NoneLeft, Writable, Treated, Matched
<1> QED
  BY <1>2, <1>3, <1>4, <1>6, <1>7, <1>8 DEF Inv

\* Every step
LEMMA NextStep == Inv /\ [Next]_vars => Inv'
<1> SUFFICES ASSUME Inv, [Next]_vars PROVE Inv'
  OBVIOUS
<1>1. CASE UNCHANGED vars
  BY <1>1, StutterStep
<1>2. CASE ListFolders /\ UNCHANGED setup
  BY <1>2, ListStep
<1>3. CASE MatchFolders /\ UNCHANGED setup
  <2>1. UNCHANGED <<setup, exists, list, passes, failed>>
    BY <1>3 DEF MatchFolders
  <2>2. CASE pc \in {"use", "name"} /\ pos < Len(list["a"]) /\ MatchStep /\ UNCHANGED pc
    <3>1. CASE Partner(pos + 1) = {} /\ UNCHANGED <<matchedA, usedB, pairs>>
      BY <2>1, <2>2, <3>1, PassStep DEF MatchStep
    <3>2. ASSUME NEW j \in Partner(pos + 1), matchedA' = matchedA \cup {pos + 1}, usedB' = usedB \cup {j},
                 pairs' = Append(pairs, PairOf(list["a"][pos + 1].name, list["b"][j].name, pos + 1, j))
          PROVE  Inv'
      BY <2>1, <2>2, <3>2, MatchedStep DEF MatchStep
    <3> QED
      BY <2>2, <3>1, <3>2 DEF MatchStep
  <2>3. CASE /\ pc \in {"use", "name"} /\ pos = Len(list["a"])
             /\ pc' = IF pc = "use" THEN "name" ELSE "b"
             /\ pos' = 0 /\ UNCHANGED <<matchedA, usedB, pairs>>
    BY <2>1, <2>3, TurnStep
  <2> QED
    BY <1>3, <2>2, <2>3 DEF MatchFolders
<1>4. CASE CreateMissing /\ UNCHANGED setup
  <2>1. UNCHANGED <<setup, list, matchedA, usedB, passes>>
    BY <1>4 DEF CreateMissing
  <2>2. ASSUME NEW s \in Side, pc = s, pairFolders(s), UNCHANGED pc
        PROVE  Inv'
    BY <2>1, <2>2, PairStep
  <2>3. CASE pc = "b" /\ pos = Len(list["a"]) /\ pc' = "a" /\ pos' = 0 /\ UNCHANGED <<exists, pairs, failed>>
    BY <2>1, <2>3, TurnStep
  <2>4. CASE pc = "a" /\ pos = Len(list["b"]) /\ pc' = "done" /\ UNCHANGED <<exists, pairs, failed, pos>>
    BY <2>1, <2>4, TurnStep
  <2> QED
    BY <1>4, <2>2, <2>3, <2>4 DEF CreateMissing
<1> QED
  BY <1>1, <1>2, <1>3, <1>4 DEF Next

-----------------------------------------------------------------------------
(* The names of the pairs *)

\* A pair that comes from an entry of a listing has its name
LEMMA FromListed ==
  ASSUME Inv, NEW s \in Side, NEW p \in DOMAIN pairs, pairs[p].from[s] # 0
  PROVE  /\ pairs[p].from[s] \in DOMAIN list[s]
         /\ pairs[p][s] = list[s][pairs[p].from[s]].name
<1>1. matchedA \subseteq DOMAIN list["a"] /\ usedB \subseteq DOMAIN list["b"]
  BY DEF Inv, Types
<1>2. CASE MatchedPair(p)
  BY <1>1, <1>2 DEF MatchedPair, Side
<1>3. ASSUME NEW x \in Side, CreatedPair(p, x)
      PROVE  /\ pairs[p].from[s] \in DOMAIN list[s]
             /\ pairs[p][s] = list[s][pairs[p].from[s]].name
  <2>1. Peer(x) = s
    BY <1>3 DEF CreatedPair, Side, Peer
  <2> QED
    BY <1>3, <2>1 DEF CreatedPair, Side
<1> QED
  BY <1>2, <1>3 DEF Inv, Origins

\* The others were created
LEMMA FromNothing ==
  ASSUME Inv, NEW s \in Side, NEW p \in DOMAIN pairs, pairs[p].from[s] = 0
  PROVE  CreatedPair(p, s)
<1>1. \A x \in Side : 0 \notin DOMAIN list[x]
  BY DEF Inv, Types
<1>2. 0 \notin matchedA /\ 0 \notin usedB
  BY <1>1 DEF Inv, Types, Side
<1>3. ~MatchedPair(p)
  BY <1>2 DEF MatchedPair, Side
<1>4. ASSUME NEW x \in Side, CreatedPair(p, x) PROVE x = s
  <2>1. x # s => Peer(x) = s
    BY DEF Side, Peer
  <2> QED
    BY <1>1, <1>4, <2>1 DEF CreatedPair
<1> QED
  BY <1>3, <1>4 DEF Inv, Origins

\* An entry of a listing leads to its folder
LEMMA EntryExact ==
  ASSUME Inv, NEW s \in Side, NEW f \in exists[s]
  PROVE  LET n == Canonical(s, f.name)
         IN \/ f.name = Native(s, n)
            \/ Kind[s] # "pst" /\ EqualFold(n, Inbox) /\ EqualFold(f.name, Inbox)
<1>1. setup \in Setups /\ f.name \in Seq(Word)
  BY CurrentSetup DEF Inv
<1>2. Delim[s] = "." => "/" \notin Range(f.name)
  BY DEF Inv, Spelled
<1>3. CASE Kind[s] = "pst" \/ ~EqualFold(f.name, Inbox)
  BY <1>1, <1>2, <1>3, NativeCanonical DEF Canonical, Native, Kind, Delim
<1>4. CASE Kind[s] # "pst" /\ EqualFold(f.name, Inbox)
  BY <1>1, <1>4, CanonicalIs DEF Canonical, Kind
<1> QED
  BY <1>3, <1>4

\* Every name of a pair leads to a folder
LEMMA PairExact ==
  ASSUME Inv, NEW s \in Side, NEW p \in DOMAIN pairs
  PROVE  /\ pairs[p][s] \in KnownNames(setup) /\ pairs[p][s] \in Seq(Word)
         /\ Exact(s, pairs[p][s])
<1>1. Types /\ Spelled /\ Listed /\ Servers
  BY DEF Inv
<1>2. CASE pairs[p].from[s] # 0
  <2> PICK k : k = pairs[p].from[s]
    OBVIOUS
  <2>1. k \in DOMAIN list[s] /\ pairs[p][s] = list[s][k].name
    BY <1>2, FromListed
  <2>2. /\ list[s][k].name \in KnownNames(setup) /\ list[s][k].name \in Seq(Word)
        /\ \E f \in exists[s] : list[s][k].name = Canonical(s, f.name)
    BY <1>1, <2>1, EntryIs
  <2>3. PICK f \in exists[s] : list[s][k].name = Canonical(s, f.name)
    BY <2>2
  <2>4. Exact(s, list[s][k].name)
    BY <2>3, EntryExact DEF Exact
  <2> QED
    BY <2>1, <2>2, <2>4
<1>3. CASE pairs[p].from[s] = 0
  <2>1. CreatedPair(p, s)
    BY <1>3, FromNothing
  <2> PICK k : k = pairs[p].from[Peer(s)]
    OBVIOUS
  <2>2. /\ k \in DOMAIN list[Peer(s)] /\ pairs[p][s] = list[Peer(s)][k].name
        /\ Exact(s, pairs[p][s])
    BY <2>1 DEF CreatedPair, Exact, Side
  <2>3. Peer(s) \in Side
    BY DEF Side, Peer
  <2> QED
    BY <1>1, <2>2, <2>3, EntryIs
<1> QED
  BY <1>2, <1>3

-----------------------------------------------------------------------------
(* Theorems *)

(***************************************************************************)
(* In setups with plain names and one INBOX to a server the listings show  *)
(* every folder once, each pair comes from a match or from the creation of *)
(* a folder, no listed folder is in two pairs and what the loops leave     *)
(* over matches nothing (matchFolders, pairFolders).                       *)
(***************************************************************************)
THEOREM Invariance ==
  ASSUME \A c \in Setups : PlainNames(c) /\ OneInbox(c)
  PROVE  Spec => []Inv
<1>1. Init => Inv
  <2>1. Init => PlainNames(setup) /\ OneInbox(setup)
    BY DEF Init
  <2> QED
    BY <2>1, InitInv
<1> QED
  BY <1>1, NextStep, PTL DEF Spec

\* TypeOK: what the folders, the lists and the pairs are made of (resolveFolders)
THEOREM TypeCorrect ==
  ASSUME \A c \in Setups : PlainNames(c) /\ OneInbox(c)
  PROVE  Spec => []TypeOK
<1>1. Inv => TypeOK
  <2> SUFFICES ASSUME Inv PROVE TypeOK
    OBVIOUS
  <2>1. \A s \in Side : \A f \in exists[s] : f.name \in ServerNames(setup, s) /\ f.use \in Uses
    BY DEF Inv, Types, Folder, Spelled
  <2>2. Len(list["a"]) \in Nat /\ Len(list["b"]) \in Nat
    BY DEF Inv, Types, Side
  <2>3. pos \in Nat /\ (pos = 0 \/ pos <= Len(list["a"]) \/ pos <= Len(list["b"]))
    BY DEF Inv, Types
  <2>4. ASSUME NEW x \in Nat, NEW y \in Nat, NEW z \in Nat, z = 0 \/ z <= x \/ z <= y
        PROVE  z \in 0..(x + y)
    BY <2>4
  <2>5. pos \in 0..(Len(list["a"]) + Len(list["b"]))
    BY <2>2, <2>3, <2>4
  <2> QED
    BY <2>1, <2>5 DEF Inv, Types, TypeOK
<1> QED
  BY <1>1, Invariance, PTL

(***************************************************************************)
(* EverythingPaired: after a cycle in which every folder could be created  *)
(* each listed folder that the other side may be given has a pair that     *)
(* makes Select open it and no other, and every name of a pair leads to a  *)
(* folder, for any attributes and orders of the listings and any setups    *)
(* whose names hold no separator of the other side.  Excepted are the      *)
(* folders Shadowed names, and nothing else: the later ones of an archive  *)
(* with one name and subfolders that differ only in case (pairFolders,     *)
(* ResolveFolder, folderPath, resolvePSTFolder).                           *)
(***************************************************************************)
THEOREM NothingLeftOut ==
  ASSUME \A c \in Setups : PlainNames(c) /\ OneInbox(c)
  PROVE  Spec => []EverythingPaired
<1>1. Inv => EverythingPaired
  <2> SUFFICES ASSUME Inv, pc = "done", failed = "no"
               PROVE  /\ \A s \in Side : Peer(s) \in Writable =>
                           \A f \in filterFolders(s) :
                             Shadowed(s, f) \/ \E p \in DOMAIN pairs : Resolve(s, pairs[p][s]) = {f}
                      /\ \A p \in DOMAIN pairs : \A s \in Side : Resolve(s, pairs[p][s]) # {}
    BY DEF EverythingPaired
  <2>1. Types /\ Servers /\ Distinct /\ Spelled /\ Listed /\ PlainNames(setup)
    BY DEF Inv
  <2>2. ASSUME NEW s \in Side, Peer(s) \in Writable, NEW f \in filterFolders(s), ~Shadowed(s, f)
        PROVE  \E p \in DOMAIN pairs : Resolve(s, pairs[p][s]) = {f}
    <3>1. f \in exists[s] /\ Peer(Peer(s)) = s
      BY DEF filterFolders, Side, Peer
    <3>2. ASSUME NEW p \in DOMAIN pairs, f.name = Native(s, pairs[p][s])
          PROVE  Resolve(s, pairs[p][s]) = {f}
      BY <2>1, <2>2, <3>1, <3>2, PairExact, ResolveOnly
    <3>3. ASSUME NEW k \in DOMAIN list[s], list[s][k] = Info(s, f)
          PROVE  \E p \in DOMAIN pairs : Resolve(s, pairs[p][s]) = {f}
      <4>1. k # 0 /\ list[s][k].name = Canonical(s, f.name)
        BY <2>1, <3>1, <3>3, EntryIs, InfoIs
      <4>2. \E p \in DOMAIN pairs : pairs[p].from[s] = k
        <5>1. CASE k \in Matched(s)
          BY <5>1 DEF Inv, Kept
        <5>2. CASE k \notin Matched(s)
          <6>1. k \in Treated(Peer(s))
            BY <3>1 DEF Treated
          <6> QED
            BY <2>2, <3>1, <5>2, <6>1 DEF Inv, NoneLeft
        <5> QED
          BY <5>1, <5>2
      <4>3. PICK p \in DOMAIN pairs : pairs[p].from[s] = k
        BY <4>2
      <4>4. pairs[p][s] = Canonical(s, f.name)
        BY <4>1, <4>3, FromListed
      <4>5. \/ f.name = Native(s, pairs[p][s])
            \/ Kind[s] # "pst" /\ EqualFold(pairs[p][s], Inbox) /\ EqualFold(f.name, Inbox)
        BY <3>1, <4>4, EntryExact
      <4>6. pairs[p][s] \in KnownNames(setup)
        BY PairExact
      <4>7. Resolve(s, pairs[p][s]) = {f}
        BY <2>1, <2>2, <3>1, <4>5, <4>6, ResolveOnly
      <4> QED
        BY <4>7
    <3> QED
      BY <3>2, <3>3 DEF Inv, Covered
  <2>3. ASSUME NEW p \in DOMAIN pairs, NEW s \in Side PROVE Resolve(s, pairs[p][s]) # {}
    <3>1. pairs[p][s] \in Seq(Word) /\ Exact(s, pairs[p][s])
      BY PairExact
    <3>2. \E f \in exists[s] : \/ f.name = Native(s, pairs[p][s])
                               \/ /\ Kind[s] # "pst" /\ EqualFold(pairs[p][s], Inbox)
                                  /\ EqualFold(f.name, Inbox)
      BY <2>1, <3>1 DEF Exact, Servers
    <3> QED
      BY <2>1, <3>1, <3>2, ResolveFinds
  <2> QED
    BY <2>2, <2>3
<1> QED
  BY <1>1, Invariance, PTL

-----------------------------------------------------------------------------
(* Folders that go together *)

GroupInv == Inv /\ Regular(setup) /\ Groups

\* One attribute to a name
LEMMA TogetherIs ==
  ASSUME Inv, Grouped(setup),
         NEW n \in KnownNames(setup), NEW m \in KnownNames(setup), NEW o \in KnownNames(setup)
  PROVE  /\ Together(setup, n, m) => Together(setup, m, n)
         /\ Together(setup, n, m) /\ Together(setup, m, o) => Together(setup, n, o)
<1>1. setup \in Setups
  BY DEF Inv, Types
<1>2. \A x \in KnownNames(setup) : \A u, v \in UsesOf(setup, x) : u = v
  BY DEF Grouped, Kind
<1> QED
  BY <1>1, <1>2, TogetherOnce

\* Folders that are alike go together
LEMMA InfoTogether ==
  ASSUME Inv, UsesKnown, NEW s \in Side, NEW t \in Side,
         NEW f \in exists[s], NEW g \in exists[t], Alike(Info(s, f), Info(t, g))
  PROVE  Together(setup, Canonical(s, f.name), Canonical(t, g.name))
<1>1. Info(s, f).name = Canonical(s, f.name) /\ Info(s, f).use = f.use
  BY InfoIs DEF Inv
<1>2. Info(t, g).name = Canonical(t, g.name) /\ Info(t, g).use = g.use
  BY InfoIs DEF Inv
<1>3. f.use # None => f.use \in UsesOf(setup, Canonical(s, f.name))
  BY DEF UsesKnown
<1>4. g.use # None => g.use \in UsesOf(setup, Canonical(t, g.name))
  BY DEF UsesKnown
<1> QED
  BY <1>1, <1>2, <1>3, <1>4 DEF Alike, SameUse, Together

\* Entries that match go together
LEMMA AlikeTogether ==
  ASSUME Inv, UsesKnown, NEW s \in Side, NEW t \in Side,
         NEW i \in DOMAIN list[s], NEW j \in DOMAIN list[t], Alike(list[s][i], list[t][j])
  PROVE  Together(setup, list[s][i].name, list[t][j].name)
<1>1. Types /\ Spelled /\ Listed
  BY DEF Inv
<1>2. PICK f \in exists[s] : list[s][i].name = Canonical(s, f.name) /\ list[s][i] = Info(s, f)
  BY <1>1, EntryIs
<1>3. PICK g \in exists[t] : list[t][j].name = Canonical(t, g.name) /\ list[t][j] = Info(t, g)
  BY <1>1, EntryIs
<1> QED
  BY <1>2, <1>3, InfoTogether

\* What a matched entry is matched with
LEMMA MatchedWith ==
  ASSUME Inv, NEW s \in Side, NEW j \in Matched(s)
  PROVE  \E i \in Matched(Peer(s)) : /\ i \in DOMAIN list[Peer(s)] /\ j \in DOMAIN list[s]
                                     /\ Alike(list[Peer(s)][i], list[s][j])
                                     /\ \E p \in DOMAIN pairs : /\ pairs[p].from[s] = j
                                                               /\ pairs[p].from[Peer(s)] = i
<1>1. PICK p \in DOMAIN pairs : pairs[p].from[s] = j
  BY DEF Inv, Kept
<1>2. ASSUME NEW x \in Side, CreatedPair(p, x) PROVE FALSE
  <2>1. j # 0
    BY DEF Inv, Types, Matched, Side
  <2>2. Peer(x) = s
    BY <1>1, <1>2, <2>1 DEF CreatedPair, Side, Peer
  <2> QED
    BY <1>1, <1>2, <2>2 DEF CreatedPair
<1>3. MatchedPair(p)
  BY <1>2 DEF Inv, Origins
<1>4. matchedA \subseteq DOMAIN list["a"] /\ usedB \subseteq DOMAIN list["b"]
  BY DEF Inv, Types
<1>5. CASE s = "a"
  <2>1. /\ pairs[p].from["b"] \in usedB
        /\ Alike(list["b"][pairs[p].from["b"]], list["a"][j])
    BY <1>1, <1>3, <1>5 DEF MatchedPair, Alike, SameUse, EqualFold
  <2> QED
    BY <1>1, <1>4, <1>5, <2>1 DEF Matched, Peer
<1>6. CASE s = "b"
  <2>1. /\ pairs[p].from["a"] \in matchedA
        /\ Alike(list["a"][pairs[p].from["a"]], list["b"][j])
    BY <1>1, <1>3, <1>6 DEF MatchedPair
  <2> QED
    BY <1>1, <1>4, <1>6, <2>1 DEF Matched, Peer
<1> QED
  BY <1>5, <1>6 DEF Side

\* What is left over on the two sides is unlike, seen from either
LEMMA UnlikeIs ==
  ASSUME Inv, pc \in {"b", "a", "done"}, NEW s \in Side,
         NEW i \in DOMAIN list[s] \ Matched(s), NEW j \in DOMAIN list[Peer(s)] \ Matched(Peer(s))
  PROVE  ~Alike(list[s][i], list[Peer(s)][j])
<1>1. CASE s = "a"
  <2>1. i \in DOMAIN list["a"] \ matchedA /\ j \in DOMAIN list["b"] \ usedB
    BY <1>1 DEF Matched, Peer
  <2>2. ~SameUse(list["a"][i], list["b"][j]) /\ ~EqualFold(list["a"][i].name, list["b"][j].name)
    BY <2>1 DEF Inv, Unlike
  <2> QED
    BY <1>1, <2>2 DEF Alike, Peer
<1>2. CASE s = "b"
  <2>1. i \in DOMAIN list["b"] \ usedB /\ j \in DOMAIN list["a"] \ matchedA
    BY <1>2 DEF Matched, Peer
  <2>2. ~SameUse(list["a"][j], list["b"][i]) /\ ~EqualFold(list["a"][j].name, list["b"][i].name)
    BY <2>1 DEF Inv, Unlike
  <2> QED
    BY <1>2, <2>2 DEF Alike, Peer, SameUse, EqualFold
<1> QED
  BY <1>1, <1>2 DEF Side

\* Two folders of a server have different names, and are not both the INBOX
LEMMA ServerApart ==
  ASSUME Inv, NEW s \in Side, Kind[s] # "pst", NEW f \in exists[s], NEW g \in exists[s], f # g
  PROVE  /\ Canonical(s, f.name) # Canonical(s, g.name)
         /\ ~(EqualFold(Canonical(s, f.name), Inbox) /\ EqualFold(Canonical(s, g.name), Inbox))
<1>1. setup \in Setups /\ f.name \in Seq(Word) /\ g.name \in Seq(Word)
  BY CurrentSetup DEF Inv
<1>2. /\ EqualFold(Canonical(s, f.name), Inbox) <=> EqualFold(f.name, Inbox)
      /\ EqualFold(Canonical(s, g.name), Inbox) <=> EqualFold(g.name, Inbox)
  BY <1>1, CanonicalIs DEF Canonical
<1>3. ~(EqualFold(f.name, Inbox) /\ EqualFold(g.name, Inbox)) /\ f.no = 0 /\ g.no = 0
  BY DEF Inv, Servers
<1>4. f.name # g.name
  BY <1>3 DEF Inv, Distinct
<1>5. ASSUME Canonical(s, f.name) = Canonical(s, g.name) PROVE FALSE
  <2>1. ~EqualFold(f.name, Inbox) /\ ~EqualFold(g.name, Inbox)
    BY <1>2, <1>3, <1>5
  <2>2. f.name = Native(s, Canonical(s, f.name))
    BY <2>1, EntryExact
  <2>3. g.name = Native(s, Canonical(s, g.name))
    BY <2>1, EntryExact
  <2> QED
    BY <1>4, <1>5, <2>2, <2>3
<1> QED
  BY <1>2, <1>3, <1>5

\* A server lists no name twice, and one INBOX
LEMMA EntriesApart ==
  ASSUME Inv, NEW s \in Side, Kind[s] # "pst", NEW k \in DOMAIN list[s], NEW l \in DOMAIN list[s], k # l
  PROVE  /\ list[s][k].name # list[s][l].name
         /\ ~(EqualFold(list[s][k].name, Inbox) /\ EqualFold(list[s][l].name, Inbox))
<1>1. Types /\ Spelled /\ Listed
  BY DEF Inv
<1>2. PICK f \in exists[s] : list[s][k] = Info(s, f) /\ list[s][k].name = Canonical(s, f.name)
  BY <1>1, EntryIs
<1>3. PICK g \in exists[s] : list[s][l] = Info(s, g) /\ list[s][l].name = Canonical(s, g.name)
  BY <1>1, EntryIs
<1>4. f # g
  BY <1>1, <1>2, <1>3 DEF Listed
<1> QED
  BY <1>2, <1>3, <1>4, ServerApart

\* Folders of the two sides that go together, seen from either
LEMMA AcrossIs ==
  ASSUME Across, NEW s \in Side, NEW f \in filterFolders(s), NEW g \in filterFolders(Peer(s)),
         Together(setup, Canonical(s, f.name), Canonical(Peer(s), g.name))
  PROVE  EqualFold(Canonical(s, f.name), Canonical(Peer(s), g.name)) \/ SameUse(f, g)
<1>1. CASE s = "a"
  BY <1>1 DEF Across, Peer
<1>2. CASE s = "b"
  <2>1. Together(setup, Canonical("a", g.name), Canonical("b", f.name))
    BY <1>2 DEF Together, Peer, EqualFold
  <2>2. g \in filterFolders("a") /\ f \in filterFolders("b")
    BY <1>2 DEF Peer
  <2>3. EqualFold(Canonical("a", g.name), Canonical("b", f.name)) \/ SameUse(g, f)
    BY <2>1, <2>2 DEF Across
  <2> QED
    BY <1>2, <2>3 DEF EqualFold, SameUse, Peer
<1> QED
  BY <1>1, <1>2 DEF Side

\* Nothing changes as long as no folder is created
LEMMA GroupsStay ==
  ASSUME GroupInv, UNCHANGED <<setup, exists>>
  PROVE  Regular(setup)' /\ Groups'
<1>1. \A s \in Side : filterFolders(s)' = filterFolders(s)
  BY FoldersStay DEF GroupInv
<1>2. \A s \in Side : \A n : Canonical(s, n)' = Canonical(s, n)
  BY DEF Canonical
<1>3. UsesKnown => UsesKnown'
  BY <1>2 DEF UsesKnown
<1>4. Across => Across'
  BY <1>1, <1>2 DEF Across, Side, SameUse
<1>5. ASSUME NEW s \in Side, Lone(s) PROVE Lone(s)'
  BY <1>1, <1>2, <1>5 DEF Lone
<1>6. ASSUME NEW s \in Side, Kin(s) PROVE Kin(s)'
  <2>1. Peer(s) \in Side
    BY DEF Side, Peer
  <2> QED
    BY <1>1, <1>2, <1>6, <2>1 DEF Kin
<1> QED
  BY <1>3, <1>4, <1>5, <1>6 DEF GroupInv, Groups, Kind

\* The folders a cycle starts with
LEMMA GroupsInit ==
  ASSUME Init, Regular(setup)
  PROVE  GroupInv
<1>1. Inv
  BY InitInv DEF Regular
<1>2. \A s \in Side : exists[s] \subseteq setup.found[s] /\ filterFolders(s) \subseteq setup.found[s]
  BY DEF Init, Found, filterFolders
<1>3. UsesKnown
  <2> SUFFICES ASSUME NEW s \in Side, NEW f \in exists[s], f.use # None
               PROVE  f.use \in UsesOf(setup, Canonical(s, f.name))
    BY DEF UsesKnown
  <2>1. f \in Folder
    BY <1>1 DEF Inv, Types
  <2>2. f.use \in Uses \ {None}
    BY <2>1 DEF Folder
  <2> QED
    BY <1>2, <2>2 DEF UsesOf, Canonical, EqualFold
<1>4. Grouped(setup) => Across
  BY <1>2 DEF Grouped, Across, SameUse, Canonical, Side
<1>5. Grouped(setup) => \A s \in Side : Lone(s) /\ Kin(s)
  BY <1>2 DEF Grouped, Lone, Kin, Canonical
<1> QED
  BY <1>1, <1>3, <1>4, <1>5 DEF GroupInv, Groups

\* A folder is created on s for an entry without a partner: it goes together with nothing else
LEMMA GroupsCreate ==
  ASSUME GroupInv, Inv', NEW s \in Side, pc = s, UNCHANGED setup, s \in Writable,
         NEW k \in DOMAIN list[Peer(s)] \ Matched(Peer(s)), NEW n, n = list[Peer(s)][k].name,
         ~EqualFold(n, Inbox),
         exists'[s] = exists[s] \cup {Made(s, n)}, \A x \in Side : x # s => exists'[x] = exists[x]
  PROVE  Groups'
<1> SUFFICES ASSUME Grouped(setup)
             PROVE  UsesKnown' /\ Across' /\ \A x \in Side : Kin(x)' /\ (Kind[Peer(x)] # "pst" => Lone(x)')
  BY DEF Groups, Kind
<1> PICK t, new : t = Peer(s) /\ new = Made(s, n)
  OBVIOUS
<1>1. /\ Inv /\ Types /\ Spelled /\ Listed /\ Grouped(setup) /\ UsesKnown /\ Across
      /\ \A x \in Side : Kin(x) /\ (Kind[Peer(x)] # "pst" => Lone(x))
  BY DEF GroupInv, Groups, Inv
<1>2. t \in Side /\ Peer(t) = s /\ s # t /\ \A x \in Side : x = s \/ x = t
  BY DEF Side, Peer
<1>3. setup \in Setups /\ Kind[s] # "pst"
  BY <1>1, WritableIs DEF Types
<1>4. Lone(t)
  BY <1>1, <1>2, <1>3
<1>5. PICK e \in filterFolders(t) : /\ list[t][k] = Info(t, e) /\ e \in exists[t]
                                    /\ n = Canonical(t, e.name) /\ list[t][k].use = e.use
  BY <1>1, <1>2, EntryIs
<1>6. n \in KnownNames(setup) /\ n \in Seq(Word)
  BY <1>1, <1>2, EntryIs
<1>7. new.name = Native(s, n) /\ Canonical(s, new.name) = n
  BY <1>1, <1>6, MadeIs
<1>8. /\ \A x \in Side : \A m : Canonical(x, m)' = Canonical(x, m)
      /\ filterFolders(t)' = filterFolders(t)
      /\ \A f \in filterFolders(s)' : f = new \/ f \in filterFolders(s)
  BY <1>2, FilterNext DEF Canonical, filterFolders
<1>9. UsesKnown'
  <2> SUFFICES ASSUME NEW x \in Side, NEW f \in exists'[x], f.use # None
               PROVE  f.use \in UsesOf(setup, Canonical(x, f.name))
    BY <1>8 DEF UsesKnown
  <2>1. CASE f \in exists[x]
    BY <1>1, <2>1 DEF UsesKnown
  <2>2. CASE f = new /\ x = s
    <3>1. new.use = UseOf(Kind[s], Native(s, n)) /\ new \in Folder
      BY <1>1, <1>6, MadeIs DEF Made
    <3>2. new.use \in Uses \ {None}
      BY <2>2, <3>1 DEF Folder
    <3> QED
      BY <1>7, <2>2, <3>1, <3>2 DEF UsesOf, Kind, Native
  <2> QED
    BY <1>2, <2>1, <2>2
<1>10. ASSUME NEW g \in filterFolders(t), Together(setup, n, Canonical(t, g.name))
       PROVE  n = Canonical(t, g.name)
  BY <1>4, <1>5, <1>10 DEF Lone
<1>11. Across'
  <2> SUFFICES ASSUME NEW f \in filterFolders("a")', NEW g \in filterFolders("b")',
                      Together(setup, Canonical("a", f.name), Canonical("b", g.name))
               PROVE  EqualFold(Canonical("a", f.name), Canonical("b", g.name)) \/ SameUse(f, g)
    BY <1>8 DEF Across, SameUse, Side
  <2>1. CASE f \in filterFolders("a") /\ g \in filterFolders("b")
    BY <1>1, <2>1 DEF Across
  <2>2. CASE f = new /\ s = "a" /\ g \in filterFolders("b")
    <3>1. t = "b"
      BY <2>2 DEF Peer
    <3>2. n = Canonical("b", g.name)
      BY <1>7, <1>10, <2>2, <3>1
    <3> QED
      BY <1>7, <2>2, <3>2 DEF EqualFold
  <2>3. CASE g = new /\ s = "b" /\ f \in filterFolders("a")
    <3>1. t = "a"
      BY <2>3 DEF Peer
    <3>2. Together(setup, n, Canonical("a", f.name))
      BY <1>7, <2>3 DEF Together, EqualFold
    <3>3. n = Canonical("a", f.name)
      BY <1>10, <2>3, <3>1, <3>2
    <3> QED
      BY <1>7, <2>3, <3>3 DEF EqualFold
  <2> QED
    BY <1>2, <1>8, <2>1, <2>2, <2>3 DEF Side
<1>12. ASSUME Kind[t] # "pst", NEW f \in filterFolders(s), Together(setup, n, Canonical(s, f.name))
       PROVE  n = Canonical(s, f.name)
  <2>1. f \in exists[s] /\ pc # "idle" /\ pc \in {"b", "a", "done"}
    BY DEF filterFolders, Side
  <2>2. Canonical(s, f.name) \in KnownNames(setup)
    BY <1>1, <2>1 DEF Spelled
  <2>3. ASSUME NEW j \in DOMAIN list[s], list[s][j] = Info(s, f) PROVE FALSE
    <3>1. list[s][j].name = Canonical(s, f.name) /\ list[s][j].use = f.use
      BY <1>1, <2>1, <2>3, InfoIs
    <3>2. CASE j \notin Matched(s)
      <4>1. ~Alike(list[t][k], list[s][j])
        BY <1>1, <1>2, <2>1, <3>2, UnlikeIs
      <4>2. EqualFold(n, Canonical(s, f.name)) \/ SameUse(e, f)
        BY <1>1, <1>2, <1>5, <1>12, AcrossIs
      <4> QED
        BY <1>5, <3>1, <4>1, <4>2 DEF Alike, SameUse
    <3>3. CASE j \in Matched(s)
      <4>1. PICK i \in Matched(t) : i \in DOMAIN list[t] /\ Alike(list[t][i], list[s][j])
        BY <1>1, <3>3, MatchedWith
      <4>2. Together(setup, list[t][i].name, Canonical(s, f.name))
        BY <1>1, <1>2, <3>1, <4>1, AlikeTogether
      <4>3. /\ list[t][i].name \in KnownNames(setup)
            /\ \E g \in filterFolders(t) : list[t][i].name = Canonical(t, g.name)
        BY <1>1, <1>2, <4>1, EntryIs
      <4>4. Together(setup, Canonical(s, f.name), list[t][i].name)
        BY <1>1, <2>2, <4>2, <4>3, TogetherIs
      <4>5. Together(setup, n, list[t][i].name)
        BY <1>1, <1>6, <1>12, <2>2, <4>3, <4>4, TogetherIs
      <4>6. n = list[t][i].name
        BY <1>10, <4>3, <4>5
      <4>7. k # i
        BY <4>1
      <4> QED
        BY <1>1, <1>2, <1>12, <4>1, <4>6, <4>7, EntriesApart
    <3> QED
      BY <3>2, <3>3
  <2>4. ASSUME NEW p \in DOMAIN pairs, pairs[p].from[s] = 0, f.name = Native(s, pairs[p][s]),
               ~EqualFold(pairs[p][s], Inbox)
        PROVE  n = Canonical(s, f.name)
    <3> PICK m, i : m = pairs[p][s] /\ i = pairs[p].from[t]
      OBVIOUS
    <3>1. CreatedPair(p, s)
      BY <1>1, <2>4, FromNothing
    <3>2. i \in DOMAIN list[t] /\ m = list[t][i].name
      BY <3>1 DEF CreatedPair, Side
    <3>3. PICK g \in filterFolders(t) : m = Canonical(t, g.name)
      BY <1>1, <1>2, <3>2, EntryIs
    <3>4. m \in KnownNames(setup) /\ m \in Seq(Word)
      BY <1>1, <1>2, <3>2, EntryIs
    <3>5. Canonical(s, Made(s, m).name) = m /\ Made(s, m).name = Native(s, m)
      BY <1>1, <2>4, <3>4, MadeIs
    <3>6. Canonical(s, f.name) = m
      BY <2>4, <3>5
    <3> QED
      BY <1>10, <1>12, <3>3, <3>6
  <2> QED
    BY <1>1, <2>1, <2>3, <2>4 DEF Inv, Covered
<1>13. ASSUME NEW x \in Side, Kind[Peer(x)] # "pst" PROVE Lone(x)'
  <2> SUFFICES ASSUME NEW f \in filterFolders(x)', NEW g \in filterFolders(x)',
                      Together(setup, Canonical(x, f.name), Canonical(x, g.name))
               PROVE  Canonical(x, f.name) = Canonical(x, g.name)
    BY <1>8 DEF Lone
  <2>1. Lone(x)
    BY <1>1, <1>13
  <2>2. CASE f \in filterFolders(x) /\ g \in filterFolders(x)
    BY <2>1, <2>2 DEF Lone
  <2>3. CASE x = s /\ f = new /\ g \in filterFolders(s)
    BY <1>7, <1>12, <1>13, <2>3
  <2>4. CASE x = s /\ g = new /\ f \in filterFolders(s)
    <3>1. Together(setup, n, Canonical(s, f.name))
      BY <1>7, <2>4 DEF Together, EqualFold
    <3> QED
      BY <1>7, <1>12, <1>13, <2>4, <3>1
  <2>5. CASE f = new /\ g = new
    BY <2>5
  <2> QED
    BY <1>2, <1>8, <2>2, <2>3, <2>4, <2>5
<1>14. ASSUME NEW x \in Side PROVE Kin(x)'
  <2>1. Peer(x) \in Side
    BY DEF Side, Peer
  <2>2. \A h \in filterFolders(Peer(x)) : h \in filterFolders(Peer(x))'
    BY <1>2, <1>8, <2>1, FilterNext DEF filterFolders
  <2> SUFFICES ASSUME NEW f \in filterFolders(x)', NEW g \in filterFolders(x)',
                      Together(setup, Canonical(x, f.name), Canonical(x, g.name))
               PROVE  \/ Canonical(x, f.name) = Canonical(x, g.name)
                      \/ \E h \in filterFolders(Peer(x)) :
                           Canonical(Peer(x), h.name) \in {Canonical(x, f.name), Canonical(x, g.name)}
    BY <1>8, <2>1, <2>2 DEF Kin
  <2>3. CASE f \in filterFolders(x) /\ g \in filterFolders(x)
    BY <1>1, <2>3 DEF Kin
  <2>4. CASE x = s /\ (f = new \/ g = new)
    BY <1>5, <1>7, <2>4
  <2> QED
    BY <1>2, <1>8, <2>3, <2>4
<1> QED
  BY <1>9, <1>11, <1>13, <1>14

\* The folders change only when one that is missing is created on a side that may be
\* written to, for an entry of the other side without a partner
LEMMA WhatIsCreated ==
  ASSUME Inv, [Next]_vars, exists' # exists
  PROVE  \E s \in Side : \E k \in DOMAIN list[Peer(s)] \ Matched(Peer(s)) :
           LET n == list[Peer(s)][k].name
           IN /\ pc = s /\ s \in Writable /\ UNCHANGED settled
              /\ ~EqualFold(n, Inbox) /\ ~Taken(s, n)
              /\ exists'[s] = exists[s] \cup {Made(s, n)}
              /\ \A x \in Side : x # s => exists'[x] = exists[x]
<1>1. CreateMissing
  BY DEF Next, vars, loopVars, ListFolders, MatchFolders
<1>2. PICK s \in Side : pc = s /\ pairFolders(s) /\ UNCHANGED settled
  BY <1>1 DEF CreateMissing
<1> PICK k, n : k = pos + 1 /\ n = list[Peer(s)][k].name
  OBVIOUS
<1>3. Matched(Peer(s)) = IF s = "b" THEN matchedA ELSE usedB
  BY DEF Matched, Peer, Side
<1>4. k \notin Matched(Peer(s)) /\ s \in Writable /\ CreateFolder(s, n, k) /\ pos < Len(list[Peer(s)])
  BY <1>2, <1>3 DEF pairFolders
<1>5. k \in DOMAIN list[Peer(s)]
  <2>1. pos \in Nat /\ list[Peer(s)] \in Seq(Entry)
    BY DEF Inv, Types, Side, Peer
  <2> QED
    BY <1>4, <2>1
<1>6. /\ ~EqualFold(n, Inbox) /\ ~Taken(s, n)
      /\ exists' = [exists EXCEPT ![s] = @ \cup {Made(s, n)}]
  BY <1>4 DEF CreateFolder, Made, Taken
<1>7. exists \in [Side -> SUBSET Folder]
  BY DEF Inv, Types
<1>8. exists'[s] = exists[s] \cup {Made(s, n)} /\ \A x \in Side : x # s => exists'[x] = exists[x]
  BY <1>6, <1>7
<1> QED
  BY <1>2, <1>4, <1>5, <1>6, <1>8

\* Every step keeps the groups
LEMMA GroupsNext == GroupInv /\ [Next]_vars => GroupInv'
<1> SUFFICES ASSUME GroupInv, [Next]_vars PROVE GroupInv'
  OBVIOUS
<1>1. Inv /\ Inv' /\ UNCHANGED setup
  BY NextStep DEF GroupInv, Next, vars
<1>2. CASE UNCHANGED exists
  BY <1>1, <1>2, GroupsStay DEF GroupInv
<1>3. CASE ~UNCHANGED exists
  <2>1. PICK s \in Side : \E k \in DOMAIN list[Peer(s)] \ Matched(Peer(s)) :
           LET n == list[Peer(s)][k].name
           IN /\ pc = s /\ s \in Writable /\ ~EqualFold(n, Inbox)
              /\ exists'[s] = exists[s] \cup {Made(s, n)}
              /\ \A x \in Side : x # s => exists'[x] = exists[x]
    BY <1>1, <1>3, WhatIsCreated
  <2>2. Groups'
    BY <1>1, <2>1, GroupsCreate
  <2> QED
    BY <1>1, <2>2 DEF GroupInv
<1> QED
  BY <1>2, <1>3

-----------------------------------------------------------------------------
(* The names of two pairs *)

NamesApart(s, n, m) ==
  n # m /\ (Kind[s] = "pst" \/ ~EqualFold(n, Inbox) \/ ~EqualFold(m, Inbox))

\* Both were created on s
LEMMA BothCreated ==
  ASSUME GroupInv, NEW s \in Side, NEW p \in DOMAIN pairs, NEW q \in DOMAIN pairs, p # q,
         pairs[p].from[s] = 0, pairs[q].from[s] = 0,
         \A x \in Side : ~SameName(x, pairs[p][x], pairs[q][x])
  PROVE  NamesApart(s, pairs[p][s], pairs[q][s])
<1> PICK t, k, l : t = Peer(s) /\ k = pairs[p].from[t] /\ l = pairs[q].from[t]
  OBVIOUS
<1>1. Inv /\ Types /\ Spelled /\ Listed
  BY DEF GroupInv, Inv
<1>2. t \in Side /\ Peer(t) = s
  BY DEF Side, Peer
<1>3. CreatedPair(p, s) /\ CreatedPair(q, s)
  BY <1>1, FromNothing
<1>4. /\ k \in DOMAIN list[t] /\ pairs[p][s] = list[t][k].name /\ pairs[p][t] = list[t][k].name
      /\ Kind[s] = "imap" => ~EqualFold(list[t][k].name, Inbox)
  BY <1>2, <1>3 DEF CreatedPair, Side
<1>5. l \in DOMAIN list[t] /\ pairs[q][s] = list[t][l].name /\ pairs[q][t] = list[t][l].name
  BY <1>2, <1>3 DEF CreatedPair, Side
<1>6. k # l
  <2>1. k # 0
    BY <1>1, <1>2, <1>4, EntryIs
  <2> QED
    BY <1>1, <1>2, <2>1 DEF Inv, Once
<1>7. CASE Kind[t] # "pst"
  BY <1>1, <1>2, <1>4, <1>5, <1>6, <1>7, EntriesApart DEF NamesApart
<1>8. CASE Kind[t] = "pst"
  <2>1. list[t][k].name # list[t][l].name
    BY <1>2, <1>4, <1>5, <1>8 DEF SameName
  <2>2. CASE Kind[s] = "maildir"
    <3>1. "maildir" \in Range(Kind)
      <4>1. Kind \in [Side -> {"imap", "maildir", "pst"}]
        BY <1>1, FoldersAssumption DEF Types, Kind
      <4> QED
        BY <2>2, <4>1 DEF Range
    <3>2. Lone(t)
      BY <1>2, <2>2, <3>1 DEF GroupInv, Groups, Regular, Kind
    <3>3. PICK e \in filterFolders(t) : list[t][k].name = Canonical(t, e.name)
      BY <1>1, <1>2, <1>4, EntryIs
    <3>4. PICK g \in filterFolders(t) : list[t][l].name = Canonical(t, g.name)
      BY <1>1, <1>2, <1>5, EntryIs
    <3>5. ~Together(setup, list[t][k].name, list[t][l].name)
      BY <2>1, <3>2, <3>3, <3>4 DEF Lone
    <3>6. ~EqualFold(list[t][k].name, list[t][l].name)
      BY <3>5 DEF Together
    <3> QED
      BY <1>4, <1>5, <2>1, <3>6 DEF NamesApart, EqualFold
  <2>3. CASE Kind[s] # "maildir"
    <3>1. Kind[s] = "imap" \/ Kind[s] = "pst"
      BY <1>1, <2>3, CurrentSetup
    <3> QED
      BY <1>4, <1>5, <2>1, <3>1 DEF NamesApart
  <2> QED
    BY <2>2, <2>3
<1> QED
  BY <1>7, <1>8

\* One was created on s, for an entry that nothing matched, the other is listed there
LEMMA OneCreated ==
  ASSUME GroupInv, pc = "done", NEW s \in Side, NEW p \in DOMAIN pairs, NEW q \in DOMAIN pairs,
         pairs[p].from[s] = 0, pairs[q].from[s] # 0,
         \A x \in Side : ~SameName(x, pairs[p][x], pairs[q][x])
  PROVE  NamesApart(s, pairs[p][s], pairs[q][s])
<1> PICK t, k, j, n, m : /\ t = Peer(s) /\ k = pairs[p].from[t] /\ j = pairs[q].from[s]
                         /\ n = pairs[p][s] /\ m = pairs[q][s]
  OBVIOUS
<1>1. Inv /\ Types /\ Spelled /\ Listed
  BY DEF GroupInv, Inv
<1>2. t \in Side /\ Peer(t) = s
  BY DEF Side, Peer
<1>3. CreatedPair(p, s)
  BY <1>1, FromNothing
<1>4. /\ k \in DOMAIN list[t] \ Matched(t) /\ n = list[t][k].name /\ pairs[p][t] = n
      /\ Kind[s] # "pst"
      /\ Kind[s] = "imap" => /\ ~EqualFold(n, Inbox)
                             /\ \A i \in DOMAIN list[s] : list[s][i].native # Native(s, n)
  BY <1>2, <1>3 DEF CreatedPair, Side
<1>5. j \in DOMAIN list[s] /\ m = list[s][j].name
  BY <1>1, FromListed
<1>6. PICK f \in exists[s] : list[s][j].native = f.name /\ m = Canonical(s, f.name)
  BY <1>1, <1>5, EntryIs
<1>7. CASE pairs[q].from[t] = 0
  <2>1. CreatedPair(q, t)
    BY <1>1, <1>2, <1>7, FromNothing
  <2>2. j \notin Matched(s)
    BY <1>2, <2>1 DEF CreatedPair
  <2>3. ~Alike(list[t][k], list[s][j])
    BY <1>1, <1>2, <1>4, <1>5, <2>2, UnlikeIs
  <2>4. ~EqualFold(n, m)
    BY <1>4, <1>5, <2>3 DEF Alike
  <2> QED
    BY <2>4 DEF NamesApart, EqualFold
<1>8. CASE pairs[q].from[t] # 0 /\ Kind[s] = "imap"
  <2>1. ASSUME n = m PROVE FALSE
    <3>1. f.name = Native(s, m)
      BY <1>1, <1>4, <1>6, <1>8, <2>1, EntryExact
    <3> QED
      BY <1>4, <1>5, <1>6, <1>8, <2>1, <3>1
  <2> QED
    BY <1>4, <1>8, <2>1 DEF NamesApart
<1>9. CASE pairs[q].from[t] # 0 /\ Kind[s] = "maildir"
  <2> PICK l : l = pairs[q].from[t]
    OBVIOUS
  <2>1. l \in DOMAIN list[t] /\ pairs[q][t] = list[t][l].name
    BY <1>1, <1>2, <1>9, FromListed
  <2>2. MatchedPair(q)
    <3>1. ASSUME NEW x \in Side, CreatedPair(q, x) PROVE FALSE
      <4>1. pairs[q].from[x] = 0
        BY <3>1 DEF CreatedPair
      <4> QED
        BY <1>9, <4>1 DEF Side, Peer
    <3> QED
      BY <1>1, <3>1 DEF Inv, Origins
  <2>3. l \in Matched(t) /\ Alike(list[t][l], list[s][j])
    BY <1>2, <2>2 DEF MatchedPair, Matched, Alike, SameUse, EqualFold, Side, Peer
  <2>4. k # l
    BY <1>4, <2>3
  <2>5. "maildir" \in Range(Kind)
    <3>1. Kind \in [Side -> {"imap", "maildir", "pst"}]
      BY <1>1, FoldersAssumption DEF Types, Kind
    <3> QED
      BY <1>9, <3>1 DEF Range
  <2>6. Lone(t) /\ UsesKnown /\ Grouped(setup)
    BY <1>2, <1>4, <2>5 DEF GroupInv, Groups, Regular, Kind
  <2>7. Together(setup, list[t][l].name, m)
    BY <1>1, <1>2, <1>5, <2>1, <2>3, <2>6, AlikeTogether
  <2>8. /\ n \in KnownNames(setup)
        /\ \E e \in filterFolders(t) : n = Canonical(t, e.name)
    BY <1>1, <1>2, <1>4, EntryIs
  <2>9. /\ list[t][l].name \in KnownNames(setup)
        /\ \E e \in filterFolders(t) : list[t][l].name = Canonical(t, e.name)
    BY <1>1, <1>2, <2>1, EntryIs
  <2>10. m \in KnownNames(setup)
    BY <1>1, <1>5, EntryIs
  <2>11. ASSUME EqualFold(n, m) PROVE FALSE
    <3>1. Together(setup, n, m)
      BY <2>11 DEF Together
    <3>2. Together(setup, m, list[t][l].name)
      BY <1>1, <2>6, <2>7, <2>8, <2>9, <2>10, TogetherIs
    <3>3. Together(setup, n, list[t][l].name)
      BY <1>1, <2>6, <2>8, <2>9, <2>10, <3>1, <3>2, TogetherIs
    <3>4. n = list[t][l].name
      BY <2>6, <2>8, <2>9, <3>3 DEF Lone
    <3>5. CASE Kind[t] = "pst"
      BY <1>2, <1>4, <2>1, <3>4, <3>5 DEF SameName
    <3>6. CASE Kind[t] # "pst"
      BY <1>1, <1>2, <1>4, <2>1, <2>4, <3>4, <3>6, EntriesApart
    <3> QED
      BY <3>5, <3>6
  <2> QED
    BY <2>11 DEF NamesApart, EqualFold
<1> QED
  BY <1>1, <1>4, <1>7, <1>8, <1>9, CurrentSetup

\* In any case
LEMMA PairsApart ==
  ASSUME GroupInv, pc = "done", NEW s \in Side, NEW p \in DOMAIN pairs, NEW q \in DOMAIN pairs, p # q,
         \A x \in Side : ~SameName(x, pairs[p][x], pairs[q][x])
  PROVE  NamesApart(s, pairs[p][s], pairs[q][s])
<1>1. \A x \in Side : ~SameName(x, pairs[q][x], pairs[p][x])
  BY DEF SameName
<1>2. CASE Kind[s] = "pst"
  BY <1>2 DEF SameName, NamesApart
<1>3. CASE pairs[p].from[s] = 0 /\ pairs[q].from[s] = 0
  BY <1>3, BothCreated
<1>4. CASE pairs[p].from[s] = 0 /\ pairs[q].from[s] # 0
  BY <1>4, OneCreated
<1>5. CASE pairs[p].from[s] # 0 /\ pairs[q].from[s] = 0
  <2>1. NamesApart(s, pairs[q][s], pairs[p][s])
    BY <1>1, <1>5, OneCreated
  <2> QED
    BY <2>1 DEF NamesApart
<1>6. CASE Kind[s] # "pst" /\ pairs[p].from[s] # 0 /\ pairs[q].from[s] # 0
  <2> PICK i, j : i = pairs[p].from[s] /\ j = pairs[q].from[s]
    OBVIOUS
  <2>1. Inv
    BY DEF GroupInv
  <2>2. i \in DOMAIN list[s] /\ pairs[p][s] = list[s][i].name
    BY <1>6, <2>1, FromListed
  <2>3. j \in DOMAIN list[s] /\ pairs[q][s] = list[s][j].name
    BY <1>6, <2>1, FromListed
  <2>4. i # j
    BY <1>6, <2>1 DEF Inv, Once
  <2> QED
    BY <1>6, <2>1, <2>2, <2>3, <2>4, EntriesApart DEF NamesApart
<1> QED
  BY <1>2, <1>3, <1>4, <1>5, <1>6

(***************************************************************************)
(* In regular setups folders that go together stay grouped, the ones that  *)
(* a cycle creates included (matchFolders, pairFolders).                   *)
(***************************************************************************)
THEOREM Grouping ==
  ASSUME \A c \in Setups : Regular(c)
  PROVE  Spec => []GroupInv
<1>1. Init => GroupInv
  <2>1. Init => Regular(setup)
    BY DEF Init
  <2> QED
    BY <2>1, GroupsInit
<1> QED
  BY <1>1, GroupsNext, PTL DEF Spec

(***************************************************************************)
(* PairsDisjoint: no folder is in two pairs of a cycle when Select         *)
(* resolves their names again, apart from the two exceptions, whatever the *)
(* separators, attributes and orders of the listings, and with any number  *)
(* of folders created in earlier cycles (matchFolders, pairFolders,        *)
(* ResolveFolder, folderPath, resolvePSTFolder).                           *)
(***************************************************************************)
THEOREM NoFolderTwice ==
  ASSUME \A c \in Setups : Regular(c)
  PROVE  Spec => []PairsDisjoint
<1>1. GroupInv => PairsDisjoint
  <2> SUFFICES ASSUME GroupInv, pc = "done", NEW p \in DOMAIN pairs, NEW q \in DOMAIN pairs, p # q,
                      \A x \in Side : ~SameName(x, pairs[p][x], pairs[q][x]), NEW s \in Side
               PROVE  \/ Resolve(s, pairs[p][s]) \cap Resolve(s, pairs[q][s]) = {}
                      \/ CaseTwins(s, pairs[p][s], pairs[q][s])
    BY DEF PairsDisjoint
  <2>1. Inv /\ Types /\ Spelled /\ PlainNames(setup)
    BY DEF GroupInv, Inv
  <2>2. NamesApart(s, pairs[p][s], pairs[q][s])
    BY PairsApart
  <2>3. pairs[p][s] \in KnownNames(setup) /\ Exact(s, pairs[p][s])
    BY <2>1, PairExact
  <2>4. pairs[q][s] \in KnownNames(setup) /\ Exact(s, pairs[q][s])
    BY <2>1, PairExact
  <2> QED
    BY <2>1, <2>2, <2>3, <2>4, ResolveApart DEF NamesApart
<1> QED
  BY <1>1, Grouping, PTL

-----------------------------------------------------------------------------
(* After a cycle in which nothing failed *)

\* The folder e of the other side needs none on s: there is one of its name, or one that
\* it is alike and no other folder of its own side would take
Provided(s, e) ==
  LET n == Canonical(Peer(s), e.name)
  IN \/ EqualFold(n, Inbox) \/ Taken(s, n)
     \/ /\ \E g \in filterFolders(s) : Alike(Info(Peer(s), e), Info(s, g))
        /\ \A h \in filterFolders(Peer(s)) : Canonical(Peer(s), h.name) = n => h = e

Settled ==
  settled # None => \A s \in Writable : \A e \in filterFolders(Peer(s)) : Provided(s, e)

SettledInv == GroupInv /\ Grouped(setup) /\ Settled

\* Then nothing is left to create
LEMMA NothingNew ==
  ASSUME SettledInv, settled # None, NEW s \in Side, pc = s, s \in Writable,
         NEW k \in DOMAIN list[Peer(s)] \ Matched(Peer(s)),
         ~EqualFold(list[Peer(s)][k].name, Inbox), ~Taken(s, list[Peer(s)][k].name)
  PROVE  FALSE
<1> PICK t, n : t = Peer(s) /\ n = list[t][k].name
  OBVIOUS
<1>1. Inv /\ Types /\ Spelled /\ Listed /\ Grouped(setup) /\ UsesKnown
  BY DEF SettledInv, GroupInv, Groups, Inv
<1>2. t \in Side /\ Peer(t) = s /\ pc # "idle" /\ pc \in {"b", "a", "done"}
  BY DEF Side, Peer
<1>3. Lone(t)
  BY <1>1, <1>2, WritableIs DEF SettledInv, GroupInv, Groups, Types
<1>4. PICK e \in filterFolders(t) : list[t][k] = Info(t, e) /\ e \in exists[t] /\ n = Canonical(t, e.name)
  BY <1>1, <1>2, EntryIs
<1>5. n \in KnownNames(setup)
  BY <1>1, <1>2, EntryIs
<1>6. Provided(s, e)
  BY <1>4 DEF SettledInv, Settled
<1>7. /\ \E g \in filterFolders(s) : Alike(Info(t, e), Info(s, g))
      /\ \A h \in filterFolders(t) : Canonical(t, h.name) = n => h = e
  BY <1>4, <1>6 DEF Provided
<1>8. PICK g \in filterFolders(s) : Alike(Info(t, e), Info(s, g))
  BY <1>7
<1>9. g \in exists[s]
  BY DEF filterFolders
<1>10. Together(setup, n, Canonical(s, g.name)) /\ Canonical(s, g.name) \in KnownNames(setup)
  BY <1>1, <1>2, <1>4, <1>8, <1>9, InfoTogether DEF Spelled
<1>11. ASSUME NEW i \in DOMAIN list[t], Together(setup, Canonical(s, g.name), list[t][i].name)
       PROVE  n = list[t][i].name
  <2>1. list[t][i].name \in KnownNames(setup)
    BY <1>1, <1>2, EntryIs
  <2>2. PICK h \in filterFolders(t) : list[t][i].name = Canonical(t, h.name)
    BY <1>1, <1>2, EntryIs
  <2>3. Together(setup, n, list[t][i].name)
    BY <1>1, <1>5, <1>10, <1>11, <2>1, TogetherIs
  <2> QED
    BY <1>3, <1>4, <2>2, <2>3 DEF Lone
<1>12. ASSUME NEW j \in DOMAIN list[s], list[s][j] = Info(s, g) PROVE FALSE
  <2>1. CASE j \notin Matched(s)
    BY <1>1, <1>2, <1>4, <1>8, <1>12, <2>1, UnlikeIs
  <2>2. CASE j \in Matched(s)
    <3>1. PICK i \in Matched(t) : i \in DOMAIN list[t] /\ Alike(list[t][i], list[s][j])
      BY <1>1, <2>2, MatchedWith
    <3>2. list[s][j].name = Canonical(s, g.name)
      BY <1>1, <1>9, <1>12, InfoIs
    <3>3. Together(setup, list[t][i].name, Canonical(s, g.name))
      BY <1>1, <1>2, <3>1, <3>2, AlikeTogether
    <3>4. Together(setup, Canonical(s, g.name), list[t][i].name)
      BY <3>3 DEF Together, EqualFold
    <3>5. n = list[t][i].name
      BY <1>11, <3>1, <3>4
    <3>6. PICK h \in filterFolders(t) : list[t][i] = Info(t, h) /\ list[t][i].name = Canonical(t, h.name)
      BY <1>1, <1>2, <3>1, EntryIs
    <3>7. h = e
      BY <1>7, <3>5, <3>6
    <3>8. i = k
      BY <1>1, <1>2, <1>4, <3>1, <3>6, <3>7 DEF Listed
    <3> QED
      BY <3>1, <3>8
  <2> QED
    BY <2>1, <2>2
<1>13. ASSUME NEW p \in DOMAIN pairs, pairs[p].from[s] = 0, g.name = Native(s, pairs[p][s]),
              ~EqualFold(pairs[p][s], Inbox)
       PROVE  FALSE
  <2> PICK m, i : m = pairs[p][s] /\ i = pairs[p].from[t]
    OBVIOUS
  <2>1. CreatedPair(p, s)
    BY <1>1, <1>13, FromNothing
  <2>2. i \in DOMAIN list[t] /\ m = list[t][i].name
    BY <2>1 DEF CreatedPair, Side
  <2>3. m \in KnownNames(setup)
    <3>1. list[t][i].name \in KnownNames(setup)
      BY <1>1, <1>2, <2>2, EntryIs
    <3> QED
      BY <2>2, <3>1
  <2>4. Canonical(s, Made(s, m).name) = m /\ Made(s, m).name = Native(s, m)
    BY <1>1, <1>13, <2>3, MadeIs
  <2>5. Canonical(s, g.name) = m
    BY <1>13, <2>4
  <2>6. Together(setup, m, m)
    BY DEF Together, EqualFold
  <2>7. n = m
    BY <1>11, <2>2, <2>5, <2>6
  <2> QED
    BY <1>9, <1>13, <2>7 DEF Taken
<1> QED
  BY <1>1, <1>2, <1>12, <1>13 DEF Inv, Covered

\* At the end of a cycle in which nothing failed: what has no partner has been created
LEMMA CreatedAll ==
  ASSUME Inv, pc = "a", pos = Len(list["b"]), failed = "no", NEW s \in Writable, s \in Side,
         NEW k \in DOMAIN list[Peer(s)] \ Matched(Peer(s))
  PROVE  EqualFold(list[Peer(s)][k].name, Inbox) \/ Taken(s, list[Peer(s)][k].name)
<1>1. Len(list["b"]) \in Nat /\ DOMAIN list["b"] = 1..Len(list["b"])
  BY DEF Inv, Types, Side
<1>2. k \in Treated(s)
  BY <1>1 DEF Treated, Side, Peer
<1>3. PICK p \in DOMAIN pairs : pairs[p].from[Peer(s)] = k
  BY <1>2 DEF Inv, NoneLeft
<1>4. Peer(s) \in Side /\ k # 0
  BY EntryIs DEF Inv, Side, Peer
<1>5. ~MatchedPair(p)
  BY <1>3, <1>4 DEF MatchedPair, Matched, Side
<1>6. ASSUME NEW x \in Side, CreatedPair(p, x) PROVE x = s
  BY <1>3, <1>4, <1>6 DEF CreatedPair, Side, Peer
<1>7. CreatedPair(p, s)
  BY <1>5, <1>6 DEF Inv, Origins
<1> QED
  BY <1>3, <1>7 DEF CreatedPair, Taken

\* Two copies of a folder of an archive that are both matched: there is a folder of their name
LEMMA MatchedTwice ==
  ASSUME Inv, Grouped(setup), Groups, NEW s \in Side, s \in Writable,
         NEW k \in Matched(Peer(s)), NEW l \in Matched(Peer(s)), k # l,
         list[Peer(s)][k].name = list[Peer(s)][l].name
  PROVE  EqualFold(list[Peer(s)][k].name, Inbox) \/ Taken(s, list[Peer(s)][k].name)
<1> PICK t, n : t = Peer(s) /\ n = list[t][k].name
  OBVIOUS
<1>1. Types /\ Spelled /\ Listed /\ UsesKnown /\ Kin(s)
  BY DEF Groups, Inv
<1>2. t \in Side /\ Peer(t) = s
  BY DEF Side, Peer
<1>3. Kind[s] # "pst" /\ Lone(t)
  BY <1>1, <1>2, WritableIs DEF Groups, Types
<1>4. PICK i \in Matched(s) : /\ i \in DOMAIN list[s] /\ k \in DOMAIN list[t] /\ Alike(list[s][i], list[t][k])
                              /\ \E p \in DOMAIN pairs : pairs[p].from[t] = k /\ pairs[p].from[s] = i
  BY <1>2, MatchedWith
<1>5. PICK j \in Matched(s) : /\ j \in DOMAIN list[s] /\ l \in DOMAIN list[t] /\ Alike(list[s][j], list[t][l])
                              /\ \E p \in DOMAIN pairs : pairs[p].from[t] = l /\ pairs[p].from[s] = j
  BY <1>2, MatchedWith
<1>6. i # j
  <2>1. i # 0
    BY <1>1, <1>4, EntryIs
  <2>2. PICK p \in DOMAIN pairs : pairs[p].from[t] = k /\ pairs[p].from[s] = i
    BY <1>4
  <2>3. PICK q \in DOMAIN pairs : pairs[q].from[t] = l /\ pairs[q].from[s] = j
    BY <1>5
  <2> QED
    BY <2>1, <2>2, <2>3 DEF Inv, Once
<1>7. PICK f \in filterFolders(s) : f \in exists[s] /\ list[s][i].name = Canonical(s, f.name)
  BY <1>1, <1>4, EntryIs
<1>8. PICK g \in filterFolders(s) : g \in exists[s] /\ list[s][j].name = Canonical(s, g.name)
  BY <1>1, <1>5, EntryIs
<1>9. Canonical(s, f.name) # Canonical(s, g.name)
  BY <1>3, <1>4, <1>5, <1>6, <1>7, <1>8, EntriesApart
<1>10. /\ n \in KnownNames(setup) /\ Canonical(s, f.name) \in KnownNames(setup)
       /\ Canonical(s, g.name) \in KnownNames(setup)
  BY <1>1, <1>2, <1>4, <1>7, <1>8, EntryIs DEF Spelled
<1>11. Together(setup, Canonical(s, f.name), n) /\ Together(setup, Canonical(s, g.name), n)
  BY <1>1, <1>2, <1>4, <1>5, <1>7, <1>8, AlikeTogether
<1>12. Together(setup, n, Canonical(s, f.name)) /\ Together(setup, n, Canonical(s, g.name))
  BY <1>10, <1>11, TogetherIs
<1>13. Together(setup, Canonical(s, f.name), Canonical(s, g.name))
  BY <1>10, <1>11, <1>12, TogetherIs
<1>14. PICK e \in filterFolders(t) : Canonical(t, e.name) \in {Canonical(s, f.name), Canonical(s, g.name)}
  BY <1>1, <1>9, <1>13 DEF Kin
<1>15. \E x \in filterFolders(t) : n = Canonical(t, x.name)
  BY <1>1, <1>2, <1>4, EntryIs
<1>16. n = Canonical(t, e.name)
  BY <1>3, <1>12, <1>14, <1>15 DEF Lone
<1>17. PICK x \in exists[s] : n = Canonical(s, x.name)
  BY <1>7, <1>8, <1>14, <1>16
<1> QED
  BY <1>17, EntryExact DEF Taken

\* At the end of a cycle in which nothing failed every folder is provided for
LEMMA Settling ==
  ASSUME GroupInv, Grouped(setup), pc = "a", pos = Len(list["b"]), failed = "no",
         NEW s \in Writable, NEW e \in filterFolders(Peer(s))
  PROVE  Provided(s, e)
<1> PICK t, n : t = Peer(s) /\ n = Canonical(t, e.name)
  OBVIOUS
<1>1. Inv /\ Types /\ Spelled /\ Listed /\ Groups
  BY DEF GroupInv, Inv
<1>2. s \in Side /\ t \in Side /\ Peer(t) = s /\ e \in exists[t]
  BY <1>1, WritableIs DEF Side, Peer, filterFolders, Types
<1> SUFFICES ASSUME ~EqualFold(n, Inbox), ~Taken(s, n)
             PROVE  /\ \E g \in filterFolders(s) : Alike(Info(t, e), Info(s, g))
                    /\ \A h \in filterFolders(t) : Canonical(t, h.name) = n => h = e
  BY DEF Provided
<1>3. ASSUME NEW h \in filterFolders(t), Canonical(t, h.name) = n
      PROVE  \E k \in Matched(t) : k \in DOMAIN list[t] /\ list[t][k] = Info(t, h) /\ list[t][k].name = n
  <2>1. h \in exists[t]
    BY DEF filterFolders
  <2>2. ASSUME NEW p \in DOMAIN pairs, pairs[p].from[t] = 0, h.name = Native(t, pairs[p][t]),
               ~EqualFold(pairs[p][t], Inbox)
        PROVE  FALSE
    <3> PICK m, i : m = pairs[p][t] /\ i = pairs[p].from[s]
      OBVIOUS
    <3>1. CreatedPair(p, t)
      BY <1>1, <1>2, <2>2, FromNothing
    <3>2. i \in DOMAIN list[s] /\ m = list[s][i].name
      BY <1>2, <3>1 DEF CreatedPair, Side
    <3>3. m \in KnownNames(setup) /\ \E g \in exists[s] : m = Canonical(s, g.name)
      BY <1>1, <1>2, <3>2, EntryIs
    <3>4. Canonical(t, Made(t, m).name) = m /\ Made(t, m).name = Native(t, m)
      BY <1>1, <1>2, <2>2, <3>3, MadeIs
    <3>5. m = n
      BY <1>3, <2>2, <3>4
    <3> QED
      BY <1>1, <1>2, <3>3, <3>5, EntryExact DEF Taken
  <2>3. PICK k \in DOMAIN list[t] : list[t][k] = Info(t, h)
    BY <1>1, <1>2, <2>2 DEF Inv, Covered
  <2>4. list[t][k].name = n
    BY <1>1, <1>2, <1>3, <2>1, <2>3, InfoIs
  <2>5. k \in Matched(t)
    BY <1>1, <1>2, <2>4, CreatedAll
  <2> QED
    BY <2>3, <2>4, <2>5
<1>4. PICK k \in Matched(t) : k \in DOMAIN list[t] /\ list[t][k] = Info(t, e) /\ list[t][k].name = n
  BY <1>3
<1>5. \E g \in filterFolders(s) : Alike(Info(t, e), Info(s, g))
  <2>1. PICK i \in Matched(s) : i \in DOMAIN list[s] /\ Alike(list[s][i], list[t][k])
    BY <1>1, <1>2, MatchedWith
  <2>2. PICK g \in filterFolders(s) : list[s][i] = Info(s, g)
    BY <1>1, <1>2, <2>1, EntryIs
  <2>3. Alike(Info(t, e), Info(s, g))
    BY <1>4, <2>1, <2>2 DEF Alike, SameUse, EqualFold
  <2> QED
    BY <2>3
<1>6. ASSUME NEW h \in filterFolders(t), Canonical(t, h.name) = n PROVE h = e
  <2>1. PICK l \in Matched(t) : l \in DOMAIN list[t] /\ list[t][l] = Info(t, h) /\ list[t][l].name = n
    BY <1>3, <1>6
  <2>2. k = l
    BY <1>1, <1>2, <1>4, <2>1, MatchedTwice
  <2>3. h \in exists[t]
    BY DEF filterFolders
  <2>4. Info(t, h) = Info(t, e)
    BY <1>4, <2>1, <2>2
  <2>5. h.name = e.name /\ h.no = e.no
    BY <1>1, <1>2, <2>3, <2>4, InfoIs
  <2> QED
    BY <1>1, <1>2, <2>3, <2>5 DEF Inv, Distinct
<1> QED
  BY <1>5, <1>6

\* It stays so as long as no folder is created
LEMMA ProvidedStays ==
  ASSUME Inv, UNCHANGED <<setup, exists>>, NEW s \in Side, NEW e, Provided(s, e)
  PROVE  Provided(s, e)'
<1>1. \A x \in Side : filterFolders(x)' = filterFolders(x)
  BY FoldersStay
<1>2. Peer(s) \in Side
  BY DEF Side, Peer
<1> QED
  BY <1>1, <1>2 DEF Provided, Taken, Canonical, Native, Info, Alike, SameUse

\* Every step keeps what is settled, and creates nothing then
LEMMA SettledNext == SettledInv /\ [Next]_vars => SettledInv' /\ (settled # None => UNCHANGED exists)
<1> SUFFICES ASSUME SettledInv, [Next]_vars
             PROVE  SettledInv' /\ (settled # None => UNCHANGED exists)
  OBVIOUS
<1>1. Inv /\ GroupInv /\ GroupInv' /\ UNCHANGED setup /\ Grouped(setup) /\ Grouped(setup)'
  BY GroupsNext DEF SettledInv, GroupInv, Next, vars
<1>2. settled # None => UNCHANGED exists
  <2> SUFFICES ASSUME settled # None, exists' # exists PROVE FALSE
    OBVIOUS
  <2>1. PICK s \in Side : \E k \in DOMAIN list[Peer(s)] \ Matched(Peer(s)) :
           LET n == list[Peer(s)][k].name
           IN pc = s /\ s \in Writable /\ ~EqualFold(n, Inbox) /\ ~Taken(s, n)
    BY <1>1, WhatIsCreated
  <2> QED
    BY <2>1, NothingNew
<1>3. Settled'
  <2> SUFFICES ASSUME settled' # None, NEW s \in Writable, NEW e \in filterFolders(Peer(s))'
               PROVE  Provided(s, e)'
    BY <1>1 DEF Settled, Writable
  <2>1. s \in Side /\ Peer(s) \in Side
    BY <1>1, WritableIs DEF Inv, Types, Side, Peer
  <2>2. CASE settled # None
    <3>1. UNCHANGED <<setup, exists>>
      BY <1>1, <1>2, <2>2
    <3>2. e \in filterFolders(Peer(s))
      BY <1>1, <2>1, <3>1, FoldersStay
    <3>3. Provided(s, e)
      BY <2>2, <3>2 DEF SettledInv, Settled
    <3> QED
      BY <1>1, <2>1, <3>1, <3>3, ProvidedStays
  <2>3. CASE settled = None
    <3>1. pc = "a" /\ pos = Len(list["b"]) /\ failed = "no" /\ UNCHANGED exists
      BY <2>3 DEF Next, vars, loopVars, ListFolders, MatchFolders, CreateMissing
    <3>2. e \in filterFolders(Peer(s))
      BY <1>1, <2>1, <3>1, FoldersStay
    <3>3. Provided(s, e)
      BY <1>1, <3>1, <3>2, Settling
    <3> QED
      BY <1>1, <2>1, <3>1, <3>3, ProvidedStays
  <2> QED
    BY <2>2, <2>3
<1> QED
  BY <1>1, <1>2, <1>3 DEF SettledInv

(***************************************************************************)
(* CreatesOnce: once a cycle has created all that was missing, no later    *)
(* cycle creates anything, whatever the order of its listings, and a side  *)
(* that must not be written to never gets a folder (pairFolders,           *)
(* matchFolders, CreateFolder).                                            *)
(***************************************************************************)
THEOREM NothingCreatedAgain ==
  ASSUME \A c \in Setups : Regular(c) /\ Grouped(c)
  PROVE  Spec => CreatesOnce
<1>1. Init => SettledInv
  <2> SUFFICES ASSUME Init PROVE SettledInv
    OBVIOUS
  <2>1. Regular(setup) /\ Grouped(setup) /\ settled = None
    BY DEF Init
  <2>2. GroupInv
    BY <2>1, GroupsInit
  <2> QED
    BY <2>1, <2>2 DEF SettledInv, Settled
<1>2. SettledInv /\ [Next]_vars => SettledInv'
  BY SettledNext
<1>3. SettledInv /\ [Next]_vars =>
        [/\ settled # None => UNCHANGED exists
         /\ \A s \in Side \ Writable : exists'[s] = exists[s]]_vars
  <2> SUFFICES ASSUME SettledInv, [Next]_vars
               PROVE  /\ settled # None => UNCHANGED exists
                      /\ \A s \in Side \ Writable : exists'[s] = exists[s]
    OBVIOUS
  <2>1. settled # None => UNCHANGED exists
    BY SettledNext
  <2>2. Inv
    BY DEF SettledInv, GroupInv
  <2>3. \A s \in Side \ Writable : exists'[s] = exists[s]
    BY <2>2, WhatIsCreated
  <2> QED
    BY <2>1, <2>3
<1> QED
  BY <1>1, <1>2, <1>3, PTL DEF Spec, CreatesOnce
=============================================================================
