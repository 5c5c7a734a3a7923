------------------------------ MODULE Messages ------------------------------
(***************************************************************************)
(* Messages as the deduplication sees them (internal/mailbox/message.go,   *)
(* internal/dedup/index.go): a normalised Message-ID, the value of the     *)
(* tool's own X-Imapsync-Hash header, and the surrogate hash computed from *)
(* Date, Subject and From.  A text is a model value; None is "".           *)
(***************************************************************************)
EXTENDS Naturals

CONSTANTS
  None,      \* the empty string, an absent row, an absent message
  MIds,      \* Message-ID values
  Hashes     \* surrogate hashes, which are also the values of the header

Fields == [mid : MIds \cup {None}, xhash : Hashes \cup {None}, sur : Hashes \cup {None}]

Side == {"a", "b"}                          \* the two servers of a pair
Peer(s) == IF s = "a" THEN "b" ELSE "a"

ASSUME MessagesAssumption ==
  /\ None \notin MIds
  /\ None \notin Hashes
  /\ None \notin Fields

(***************************************************************************)
(* ParseFields: a header block net/mail cannot read yields no fields at    *)
(* all.  Such a message is written with sur = None.                        *)
(***************************************************************************)
ParseFields(m) == m.sur # None

\* Mutant: the identity used as the only key (Message-ID if there is one)
MatchKeysIdentity(mid, hashHdr, surrogate) ==
  IF mid # None THEN {<<"mid", mid>>} ELSE {<<"hash", surrogate>>}

(***************************************************************************)
(* MatchKeysFrom: mid and header only if not empty, the surrogate always;  *)
(* a header equal to the surrogate is the same key once.                   *)
(***************************************************************************)
MatchKeysFrom(mid, hashHdr, surrogate) ==
  {<<"mid", k>> : k \in {mid} \ {None}}
    \cup {<<"hash", k>> : k \in {hashHdr} \ {None}}
    \cup {<<"hash", surrogate>>}

\* dedup.Keys / mailbox.MatchKeys: all keys by which a message may match
Keys(m) == MatchKeysFrom(m.mid, m.xhash, m.sur)

AllKeys == {<<"mid", k>> : k \in MIds} \cup {<<"hash", k>> : k \in Hashes \cup {None}}

\* Mutant: only Message-IDs are compared
SharesMessageID(m, n) == m.mid # None /\ m.mid = n.mid

SharesKey(m, n) == Keys(m) \cap Keys(n) # {}

(***************************************************************************)
(* endpoint.WithHeader / mailbox.InjectHashHeader: the header is added     *)
(* unless the message already carries one.                                 *)
(***************************************************************************)
WithHeader(m, value) == IF m.xhash # None THEN m ELSE [m EXCEPT !.xhash = value]

(***************************************************************************)
(* What dedup.BuildFrom leaves in Index.entries, without the loop: E is    *)
(* the set of indexed IDs out of ids, rows their fields.  A message is an  *)
(* entry exactly when no entry listed before it shares a key with it.  IDs *)
(* are numbers in listing order.  DedupIndexProofs shows that the loop of  *)
(* the code ends in such a set.                                            *)
(***************************************************************************)
IsIndex(E, ids, rows) ==
  /\ E \subseteq ids
  /\ \A i \in ids : (i \in E) <=> (\A j \in E : j < i => ~SharesKey(rows[j], rows[i]))

\* Mutant: the test of dst is the wrong way round
MissingPresent(src, srcRows, dst, dstRows) ==
  {i \in src : \E j \in dst : SharesKey(srcRows[i], dstRows[j])}

(***************************************************************************)
(* dedup.Missing: the entries of src that the index dst has under no key.  *)
(***************************************************************************)
Missing(src, srcRows, dst, dstRows) ==
  {i \in src : \A j \in dst : ~SharesKey(srcRows[i], dstRows[j])}
=============================================================================
