----------------------------- MODULE DedupIndex -----------------------------
(***************************************************************************)
(* dedup.BuildFrom and dedup.Missing as the loops they are                 *)
(* (internal/dedup/index.go).  Two folders are indexed one message at a    *)
(* time, then Delta walks the entries of each index.                       *)
(***************************************************************************)
EXTENDS Messages, Sequences

CONSTANTS
  Input,         \* parsed messages; one that does not parse never reaches BuildFrom
  MaxMessages    \* bound on the length of a listing

ASSUME DedupAssumption ==
  /\ Input \subseteq {m \in Fields : ParseFields(m)}
  /\ MaxMessages \in Nat

VARIABLES
  inputs,   \* the parsed messages of each folder, in listing order
  pos,      \* how many of them the loop has consumed
  entries,  \* Index.entries, as positions in inputs
  byKey,    \* Index.byKey: the entry a key leads to, 0 if none
  dups,     \* Index.dups
  mpos,     \* how many entries Missing has walked
  missing   \* what Missing collects, as positions in inputs

vars == <<inputs, pos, entries, byKey, dups, mpos, missing>>

Listing == UNION {[1..n -> Input] : n \in 0..MaxMessages}

Init ==
  /\ inputs \in [Side -> Listing]
  /\ pos = [s \in Side |-> 0]
  /\ entries = [s \in Side |-> <<>>]
  /\ byKey = [s \in Side |-> [k \in AllKeys |-> 0]]
  /\ dups = [s \in Side |-> 0]
  /\ mpos = [s \in Side |-> 0]
  /\ missing = [s \in Side |-> <<>>]

\* Mutant: only the Message-ID is looked up
hasMessageID(s, keys) == \E k \in keys : k[1] = "mid" /\ byKey[s][k] # 0

\* Index.has: the index holds a message under one of the keys
has(s, keys) == \E k \in keys : byKey[s][k] # 0

\* One iteration of BuildFrom's loop
BuildFrom(s) ==
  LET i == pos[s] + 1
      m == inputs[s][i]
  IN /\ pos[s] < Len(inputs[s])
     /\ pos' = [pos EXCEPT ![s] = i]
     /\ IF has(s, Keys(m))
        THEN /\ dups' = [dups EXCEPT ![s] = @ + 1]
             /\ UNCHANGED <<entries, byKey>>
        ELSE /\ entries' = [entries EXCEPT ![s] = Append(@, i)]
             /\ byKey' = [byKey EXCEPT ![s] =
                            [k \in AllKeys |-> IF k \in Keys(m) THEN i ELSE @[k]]]
             /\ UNCHANGED dups
     /\ UNCHANGED <<inputs, mpos, missing>>

Built == \A s \in Side : pos[s] = Len(inputs[s])

\* Mutant: the entry is looked up in its own index
MissingStepInSelf(s) ==
  LET i == entries[s][mpos[s] + 1]
  IN /\ Built
     /\ mpos[s] < Len(entries[s])
     /\ mpos' = [mpos EXCEPT ![s] = @ + 1]
     /\ missing' = [missing EXCEPT ![s] =
                      IF has(s, Keys(inputs[s][i])) THEN @ ELSE Append(@, i)]
     /\ UNCHANGED <<inputs, pos, entries, byKey, dups>>

\* One iteration of Missing(src = s, dst = its peer); Delta runs it for both
MissingStep(s) ==
  LET i == entries[s][mpos[s] + 1]
  IN /\ Built
     /\ mpos[s] < Len(entries[s])
     /\ mpos' = [mpos EXCEPT ![s] = @ + 1]
     /\ missing' = [missing EXCEPT ![s] =
                      IF has(Peer(s), Keys(inputs[s][i])) THEN @ ELSE Append(@, i)]
     /\ UNCHANGED <<inputs, pos, entries, byKey, dups>>

Next == \E s \in Side : BuildFrom(s) \/ MissingStep(s)

Spec == Init /\ [][Next]_vars

-----------------------------------------------------------------------------
Elems(q) == {q[n] : n \in 1..Len(q)}

TypeOK ==
  /\ inputs \in [Side -> Listing]
  /\ pos \in [Side -> 0..MaxMessages]
  /\ entries \in [Side -> Seq(1..MaxMessages)]
  /\ byKey \in [Side -> [AllKeys -> 0..MaxMessages]]
  /\ dups \in [Side -> 0..MaxMessages]
  /\ mpos \in [Side -> 0..MaxMessages]
  /\ missing \in [Side -> Seq(1..MaxMessages)]

(***************************************************************************)
(* What BuildFrom promises of the messages consumed so far: the entries    *)
(* are exactly the messages that share no key with an earlier entry, so    *)
(* every message is represented by an entry it shares a key with, and no   *)
(* two entries share a key (index.go BuildFrom, Dups, Len).                *)
(***************************************************************************)
IndexIsGreedy ==
  \A s \in Side :
    /\ IsIndex(Elems(entries[s]), 1..pos[s], inputs[s])
    /\ Len(entries[s]) + dups[s] = pos[s]

(***************************************************************************)
(* A message that Delta sends to the other side shares no key with any     *)
(* entry there, and one it does not send shares a key with some entry      *)
(* (index.go Missing, over the finished byKey maps).                       *)
(***************************************************************************)
DeltaIsExact ==
  (Built /\ \A s \in Side : mpos[s] = Len(entries[s])) =>
    \A s \in Side :
      Elems(missing[s]) = Missing(Elems(entries[s]), inputs[s],
                                  Elems(entries[Peer(s)]), inputs[Peer(s)])

(***************************************************************************)
(* The README's reading of the match keys: a message counts as present on  *)
(* the other side if ANY message there shares a key with it.  The code     *)
(* compares with the entries only, and BuildFrom drops the keys of a       *)
(* message that duplicates an earlier one of the same folder.              *)
(***************************************************************************)
PresentByAnyKey ==
  \A s \in Side : \A i \in Elems(missing[s]) :
    \A j \in 1..Len(inputs[Peer(s)]) : ~SharesKey(inputs[s][i], inputs[Peer(s)][j])
=============================================================================
