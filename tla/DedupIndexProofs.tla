-------------------------- MODULE DedupIndexProofs --------------------------
(***************************************************************************)
(* Proofs about DedupIndex, for listings of any length over any set of     *)
(* parsed messages: BuildFrom's loop with its key map computes the greedy  *)
(* index of Messages!IsIndex, which is what SyncPair works with, and       *)
(* Missing's loop the difference Messages!Missing.                         *)
(***************************************************************************)
EXTENDS DedupIndex, TLAPS

\* The key map leads to an entry exactly for the keys of the entries
KeyMap == \A s \in Side : \A k \in AllKeys :
  byKey[s][k] # 0 <=> \E i \in Elems(entries[s]) : k \in Keys(inputs[s][i])

\* Missing starts when both indexes are complete, and has walked mpos entries
Walked(s) == {entries[s][n] : n \in 1..mpos[s]}
Progress == \A s \in Side :
  /\ pos[s] <= Len(inputs[s])
  /\ mpos[s] <= Len(entries[s])
  /\ mpos[s] # 0 => Built

MissingSoFar == \A s \in Side :
  Elems(missing[s]) = Missing(Walked(s), inputs[s], Elems(entries[Peer(s)]), inputs[Peer(s)])

Inv == TypeOK /\ IndexIsGreedy /\ KeyMap /\ Progress /\ MissingSoFar

-----------------------------------------------------------------------------
\* A parsed message has only keys of AllKeys
LEMMA KeysTyped == \A m \in Input : Keys(m) \subseteq AllKeys
  BY DedupAssumption DEF Fields, ParseFields, Keys, MatchKeysFrom, AllKeys

\* A listing is a sequence of parsed messages
LEMMA ListingTyped ==
  \A q \in Listing : q \in Seq(Input) /\ Len(q) \in 0..MaxMessages
<1> SUFFICES ASSUME NEW q \in Listing
             PROVE  q \in Seq(Input) /\ Len(q) \in 0..MaxMessages
  OBVIOUS
<1>1. PICK n \in 0..MaxMessages : q \in [1..n -> Input]
  BY DEF Listing
<1>2. n \in Nat
  BY <1>1, DedupAssumption
<1>3. q \in Seq(Input)
  BY <1>1, <1>2
<1>4. Len(q) = n
  BY <1>1, <1>2, <1>3
<1> QED
  BY <1>1, <1>3, <1>4

\* Elements, length and extension of a sequence over any set
LEMMA SeqFacts ==
  ASSUME NEW S, NEW q \in Seq(S)
  PROVE  /\ Len(q) \in Nat
         /\ \A n \in 1..Len(q) : q[n] \in S
         /\ \A e \in S : Append(q, e) \in Seq(S)
  OBVIOUS

\* Elems after an append
LEMMA ElemsAppend ==
  ASSUME NEW S, NEW q \in Seq(S), NEW e \in S
  PROVE  Elems(Append(q, e)) = Elems(q) \cup {e}
<1> DEFINE r == Append(q, e)
<1>1. Len(q) \in Nat /\ Len(r) = Len(q) + 1
  OBVIOUS
<1>2. \A n \in 1..Len(q) : r[n] = q[n]
  OBVIOUS
<1>3. r[Len(q) + 1] = e
  OBVIOUS
<1>4. 1..Len(r) = 1..Len(q) \cup {Len(q) + 1}
  BY <1>1
<1> HIDE DEF r
<1>5. Elems(r) \subseteq Elems(q) \cup {e}
  BY <1>2, <1>3, <1>4 DEF Elems
<1>6. Elems(q) \cup {e} \subseteq Elems(r)
  BY <1>2, <1>3, <1>4 DEF Elems
<1> QED
  BY <1>5, <1>6 DEF r

\* The same for lists of positions, such as entries and missing
LEMMA EntryAppended ==
  \A q \in Seq(1..MaxMessages), e \in 1..MaxMessages : Elems(Append(q, e)) = Elems(q) \cup {e}
<1>1. \A S : \A q \in Seq(S), e \in S : Elems(Append(q, e)) = Elems(q) \cup {e}
  BY ElemsAppend
<1> QED
  BY <1>1

\* has looks for an entry that shares a key
LEMMA HasIsShared ==
  ASSUME Inv, NEW s \in Side, NEW m \in Input
  PROVE  has(s, Keys(m)) <=> \E j \in Elems(entries[s]) : SharesKey(inputs[s][j], m)
  BY KeysTyped DEF Inv, KeyMap, has, SharesKey

\* Nothing is indexed yet
LEMMA InitInv == Init => Inv
<1> SUFFICES ASSUME Init PROVE Inv
  OBVIOUS
<1>1. \A s \in Side : Elems(entries[s]) = {} /\ Elems(missing[s]) = {}
  BY DEF Init, Elems
<1>2. TypeOK
  BY DedupAssumption DEF Init, TypeOK
<1>3. IndexIsGreedy
  BY <1>1 DEF Init, IndexIsGreedy, IsIndex
<1>4. KeyMap
  BY <1>1 DEF Init, KeyMap
<1>5. Progress
  BY ListingTyped DEF Init, Progress
<1>6. MissingSoFar
  BY <1>1 DEF Init, MissingSoFar, Missing, Walked
<1> QED
  BY <1>2, <1>3, <1>4, <1>5, <1>6 DEF Inv

\* One iteration of BuildFrom
LEMMA BuildStep ==
  ASSUME Inv, NEW s \in Side, BuildFrom(s)
  PROVE  Inv'
<1> DEFINE i == pos[s] + 1
           m == inputs[s][i]
           E == Elems(entries[s])
<1>1. /\ pos[s] < Len(inputs[s]) /\ pos' = [pos EXCEPT ![s] = i]
      /\ UNCHANGED <<inputs, mpos, missing>>
  BY DEF BuildFrom
<1>2. /\ inputs[s] \in Seq(Input) /\ Len(inputs[s]) \in 0..MaxMessages
      /\ pos[s] \in Nat /\ i \in 1..MaxMessages /\ i \in 1..Len(inputs[s]) /\ m \in Input
  BY <1>1, ListingTyped, DedupAssumption DEF Inv, TypeOK
<1>3. pos'[s] = i /\ \A t \in Side : t # s => pos'[t] = pos[t]
  BY <1>1 DEF Inv, TypeOK
<1>4. ~Built /\ \A t \in Side : mpos[t] = 0 /\ mpos'[t] = 0
  BY <1>1, <1>2 DEF Inv, Progress, Built
<1>5. Progress'
  <2>1. entries' = entries \/ entries' = [entries EXCEPT ![s] = Append(@, i)]
    BY DEF BuildFrom
  <2>2. \A t \in Side : Len(entries'[t]) \in Nat
    BY <1>2, <2>1 DEF Inv, TypeOK
  <2> QED
    BY <1>1, <1>2, <1>3, <1>4, <2>2 DEF Inv, Progress
<1>6. MissingSoFar'
  <2>1. \A t \in Side : Walked(t)' = {} /\ Walked(t) = {}
    BY <1>4 DEF Walked
  <2>2. \A t \in Side : Elems(missing[t]) = {}
    BY <2>1 DEF Inv, MissingSoFar, Missing
  <2> QED
    BY <1>1, <2>1, <2>2 DEF MissingSoFar, Missing
<1>7. CASE has(s, Keys(m))
  <2>1. dups' = [dups EXCEPT ![s] = @ + 1] /\ UNCHANGED <<entries, byKey>>
    BY <1>7 DEF BuildFrom
  <2>2. IndexIsGreedy'
    <3>1. \E j \in E : SharesKey(inputs[s][j], m)
      BY <1>2, <1>7, HasIsShared
    <3>2. IsIndex(E, 1..pos[s], inputs[s])
      BY DEF Inv, IndexIsGreedy
    <3>3. IsIndex(E, 1..i, inputs[s])
      BY <1>2, <3>1, <3>2 DEF IsIndex
    <3>4. Len(entries[s]) + dups'[s] = i
      BY <1>2, <2>1 DEF Inv, TypeOK, IndexIsGreedy
    <3> QED
      BY <1>1, <1>3, <2>1, <3>3, <3>4 DEF Inv, TypeOK, IndexIsGreedy
  <2>3. TypeOK'
    <3>2. /\ entries[s] \in Seq(1..MaxMessages) /\ dups[s] \in Nat
          /\ Len(entries[s]) + dups[s] = pos[s]
      BY DEF Inv, TypeOK, IndexIsGreedy
    <3>3. Len(entries[s]) \in Nat
      BY <3>2, SeqFacts
    <3>4. pos[s] + 1 <= MaxMessages
      BY <1>2
    <3>1. dups[s] + 1 \in 0..MaxMessages
      BY <1>2, <3>2, <3>3, <3>4, DedupAssumption
    <3> QED
      BY <1>1, <1>2, <2>1, <3>1 DEF Inv, TypeOK
  <2>4. KeyMap'
    BY <1>1, <2>1 DEF Inv, KeyMap
  <2> QED
    BY <1>5, <1>6, <2>2, <2>3, <2>4 DEF Inv
<1>8. CASE ~has(s, Keys(m))
  <2>1. /\ entries' = [entries EXCEPT ![s] = Append(@, i)]
        /\ byKey' = [byKey EXCEPT ![s] = [k \in AllKeys |-> IF k \in Keys(m) THEN i ELSE @[k]]]
        /\ UNCHANGED dups
    BY <1>8 DEF BuildFrom
  <2>2. entries[s] \in Seq(1..MaxMessages) /\ Elems(entries'[s]) = E \cup {i}
    <3>1. entries \in [Side -> Seq(1..MaxMessages)]
      BY DEF Inv, TypeOK
    <3>2. entries[s] \in Seq(1..MaxMessages) /\ entries'[s] = Append(entries[s], i)
      BY <2>1, <3>1
    <3>3. i \in 1..MaxMessages
      BY <1>2
    <3> HIDE DEF i
    <3>4. Elems(Append(entries[s], i)) = Elems(entries[s]) \cup {i}
      BY <3>2, <3>3, EntryAppended, Zenon
    <3> QED
      BY <3>2, <3>4
  <2>3. \A t \in Side : t # s => entries'[t] = entries[t] /\ byKey'[t] = byKey[t]
    BY <2>1 DEF Inv, TypeOK
  <2>4. IndexIsGreedy'
    <3>1. \A j \in E : ~SharesKey(inputs[s][j], m)
      BY <1>2, <1>8, HasIsShared
    <3>2. IsIndex(E, 1..pos[s], inputs[s])
      BY DEF Inv, IndexIsGreedy
    <3>3. IsIndex(E \cup {i}, 1..i, inputs[s])
      BY <1>2, <3>1, <3>2 DEF IsIndex
    <3>4. Len(entries'[s]) + dups[s] = i
      BY <1>2, <2>1, <2>2 DEF Inv, TypeOK, IndexIsGreedy
    <3> QED
      BY <1>1, <1>3, <2>1, <2>2, <2>3, <3>3, <3>4 DEF Inv, IndexIsGreedy
  <2>5. TypeOK'
    BY <1>1, <1>2, <2>1, <2>2, DedupAssumption DEF Inv, TypeOK
  <2>6. KeyMap'
    <3>1. \A k \in AllKeys : byKey'[s][k] = IF k \in Keys(m) THEN i ELSE byKey[s][k]
      BY <2>1 DEF Inv, TypeOK
    <3>2. \A k \in AllKeys : byKey'[s][k] # 0 <=> \E j \in E \cup {i} : k \in Keys(inputs[s][j])
      BY <1>2, <3>1 DEF Inv, KeyMap
    <3> QED
      BY <1>1, <2>2, <2>3, <3>2 DEF Inv, KeyMap
  <2> QED
    BY <1>5, <1>6, <2>4, <2>5, <2>6 DEF Inv
<1> QED
  BY <1>7, <1>8

\* One iteration of Missing
LEMMA MissingStepKeeps ==
  ASSUME Inv, NEW s \in Side, MissingStep(s)
  PROVE  Inv'
<1> DEFINE n == mpos[s] + 1
           i == entries[s][n]
           p == Peer(s)
<1>0. /\ inputs \in [Side -> Listing] /\ entries \in [Side -> Seq(1..MaxMessages)]
      /\ pos \in [Side -> 0..MaxMessages] /\ dups \in [Side -> 0..MaxMessages]
      /\ mpos \in [Side -> 0..MaxMessages]
  BY DEF Inv, TypeOK
<1>1. /\ Built /\ mpos[s] < Len(entries[s]) /\ mpos' = [mpos EXCEPT ![s] = n]
      /\ missing' = [missing EXCEPT ![s] = IF has(p, Keys(inputs[s][i])) THEN @ ELSE Append(@, i)]
      /\ UNCHANGED <<inputs, pos, entries, byKey, dups>>
  BY DEF MissingStep
<1>2. /\ inputs[s] \in Seq(Input) /\ Len(inputs[s]) \in 0..MaxMessages
      /\ entries[s] \in Seq(1..MaxMessages) /\ n \in 1..Len(entries[s]) /\ p \in Side
  <2>1. inputs[s] \in Listing /\ entries[s] \in Seq(1..MaxMessages) /\ mpos[s] \in 0..MaxMessages
    BY <1>0
  <2>2. p \in Side
    BY DEF Side, Peer
  <2>3. n \in 1..Len(entries[s])
    BY <1>1, <2>1, SeqFacts, DedupAssumption
  <2> HIDE DEF n
  <2> QED
    BY <2>1, <2>2, <2>3, ListingTyped
<1>3. Len(entries[s]) <= MaxMessages
  <2>1. pos[s] \in 0..MaxMessages /\ dups[s] \in 0..MaxMessages
    BY <1>0
  <2>2. Len(entries[s]) + dups[s] = pos[s]
    BY DEF Inv, IndexIsGreedy
  <2>3. Len(entries[s]) \in Nat
    BY <1>2, SeqFacts
  <2> QED
    BY <2>1, <2>2, <2>3, DedupAssumption
<1>4. i \in Elems(entries[s]) /\ i \in 1..MaxMessages /\ i \in 1..Len(inputs[s])
  <2>1. i \in Elems(entries[s])
    BY <1>2 DEF Elems
  <2>2. Elems(entries[s]) \subseteq 1..pos[s] /\ pos[s] = Len(inputs[s])
    BY <1>1 DEF Inv, IndexIsGreedy, IsIndex, Built
  <2>3. i \in 1..MaxMessages
    BY <1>2, SeqFacts
  <2> HIDE DEF i
  <2> QED
    BY <2>1, <2>2, <2>3
<1>5. inputs[s][i] \in Input
  BY <1>2, <1>4
<1>6. IndexIsGreedy' /\ KeyMap'
  BY <1>1 DEF Inv, IndexIsGreedy, KeyMap
<1>10. mpos[s] \in Nat /\ mpos'[s] = n /\ \A t \in Side : t # s => mpos'[t] = mpos[t]
  BY <1>1, DedupAssumption DEF Inv, TypeOK
<1>7. Progress'
  <2>1. Built' /\ \A t \in Side : mpos'[t] <= Len(entries[t])
    BY <1>1, <1>2, <1>10 DEF Inv, Progress, Built
  <2> QED
    BY <1>1, <2>1 DEF Inv, Progress
<1>11. missing[s] \in Seq(1..MaxMessages)
  BY DEF Inv, TypeOK
<1>12. /\ missing'[s] = IF has(p, Keys(inputs[s][i])) THEN missing[s] ELSE Append(missing[s], i)
       /\ \A t \in Side : t # s => missing'[t] = missing[t]
  BY <1>1 DEF Inv, TypeOK
<1>8. TypeOK'
  <2>1. missing'[s] \in Seq(1..MaxMessages)
    BY <1>4, <1>11, <1>12, SeqFacts
  <2>2. missing' \in [Side -> Seq(1..MaxMessages)]
    <3>1. missing' = [t \in Side |-> missing'[t]]
      BY <1>1 DEF Inv, TypeOK
    <3> QED
      BY <1>12, <2>1, <3>1 DEF Inv, TypeOK
  <2>3. mpos' \in [Side -> 0..MaxMessages]
    <3>1. n \in 0..MaxMessages
      <4>1. n \in 1..Len(entries[s]) /\ Len(entries[s]) <= MaxMessages /\ Len(entries[s]) \in Nat
        BY <1>2, <1>3, SeqFacts
      <4> HIDE DEF n
      <4> QED
        BY <4>1, DedupAssumption
    <3>2. mpos' = [mpos EXCEPT ![s] = n]
      BY <1>1
    <3> HIDE DEF n
    <3> QED
      BY <1>0, <3>1, <3>2
  <2> QED
    BY <1>1, <2>2, <2>3 DEF Inv, TypeOK
<1>9. MissingSoFar'
  <2>1. Walked(s)' = Walked(s) \cup {i}
    <3>1. 1..n = 1..mpos[s] \cup {n} /\ mpos'[s] = n
      BY <1>1, <1>2, SMTT(30) DEF Inv, TypeOK
    <3> QED
      BY <1>1, <3>1 DEF Walked
  <2>2. has(p, Keys(inputs[s][i])) <=> \E j \in Elems(entries[p]) : SharesKey(inputs[s][i], inputs[p][j])
    BY <1>2, <1>5, HasIsShared DEF SharesKey
  <2>3. Elems(missing'[s]) =
          IF has(p, Keys(inputs[s][i])) THEN Elems(missing[s]) ELSE Elems(missing[s]) \cup {i}
    <3>1. Elems(Append(missing[s], i)) = Elems(missing[s]) \cup {i}
      BY <1>4, <1>11, EntryAppended, Zenon
    <3>2. CASE has(p, Keys(inputs[s][i]))
      BY <1>12, <3>2
    <3>3. CASE ~has(p, Keys(inputs[s][i]))
      BY <1>12, <3>1, <3>3
    <3> QED
      BY <3>2, <3>3
  <2>4. Elems(missing'[s]) = Missing(Walked(s)', inputs[s], Elems(entries[p]), inputs[p])
    BY <2>1, <2>2, <2>3 DEF Inv, MissingSoFar, Missing
  <2>5. \A t \in Side : t # s => missing'[t] = missing[t] /\ Walked(t)' = Walked(t)
    BY <1>1, <1>10, <1>12 DEF Walked
  <2> QED
    BY <1>1, <2>4, <2>5 DEF Inv, MissingSoFar
<1> QED
  BY <1>6, <1>7, <1>8, <1>9 DEF Inv

\* The account of both loops holds in every state
THEOREM Invariance == Spec => []Inv
<1>1. Inv /\ [Next]_vars => Inv'
  <2> SUFFICES ASSUME Inv, [Next]_vars PROVE Inv'
    OBVIOUS
  <2>1. CASE UNCHANGED vars
    BY <2>1 DEF vars, Inv, TypeOK, IndexIsGreedy, KeyMap, Progress, Built, MissingSoFar, Walked
  <2>2. CASE Next
    BY <2>2, BuildStep, MissingStepKeeps DEF Next
  <2> QED
    BY <2>1, <2>2
<1> QED
  BY InitInv, <1>1, PTL DEF Spec

(***************************************************************************)
(* The types of the loops' variables; dups and the positions never exceed  *)
(* the length of a listing.                                                *)
(***************************************************************************)
THEOREM TypeCorrect == Spec => []TypeOK
  BY Invariance, PTL DEF Inv

(***************************************************************************)
(* BuildFrom: after any prefix of any listing the entries are exactly the  *)
(* messages that share no key with an earlier entry, and entries and       *)
(* duplicates add up to what was listed.                                   *)
(***************************************************************************)
THEOREM BuildFromIsGreedy == Spec => []IndexIsGreedy
  BY Invariance, PTL DEF Inv

(***************************************************************************)
(* Missing: what Delta sends to a side shares no key with an entry there,  *)
(* and what it holds back does.                                            *)
(***************************************************************************)
THEOREM MissingIsExact == Spec => []DeltaIsExact
<1>1. Inv => DeltaIsExact
  BY DEF Inv, MissingSoFar, Walked, Elems, DeltaIsExact
<1> QED
  BY Invariance, <1>1, PTL
=============================================================================
