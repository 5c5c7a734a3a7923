--------------------------- MODULE SyncPairProofs ---------------------------
(***************************************************************************)
(* Proofs about SyncPair, for every value of its constants: any set of     *)
(* IDs, any mail, any number of deliveries, expunges, renumberings and     *)
(* failures, incremental or not.  Four parts, each resting on the one      *)
(* before: types (TypeCorrect), the state cache (CacheIsSound,             *)
(* IndexIsSound), no mail twice and the promise of TwoWaySync              *)
(* (NothingTwice, KeepsThePromise), the second pass                        *)
(* (SecondPassFindsNothing).                                               *)
(***************************************************************************)
EXTENDS SyncPair, TLAPS, WellFoundedInduction

(***************************************************************************)
(* There is something to copy only during the copy phase, A->B before      *)
(* B->A, and only what the other side's index has an entry for.            *)
(***************************************************************************)
Shape ==
  /\ pc # "copy" => \A s \in Side : todo[s] = {}
  /\ (pc = "copy" /\ cs = "a") => todo["b"] = {}
  /\ \A s \in Side : todo[s] \subseteq Dom(idx[Peer(s)])

-----------------------------------------------------------------------------
\* The locals of syncPair are well typed when it returns
LEMMA EndPassTyped ==
  ASSUME EndPass
  PROVE  /\ pc' = "idle" /\ cs' \in Side
         /\ sel' \in [Side -> Epochs \cup {None}]
         /\ cached' \in [IDs -> Rows]
         /\ cur' \in SUBSET IDs /\ got' \in SUBSET IDs /\ gone' \in SUBSET IDs
         /\ idx' \in [Side -> [IDs -> Rows]]
         /\ todo' \in [Side -> SUBSET IDs]
         /\ copied' \in [Side -> [IDs -> Rows]]
  BY DEF EndPass, NoRows, Rows, Side

\* Before the first pass everything is empty
LEMMA InitTyped == Init => TypeOK
  BY SyncPairAssumption DEF Init, TypeOK, NoRows, Rows, Side, Epochs

\* What ParseMessage returns is a row
LEMMA ParseTyped == \A m \in Message : ParseMessage(m) \in Fields
  BY DEF Message, Fields, ParseMessage

\* New IDs are IDs
LEMMA NewIDsTyped == \A s \in Side : NewIDs(s) \subseteq IDs
  BY DEF NewIDs, Least

\* The mailboxes and the cache keep their types when others use them
LEMMA EnvironmentTyped == TypeOK /\ Environment => TypeOK'
<1> SUFFICES ASSUME TypeOK, Environment PROVE TypeOK'
  OBVIOUS
<1> USE DEF TypeOK
<1>1. ASSUME NEW s \in Side, Deliver(s) PROVE TypeOK'
  <2>1. PICK f \in Arrivals, i \in NewIDs(s) :
          Store(s, i, [mid |-> f.mid, xhash |-> f.xhash, sur |-> f.sur, tag |-> born + 1])
    BY <1>1 DEF Deliver
  <2>2. i \in IDs /\ f \in Fields
    BY NewIDsTyped, SyncPairAssumption
  <2>3. born + 1 \in Tags /\ born + 1 \in 0..MaxTag
    BY <1>1, SyncPairAssumption DEF Deliver, Tags
  <2>4. [mid |-> f.mid, xhash |-> f.xhash, sur |-> f.sur, tag |-> born + 1] \in Message
    BY <2>2, <2>3 DEF Fields, Message
  <2>5. folder' \in [Side -> [IDs -> Message \cup {None}]] /\ used' \in [Side -> SUBSET IDs]
    BY <2>1, <2>2, <2>4 DEF Store
  <2> QED
    BY <1>1, <2>3, <2>5 DEF Deliver, cacheVars, passVars
<1>2. ASSUME NEW s \in Side, Expunge(s) PROVE TypeOK'
  BY <1>2, SyncPairAssumption DEF Expunge, Dom, cacheVars, passVars
<1>3. ASSUME NEW s \in Side, AssignMessageID(s) PROVE TypeOK'
  <2>1. PICK i \in Dom(folder[s]), k \in ServerMIDs : folder' = [folder EXCEPT ![s][i].mid = k]
    BY <1>3 DEF AssignMessageID
  <2>2. i \in IDs /\ folder[s][i] \in Message
    BY DEF Dom
  <2>3. [folder[s][i] EXCEPT !.mid = k] \in Message
    <3>1. k \in MIds
      BY SyncPairAssumption
    <3> QED
      BY <2>2, <3>1 DEF Message
  <2>4. folder' \in [Side -> [IDs -> Message \cup {None}]]
    BY <2>1, <2>2, <2>3
  <2> QED
    BY <1>3, <2>4 DEF AssignMessageID, cacheVars, passVars
<1>4. ASSUME NEW s \in Side, Renumber(s) PROVE TypeOK'
  <2>1. PICK g \in [Dom(folder[s]) -> IDs] :
          /\ folder' = [folder EXCEPT ![s] =
               [k \in IDs |-> IF \E i \in Dom(folder[s]) : g[i] = k
                              THEN folder[s][CHOOSE i \in Dom(folder[s]) : g[i] = k] ELSE None]]
          /\ used' = [used EXCEPT ![s] = {g[i] : i \in Dom(folder[s])}]
    BY <1>4 DEF Renumber
  <2>2. used' \in [Side -> SUBSET IDs]
    BY <2>1
  <2>3. \A k \in IDs : (\E i \in Dom(folder[s]) : g[i] = k) =>
          folder[s][CHOOSE i \in Dom(folder[s]) : g[i] = k] \in Message \cup {None}
    BY DEF Dom
  <2>4. folder' \in [Side -> [IDs -> Message \cup {None}]]
    BY <2>1, <2>3
  <2>5. epoch' \in [Side -> Epochs]
    BY <1>4, SyncPairAssumption DEF Renumber, Epochs
  <2> QED
    BY <1>4, <2>2, <2>4, <2>5 DEF Renumber, cacheVars, passVars
<1>5. CASE ForgetUser
  BY <1>5, SyncPairAssumption DEF ForgetUser, NoRows, Rows, mailVars, passVars
<1> QED
  BY <1>1, <1>2, <1>3, <1>4, <1>5, SyncPairAssumption DEF Environment

\* Failures end the pass or what is left of it
LEMMA FailureTyped == TypeOK /\ (FolderError \/ Crash \/ Interrupted) => TypeOK'
<1> SUFFICES ASSUME TypeOK, FolderError \/ Crash \/ Interrupted PROVE TypeOK'
  OBVIOUS
<1> USE DEF TypeOK
<1>1. CASE FolderError
  BY <1>1, EndPassTyped, SyncPairAssumption DEF FolderError, Fault, mailVars, cacheVars
<1>2. CASE Crash
  BY <1>2, EndPassTyped, SyncPairAssumption DEF Crash, Fault, mailVars, cacheVars
<1>3. CASE Interrupted
  BY <1>3, SyncPairAssumption DEF Interrupted, Fault, mailVars, cacheVars
<1> QED
  BY <1>1, <1>2, <1>3

\* A database write counts at most one fault
LEMMA DbFaultsTyped ==
  ASSUME TypeOK, NEW S, NEW ok \in DbWrites(S), DbFaults(ok)
  PROVE  faults' \in 0..MaxFaults
<1>1. CASE ok
  BY <1>1, SyncPairAssumption DEF TypeOK, DbFaults
<1>2. CASE ~ok
  <2>1. faults # MaxFaults
    BY <1>2 DEF DbWrites
  <2>2. faults' = faults + 1
    BY <1>2 DEF DbFaults
  <2> QED
    BY <2>1, <2>2, SyncPairAssumption DEF TypeOK
<1> QED
  BY <1>1, <1>2

\* The index of one side and, after side b, the delta
LEMMA BuildIndexTyped ==
  ASSUME TypeOK, NEW s \in Side, NEW ids \in SUBSET IDs, NEW rows \in [IDs -> Rows],
         BuildIndex(s, ids, rows)
  PROVE  /\ pc' \in {"load", "fetch", "copy"} /\ cs' \in Side
         /\ idx' \in [Side -> [IDs -> Rows]]
         /\ todo' \in [Side -> SUBSET IDs]
         /\ cached' \in [IDs -> Rows]
         /\ cur' \in SUBSET IDs /\ got' \in SUBSET IDs /\ gone' \in SUBSET IDs
<1>1. PICK E \in SUBSET ids : idx' = [idx EXCEPT ![s] = Without(rows, IDs \ E)]
  BY DEF BuildIndex
<1>2. idx' \in [Side -> [IDs -> Rows]]
  BY <1>1 DEF TypeOK, Without, Rows
<1>3. todo' \in [Side -> SUBSET IDs]
  <2>1. CASE s = "a"
    BY <2>1 DEF BuildIndex, TypeOK
  <2>2. CASE s # "a"
    <3>1. todo' = [d \in Side |->
            IF allow(d) THEN Missing(Dom(idx'[Peer(d)]), idx'[Peer(d)], Dom(idx'[d]), idx'[d]) ELSE {}]
      BY <2>2 DEF BuildIndex
    <3>2. \A d \in Side : Missing(Dom(idx'[Peer(d)]), idx'[Peer(d)], Dom(idx'[d]), idx'[d]) \subseteq IDs
      BY DEF Missing, Dom
    <3> QED
      BY <3>1, <3>2
  <2> QED
    BY <2>1, <2>2
<1>4. /\ pc' \in {"load", "fetch", "copy"} /\ cs' \in Side
      /\ cached' = NoRows /\ cur' = {} /\ got' = {} /\ gone' = {}
  BY DEF BuildIndex, Side
<1> QED
  BY <1>2, <1>3, <1>4 DEF NoRows, Rows

\* Selecting, loading and indexing the folders
LEMMA IndexTyped ==
  ASSUME TypeOK, NEW s \in Side,
         \/ Select(s) \/ LoadEndpoint(s) \/ ResetEndpoint(s) \/ ListIDs(s) \/ FetchMeta(s)
         \/ PutCachedMsgs(s) \/ DeleteCachedMsgs(s) \/ SaveEndpoint(s) \/ IndexFolderFull(s)
  PROVE  TypeOK'
<1> USE DEF TypeOK
<1>1. CASE Select(s)
  BY <1>1 DEF Select, Side, Peer, mailVars, cacheVars
<1>2. CASE LoadEndpoint(s)
  BY <1>2 DEF LoadEndpoint, NoRows, Rows, mailVars, cacheVars
<1>3. CASE ResetEndpoint(s)
  BY <1>3 DEF ResetEndpoint, NoRows, Rows, mailVars
<1>4. CASE ListIDs(s)
  BY <1>4 DEF ListIDs, Dom, mailVars, cacheVars
<1>5. CASE FetchMeta(s)
  <2> DEFINE ok == {i \in Fetched(s) : ParseFields(folder[s][i])}
  <2>1. ok \subseteq IDs /\ \A i \in ok : folder[s][i] \in Message
    BY DEF Dom, Fetched
  <2>2. cached' = [i \in IDs |-> IF i \in ok THEN ParseMessage(folder[s][i]) ELSE cached[i]] /\ got' = ok
    BY <1>5 DEF FetchMeta
  <2> HIDE DEF ok
  <2>3. cached' \in [IDs -> Rows] /\ got' \in SUBSET IDs
    BY <2>1, <2>2, ParseTyped DEF Rows
  <2> QED
    BY <1>5, <2>3 DEF FetchMeta, mailVars, cacheVars
<1>6. CASE PutCachedMsgs(s)
  <2>1. PICK ok \in DbWrites(got) :
          DbFaults(ok) /\ db' = IF ok THEN [db EXCEPT ![s] = Upsert(@, cached, got)] ELSE db
    BY <1>6 DEF PutCachedMsgs
  <2>2. faults' \in 0..MaxFaults
    BY <2>1, DbFaultsTyped
  <2>3. Upsert(db[s], cached, got) \in [IDs -> Rows]
    BY DEF Upsert
  <2>4. db' \in [Side -> [IDs -> Rows]]
    BY <2>1, <2>3
  <2> QED
    BY <1>6, <2>2, <2>4 DEF PutCachedMsgs, mailVars
<1>7. CASE DeleteCachedMsgs(s)
  <2>1. PICK ok \in DbWrites(gone), part \in SUBSET gone :
          DbFaults(ok) /\ db' = [db EXCEPT ![s] = Without(@, part)]
    BY <1>7 DEF DeleteCachedMsgs
  <2>2. faults' \in 0..MaxFaults
    BY <2>1, DbFaultsTyped
  <2>3. /\ db' \in [Side -> [IDs -> Rows]]
        /\ Without(cached, gone) \in [IDs -> Rows]
    BY <2>1 DEF Without, Rows
  <2> QED
    BY <1>7, <2>2, <2>3 DEF DeleteCachedMsgs, mailVars
<1>8. CASE SaveEndpoint(s)
  <2>1. PICK ok \in DbWrites({s}) :
          DbFaults(ok) /\ row' = IF ok THEN [row EXCEPT ![s] = sel[s]] ELSE row
    BY <1>8 DEF SaveEndpoint
  <2>2. faults' \in 0..MaxFaults
    BY <2>1, DbFaultsTyped
  <2>3. row' \in [Side -> Epochs \cup {None}]
    BY <2>1
  <2>4. cur \cap Dom(cached) \in SUBSET IDs /\ BuildIndex(s, cur \cap Dom(cached), cached)
    BY <1>8 DEF SaveEndpoint
  <2> QED
    BY <1>8, <2>2, <2>3, <2>4, BuildIndexTyped DEF SaveEndpoint, mailVars
<1>9. CASE IndexFolderFull(s)
  <2> DEFINE ok == {i \in Dom(folder[s]) : ParseFields(folder[s][i])}
             rows == [i \in IDs |-> IF i \in ok THEN ParseMessage(folder[s][i]) ELSE None]
  <2>1. ok \subseteq IDs /\ \A i \in ok : folder[s][i] \in Message
    BY DEF Dom
  <2>2. rows \in [IDs -> Rows]
    BY <2>1, ParseTyped DEF Rows
  <2>3. BuildIndex(s, ok, rows)
    BY <1>9 DEF IndexFolderFull
  <2> HIDE DEF ok, rows
  <2> QED
    BY <1>9, <2>1, <2>2, <2>3, BuildIndexTyped DEF IndexFolderFull, mailVars, cacheVars
<1> QED
  BY <1>1, <1>2, <1>3, <1>4, <1>5, <1>6, <1>7, <1>8, <1>9

\* Copying and writing the copies' rows
LEMMA CopyTyped ==
  ASSUME TypeOK, Shape, NEW s \in Side,
         CopyOne(s) \/ CopyError(s) \/ CopyDone(s) \/ PutCopied(s)
  PROVE  TypeOK'
<1> USE DEF TypeOK
<1>1. CASE CopyOne(s)
  <2>1. PICK e \in NextEntry(s), ack \in BOOLEAN :
          /\ folder[Peer(s)][e] # None
          /\ \E i \in NewIDs(s), v \in StoredHashes(s, folder[Peer(s)][e]) :
               /\ Store(s, i, [WithHeader(folder[Peer(s)][e], idx[Peer(s)][e].sur) EXCEPT !.sur = v])
               /\ copied' = IF ack /\ Incremental /\ s \in ReportsID
                            THEN [copied EXCEPT ![s][i] = [mid |-> idx[Peer(s)][e].mid,
                                                           xhash |-> idx[Peer(s)][e].sur,
                                                           sur |-> idx[Peer(s)][e].sur]]
                            ELSE copied
          /\ ack \/ faults < MaxFaults
          /\ faults' = IF ack THEN faults ELSE faults + 1
          /\ quiet' = IF ack THEN quiet ELSE "no"
          /\ todo' = [todo EXCEPT ![s] = @ \ {e}]
    BY <1>1 DEF CopyOne
  <2> DEFINE m == folder[Peer(s)][e]
             r == idx[Peer(s)][e]
  <2>7. PICK i \in NewIDs(s), v \in StoredHashes(s, m) :
          /\ Store(s, i, [WithHeader(m, r.sur) EXCEPT !.sur = v])
          /\ copied' = IF ack /\ Incremental /\ s \in ReportsID
                       THEN [copied EXCEPT ![s][i] = [mid |-> r.mid, xhash |-> r.sur, sur |-> r.sur]]
                       ELSE copied
    BY <2>1
  <2>2. Peer(s) \in Side /\ i \in IDs /\ e \in todo[s] /\ e \in IDs
    BY <2>1, NewIDsTyped DEF Peer, Side, NextEntry, Least
  <2>3. m \in Message /\ r \in Fields
    BY <2>1, <2>2 DEF Shape, Dom, Rows
  <2>4. v \in Hashes \cup {None}
    BY <2>7, <2>3, SyncPairAssumption DEF StoredHashes, Message
  <2>5. [WithHeader(m, r.sur) EXCEPT !.sur = v] \in Message
    BY <2>3, <2>4 DEF WithHeader, Message, Fields
  <2>6. [mid |-> r.mid, xhash |-> r.sur, sur |-> r.sur] \in Rows
    BY <2>3 DEF Fields, Rows
  <2> HIDE DEF m, r
  <2>9. folder' \in [Side -> [IDs -> Message \cup {None}]] /\ used' \in [Side -> SUBSET IDs]
    BY <2>2, <2>5, <2>7 DEF Store
  <2>10. copied' \in [Side -> [IDs -> Rows]]
    BY <2>2, <2>6, <2>7
  <2>11. faults' \in 0..MaxFaults /\ quiet' \in {"no", "pass", "yes"} /\ todo' \in [Side -> SUBSET IDs]
    BY <2>1, SyncPairAssumption
  <2> QED
    BY <1>1, <2>9, <2>10, <2>11 DEF CopyOne, cacheVars
<1>2. CASE CopyError(s)
  <2>1. PICK e \in NextEntry(s) : todo' = [todo EXCEPT ![s] = @ \ {e}]
    BY <1>2 DEF CopyError
  <2>2. todo' \in [Side -> SUBSET IDs]
    BY <2>1
  <2>3. faults' \in 0..MaxFaults
    BY <1>2, SyncPairAssumption DEF CopyError, Fault
  <2> QED
    BY <1>2, <2>2, <2>3 DEF CopyError, mailVars, cacheVars
<1>3. CASE CopyDone(s)
  <2>1. CASE EndPass
    BY <1>3, <2>1, EndPassTyped DEF CopyDone, mailVars, cacheVars
  <2>2. CASE ~EndPass
    BY <1>3, <2>2 DEF CopyDone, Peer, Side, mailVars, cacheVars
  <2> QED
    BY <2>1, <2>2
<1>4. CASE PutCopied(s)
  <2>1. PICK ok \in DbWrites(Dom(copied[s])) :
          DbFaults(ok) /\ db' = IF ok THEN [db EXCEPT ![s] = Upsert(@, copied[s], Dom(copied[s]))] ELSE db
    BY <1>4 DEF PutCopied
  <2>2. faults' \in 0..MaxFaults
    BY <2>1, DbFaultsTyped
  <2>3. Upsert(db[s], copied[s], Dom(copied[s])) \in [IDs -> Rows]
    BY DEF Upsert
  <2>4. db' \in [Side -> [IDs -> Rows]]
    BY <2>1, <2>3
  <2>5. CASE EndPass
    BY <1>4, <2>2, <2>4, <2>5, EndPassTyped DEF PutCopied, mailVars
  <2>6. CASE ~EndPass
    BY <1>4, <2>2, <2>4, <2>6 DEF PutCopied, Side, mailVars
  <2> QED
    BY <2>5, <2>6
<1> QED
  BY <1>1, <1>2, <1>3, <1>4

\* Nothing but BuildIndex, the copy loop and the end of the pass touches the work list
LEMMA ShapeStep == TypeOK /\ Shape /\ [Next]_vars => Shape'
<1> SUFFICES ASSUME TypeOK, Shape, [Next]_vars PROVE Shape'
  OBVIOUS
<1>1. CASE UNCHANGED <<pc, cs, idx, todo>>
  BY <1>1 DEF Shape, Dom
<1>2. CASE EndPass
  BY <1>2 DEF EndPass, Shape, Side
<1>3. CASE pc # "copy" /\ pc' # "copy" /\ UNCHANGED <<idx, todo>>
  BY <1>3 DEF Shape, Dom
<1>4. CASE Interrupted
  BY <1>4 DEF Interrupted, Shape, Side
<1>5. ASSUME NEW s \in Side, SaveEndpoint(s) \/ IndexFolderFull(s) PROVE Shape'
  <2>1. PICK ids, rows : BuildIndex(s, ids, rows)
    BY <1>5 DEF SaveEndpoint, IndexFolderFull
  <2>2. \A t \in Side : todo[t] = {}
    BY <1>5 DEF SaveEndpoint, IndexFolderFull, Shape
  <2>3. CASE s = "a"
    BY <2>1, <2>2, <2>3 DEF BuildIndex, Shape, Side
  <2>4. CASE s # "a"
    <3>1. /\ pc' = "copy" /\ cs' = "b"
          /\ todo' = [d \in Side |->
               IF allow(d) THEN Missing(Dom(idx'[Peer(d)]), idx'[Peer(d)], Dom(idx'[d]), idx'[d]) ELSE {}]
      BY <2>1, <2>4 DEF BuildIndex
    <3>2. \A d \in Side : todo'[d] \subseteq Dom(idx'[Peer(d)])
      BY <3>1 DEF Missing
    <3> QED
      BY <3>1, <3>2 DEF Shape, Dom
  <2> QED
    BY <2>3, <2>4
<1>6. ASSUME NEW s \in Side, CopyOne(s) \/ CopyError(s) PROVE Shape'
  <2>1. PICK e : todo' = [todo EXCEPT ![s] = @ \ {e}]
    BY <1>6 DEF CopyOne, CopyError
  <2>2. UNCHANGED <<pc, cs, idx>>
    BY <1>6 DEF CopyOne, CopyError
  <2>3. \A t \in Side : todo'[t] \subseteq todo[t]
    BY <2>1 DEF TypeOK
  <2> QED
    BY <2>2, <2>3 DEF Shape, Dom, Side
<1>7. ASSUME NEW s \in Side, CopyDone(s) PROVE Shape'
  <2>1. CASE EndPass
    BY <2>1, <1>2
  <2>2. CASE s = "b" /\ cs' = "a" /\ pc' = "copy" /\ UNCHANGED <<idx, todo>>
    BY <1>7, <2>2 DEF CopyDone, Shape, Dom, Side
  <2>3. CASE s = "a" /\ pc' = "post" /\ UNCHANGED <<idx, todo>>
    BY <1>7, <2>3 DEF CopyDone, Shape, Dom, Side
  <2> QED
    BY <1>7, <2>1, <2>2, <2>3 DEF CopyDone, Peer, Side
<1>8. ASSUME NEW s \in Side, PutCopied(s) PROVE Shape'
  BY <1>8, <1>2, <1>3 DEF PutCopied
<1>9. ASSUME NEW s \in Side,
             \/ Select(s) \/ LoadEndpoint(s) \/ ResetEndpoint(s) \/ ListIDs(s) \/ FetchMeta(s)
             \/ PutCachedMsgs(s) \/ DeleteCachedMsgs(s)
      PROVE  Shape'
  BY <1>9, <1>3 DEF Select, LoadEndpoint, ResetEndpoint, ListIDs, FetchMeta, PutCachedMsgs, DeleteCachedMsgs
<1>10. CASE Environment
  BY <1>10, <1>1 DEF Environment, Deliver, Expunge, AssignMessageID, Renumber, ForgetUser, passVars
<1>11. CASE FolderError \/ Crash
  BY <1>11, <1>2 DEF FolderError, Crash
<1>12. CASE UNCHANGED vars
  BY <1>12, <1>1 DEF vars, passVars
<1> QED
  BY <1>4, <1>5, <1>6, <1>7, <1>8, <1>9, <1>10, <1>11, <1>12 DEF Next, Pass

(***************************************************************************)
(* Every variable keeps its type under every interleaving of the pass with *)
(* deliveries, expunges, renumberings, failures and crashes; in particular *)
(* copyMissing never meets an entry without an index row.                  *)
(***************************************************************************)
THEOREM TypeCorrect == Spec => [](TypeOK /\ Shape)
<1>1. Init => TypeOK /\ Shape
  BY InitTyped DEF Init, Shape, Side
<1>2. TypeOK /\ Shape /\ [Next]_vars => TypeOK' /\ Shape'
  <2> SUFFICES ASSUME TypeOK, Shape, [Next]_vars PROVE TypeOK'
    BY ShapeStep
  <2>1. CASE Environment
    BY <2>1, EnvironmentTyped
  <2>2. CASE Pass
    BY <2>2, IndexTyped, CopyTyped DEF Pass
  <2>3. CASE FolderError \/ Crash \/ Interrupted
    BY <2>3, FailureTyped
  <2>4. CASE UNCHANGED vars
    BY <2>4 DEF vars, mailVars, cacheVars, passVars, TypeOK
  <2> QED
    BY <2>1, <2>2, <2>3, <2>4 DEF Next
<1> QED
  BY <1>1, <1>2, PTL DEF Spec

-----------------------------------------------------------------------------
(***************************************************************************)
(* The state cache of SyncPair is sound, for every value of the constants, *)
(* in incremental mode with a positive full_resync_every and servers that  *)
(* store what they are sent: a row that is trusted describes the message   *)
(* that has its ID.                                                        *)
(***************************************************************************)

(***************************************************************************)
(* What a row may lack of the mail it is made from: a Message-ID that the  *)
(* server has assigned since, and, for the row copyMissing makes of a      *)
(* copy, the header that the copy carried already.                         *)
(***************************************************************************)
Describes(r, m) ==
  /\ r.sur = m.sur /\ r.sur # None
  /\ r.mid = m.mid \/ (r.mid = None /\ m.mid \in ServerMIDs)
  /\ r.xhash = m.xhash \/ (Incremental /\ r.xhash = m.sur)

(***************************************************************************)
(* Rows f fit a folder fo whose given-out IDs are u: a row belongs to an   *)
(* ID that was given out, so no later message can get that ID, and         *)
(* describes the message there, if it is still there.                      *)
(***************************************************************************)
Fit(f, fo, u) ==
  \A i \in IDs : f[i] # None => i \in u /\ (fo[i] # None => Describes(f[i], fo[i]))

Fits(s, f) == Fit(f, folder[s], used[s])

\* The calls of indexFolderIncremental after LoadEndpoint and a reset
Indexing == pc \in {"list", "fetch", "put", "gone", "save"}

\* The one call of indexFolderFull
FullFetch == pc = "fetch" /\ ~Incremental

\* Only given-out IDs are in use
GivenOut == \A s \in Side : \A i \in IDs : folder[s][i] # None => i \in used[s]

\* A validity is remembered by the pass only while it is the folder's
Validity ==
  /\ \A s \in Side : row[s] # None => row[s] <= epoch[s]
  /\ \A s \in Side : sel[s] # None => sel[s] = epoch[s]
  /\ pc = "idle" => \A s \in Side : sel[s] = None
  /\ pc = "select" => sel["a"] # None
  /\ pc \notin {"idle", "select"} => \A s \in Side : sel[s] # None

\* Nothing is left over from an earlier pass
Fresh ==
  /\ pc \in {"idle", "select", "load"} => cached = NoRows
  /\ pc \in {"idle", "select"} => \A s \in Side : idx[s] = NoRows /\ copied[s] = NoRows

(***************************************************************************)
(* The rows that are trusted, or are going to be: those in the database    *)
(* under the folder's validity; those of the side being indexed, whose     *)
(* endpoint row SaveEndpoint is about to write; and those in memory.       *)
(***************************************************************************)
Trusted ==
  /\ \A s \in Side : row[s] = epoch[s] => Fits(s, db[s])
  /\ (Indexing /\ ~FullFetch) => Fits(cs, db[cs])
  /\ Indexing => Fits(cs, cached)
  /\ \A s \in Side : Fits(s, idx[s]) /\ Fits(s, copied[s])

\* A full pass makes no use of the cache
Modes == pc \in {"load", "reset", "list", "put", "gone", "save", "post"} => Incremental

Core == GivenOut /\ Validity /\ Fresh /\ Modes /\ Trusted

Premise == Incremental => FullResync /\ Rewrites = {}

-----------------------------------------------------------------------------
\* The keys of a message, one by one
LEMMA KeysAre ==
  ASSUME NEW m, NEW x
  PROVE  x \in Keys(m) <=> \/ m.mid # None /\ x = <<"mid", m.mid>>
                           \/ m.xhash # None /\ x = <<"hash", m.xhash>>
                           \/ x = <<"hash", m.sur>>
  BY DEF Keys, MatchKeysFrom

\* A row has only keys of the mail it describes
LEMMA DescribesKeys ==
  ASSUME NEW r, NEW m, Describes(r, m)
  PROVE  Keys(r) \subseteq Keys(m)
  BY KeysAre DEF Describes

\* What is fetched and parsed describes the mail
LEMMA DescribesParsed == \A m : ParseFields(m) => Describes(ParseMessage(m), m)
  BY DEF Describes, ParseMessage, ParseFields

\* The row copyMissing makes of an entry describes the copy that is stored
LEMMA DescribesCopy ==
  ASSUME NEW m \in Message, NEW r \in Fields, Describes(r, m), Incremental
  PROVE  Describes([mid |-> r.mid, xhash |-> r.sur, sur |-> r.sur],
                   [WithHeader(m, r.sur) EXCEPT !.sur = m.sur])
<1> DEFINE w == [mid |-> r.mid, xhash |-> r.sur, sur |-> r.sur]
           y == [WithHeader(m, r.sur) EXCEPT !.sur = m.sur]
<1>1. y.mid = m.mid /\ y.sur = m.sur
  BY DEF WithHeader, Message
<1>2. w.mid = r.mid /\ w.xhash = r.sur /\ w.sur = r.sur
  OBVIOUS
<1> HIDE DEF w, y
<1>3. Describes(w, y)
  BY <1>1, <1>2 DEF Describes
<1> QED
  BY <1>3 DEF w, y

\* A new message gets an ID that was never given out before
LEMMA NewIDsAreNew ==
  ASSUME TypeOK, NEW s \in Side, NEW i \in NewIDs(s)
  PROVE  i \in IDs /\ i \notin used[s]
  BY SyncPairAssumption DEF TypeOK, NewIDs, Least

-----------------------------------------------------------------------------
(***************************************************************************)
(* All that happens to a folder between two renumberings: more IDs are     *)
(* given out, messages go, and a message that stays may get a Message-ID.  *)
(***************************************************************************)
Ages(m, n) ==
  /\ n.sur = m.sur /\ n.xhash = m.xhash /\ n.tag = m.tag
  /\ n.mid = m.mid \/ (m.mid = None /\ n.mid \in ServerMIDs)

Grows(s) ==
  /\ used[s] \subseteq used'[s]
  /\ \A i \in used[s] : folder'[s][i] # None =>
       folder[s][i] # None /\ Ages(folder[s][i], folder'[s][i])

\* A row goes on describing its mail
LEMMA DescribesAged ==
  ASSUME NEW r, NEW m, NEW n, Describes(r, m), Ages(m, n)
  PROVE  Describes(r, n)
<1>1. None \notin ServerMIDs
  BY SyncPairAssumption, MessagesAssumption
<1> QED
  BY <1>1 DEF Describes, Ages

\* Rows that fit go on fitting while the folder grows
LEMMA FitKept ==
  ASSUME NEW s \in Side, Grows(s), NEW f, Fit(f, folder[s], used[s])
  PROVE  Fit(f, folder'[s], used'[s])
  BY DescribesAged DEF Grows, Fit

\* No row fits anything
LEMMA NoRowsFit == \A fo, u : Fit(NoRows, fo, u)
  BY DEF Fit, NoRows

\* A message stored under a new ID
LEMMA StoreGrows ==
  ASSUME TypeOK, GivenOut, NEW s \in Side, NEW i \in NewIDs(s), NEW m, m # None, Store(s, i, m)
  PROVE  /\ \A t \in Side : Grows(t)
         /\ GivenOut'
         /\ folder'[s][i] = m /\ i \in used'[s]
<1>1. i \in IDs /\ i \notin used[s]
  BY NewIDsAreNew
<1>2. \A t \in Side, j \in IDs :
        folder'[t][j] = IF t = s /\ j = i THEN m ELSE folder[t][j]
  BY <1>1 DEF Store, TypeOK
<1>3. \A t \in Side : used'[t] = IF t = s THEN used[t] \cup {i} ELSE used[t]
  BY DEF Store, TypeOK
<1>4. \A t \in Side : used[t] \subseteq IDs
  BY DEF TypeOK
<1>5. \A t \in Side : Grows(t)
  BY <1>1, <1>2, <1>3, <1>4 DEF Grows, Ages
<1>6. GivenOut'
  BY <1>2, <1>3 DEF GivenOut
<1> QED
  BY <1>1, <1>2, <1>3, <1>5, <1>6

\* Others use the mailboxes
LEMMA MailGrows ==
  ASSUME TypeOK, GivenOut, NEW s \in Side, Deliver(s) \/ Expunge(s) \/ AssignMessageID(s)
  PROVE  (\A t \in Side : Grows(t)) /\ GivenOut'
<1>1. CASE Deliver(s)
  <2>1. PICK f \in Arrivals, i \in NewIDs(s) :
          Store(s, i, [mid |-> f.mid, xhash |-> f.xhash, sur |-> f.sur, tag |-> born + 1])
    BY <1>1 DEF Deliver
  <2>2. [mid |-> f.mid, xhash |-> f.xhash, sur |-> f.sur, tag |-> born + 1] \in Message
    BY <1>1, SyncPairAssumption DEF Deliver, TypeOK, Message, Fields, Tags
  <2>3. [mid |-> f.mid, xhash |-> f.xhash, sur |-> f.sur, tag |-> born + 1] # None
    BY <2>2, SyncPairAssumption
  <2> QED
    BY <2>1, <2>3, StoreGrows
<1>2. CASE Expunge(s)
  <2>1. PICK i \in Dom(folder[s]) : folder' = [folder EXCEPT ![s][i] = None]
    BY <1>2 DEF Expunge
  <2>2. \A t \in Side, j \in IDs :
          folder'[t][j] = IF t = s /\ j = i THEN None ELSE folder[t][j]
    BY <2>1 DEF TypeOK, Dom
  <2>3. used' = used /\ \A t \in Side : used[t] \subseteq IDs
    BY <1>2 DEF Expunge, TypeOK
  <2> QED
    BY <2>2, <2>3 DEF Grows, Ages, GivenOut
<1>3. CASE AssignMessageID(s)
  <2>1. PICK i \in Dom(folder[s]), k \in ServerMIDs :
          folder[s][i].mid = None /\ folder' = [folder EXCEPT ![s][i].mid = k]
    BY <1>3 DEF AssignMessageID
  <2> DEFINE m == folder[s][i]
             y == [m EXCEPT !.mid = k]
  <2>2. i \in IDs /\ m \in Message /\ m # None
    BY DEF Dom, TypeOK
  <2>3. y \in Message /\ y # None
    BY <2>2, SyncPairAssumption DEF Message
  <2>4. Ages(m, y)
    BY <2>1, <2>2 DEF Ages, Message
  <2>5. \A t \in Side, j \in IDs :
          folder'[t][j] = IF t = s /\ j = i THEN y ELSE folder[t][j]
    BY <2>1, <2>2 DEF TypeOK
  <2>6. used' = used /\ \A t \in Side : used[t] \subseteq IDs
    BY <1>3 DEF AssignMessageID, TypeOK
  <2> HIDE DEF y
  <2> QED
    BY <2>2, <2>3, <2>4, <2>5, <2>6 DEF Grows, Ages, GivenOut
<1> QED
  BY <1>1, <1>2, <1>3

-----------------------------------------------------------------------------
\* Others change the mail: everything that fitted goes on fitting
LEMMA MailKeeps ==
  ASSUME Core, \A s \in Side : Grows(s), GivenOut', TypeOK, UNCHANGED <<epoch, cacheVars, passVars>>
  PROVE  Core'
<1> USE DEF cacheVars, passVars
<1>1. Validity' /\ Fresh' /\ Modes'
  BY DEF Core, Validity, Fresh, Modes, NoRows
<1>2. Trusted'
  BY FitKept DEF Core, Trusted, Fits, Indexing, FullFetch, TypeOK
<1> QED
  BY <1>1, <1>2 DEF Core

\* A renumbering finds no pass at work, and no saved validity is the new one
LEMMA RenumberKeeps ==
  ASSUME TypeOK, Core, NEW s \in Side, Renumber(s)
  PROVE  Core'
<1>1. PICK g \in [Dom(folder[s]) -> IDs] :
        /\ folder' = [folder EXCEPT ![s] =
             [k \in IDs |-> IF \E i \in Dom(folder[s]) : g[i] = k
                            THEN folder[s][CHOOSE i \in Dom(folder[s]) : g[i] = k] ELSE None]]
        /\ used' = [used EXCEPT ![s] = {g[i] : i \in Dom(folder[s])}]
  BY DEF Renumber
<1>2. pc = "idle" /\ UNCHANGED <<cacheVars, passVars>> /\ epoch' = [epoch EXCEPT ![s] = @ + 1]
  BY DEF Renumber
<1> USE DEF cacheVars, passVars
<1>3. GivenOut'
  <2>1. \A k \in IDs : folder'[s][k] # None => k \in used'[s]
    BY <1>1 DEF TypeOK
  <2>2. \A t \in Side \ {s} : folder'[t] = folder[t] /\ used'[t] = used[t]
    BY <1>1 DEF TypeOK
  <2> QED
    BY <2>1, <2>2 DEF GivenOut, Core
<1>4. \A t \in Side : epoch'[t] \in Nat /\ epoch[t] \in Nat /\ epoch[t] <= epoch'[t]
  BY <1>2, SyncPairAssumption DEF TypeOK, Epochs
<1>5. \A t \in Side : row[t] # None => row[t] \in Nat /\ row[t] <= epoch[t]
  BY SyncPairAssumption DEF TypeOK, Epochs, Core, Validity
<1>6. Validity'
  BY <1>2, <1>4, <1>5 DEF Core, Validity
<1>7. Fresh' /\ Modes'
  BY <1>2 DEF Core, Fresh, Modes, NoRows
<1>8. Trusted'
  <2>1. \A t \in Side : idx'[t] = NoRows /\ copied'[t] = NoRows
    BY <1>2 DEF Core, Fresh, Modes
  <2>2. row'[s] # epoch'[s]
    <3>1. epoch'[s] = epoch[s] + 1 /\ row'[s] = row[s]
      BY <1>2 DEF TypeOK
    <3>2. epoch'[s] # None
      BY <3>1, SyncPairAssumption DEF Renumber, TypeOK, Epochs
    <3> QED
      BY <3>1, <3>2, <1>4, <1>5
  <2>3. \A t \in Side \ {s} : /\ folder'[t] = folder[t] /\ used'[t] = used[t]
                               /\ epoch'[t] = epoch[t] /\ row'[t] = row[t] /\ db'[t] = db[t]
    BY <1>1, <1>2 DEF TypeOK
  <2>4. ~Indexing'
    BY <1>2 DEF Indexing
  <2>5. \A t \in Side : row'[t] = epoch'[t] => Fits(t, db[t])'
    BY <2>2, <2>3, <1>2 DEF Core, Trusted, Fits
  <2>6. \A t \in Side : Fits(t, idx[t])' /\ Fits(t, copied[t])'
    BY <2>1, NoRowsFit DEF Fits
  <2> QED
    BY <2>4, <2>5, <2>6 DEF Trusted
<1> QED
  BY <1>3, <1>6, <1>7, <1>8 DEF Core

\* What is forgotten cannot be wrong
LEMMA ForgetKeeps ==
  ASSUME TypeOK, Core, ForgetUser
  PROVE  Core'
<1> USE DEF ForgetUser, mailVars, passVars
<1>1. GivenOut' /\ Validity' /\ Fresh' /\ Modes'
  BY DEF Core, GivenOut, Validity, Fresh, Modes, NoRows
<1>2. \A s \in Side : db'[s] = NoRows
  OBVIOUS
<1>3. Trusted'
  BY <1>2, NoRowsFit DEF Core, Trusted, Fits, Indexing, FullFetch, TypeOK
<1> QED
  BY <1>1, <1>3 DEF Core

\* The pass returns or dies: its locals are gone
LEMMA EndPassKeeps ==
  ASSUME TypeOK, Core, EndPass, UNCHANGED <<mailVars, row>>,
         \A s \in Side : row[s] = epoch[s] => Fits(s, db'[s])
  PROVE  Core'
<1> USE DEF mailVars
<1>1. GivenOut'
  BY DEF Core, GivenOut
<1>2. Validity' /\ Fresh' /\ Modes'
  BY DEF Core, EndPass, Validity, Fresh, Modes, NoRows
<1>3. \A s \in Side : idx'[s] = NoRows /\ copied'[s] = NoRows
  BY DEF EndPass
<1>4. Trusted'
  BY <1>3, NoRowsFit DEF EndPass, Trusted, Fits, Indexing
<1> QED
  BY <1>1, <1>2, <1>4 DEF Core

-----------------------------------------------------------------------------
\* Select: the validity the server answers with is remembered
LEMMA SelectKeeps ==
  ASSUME TypeOK, Core, NEW s \in Side, Select(s)
  PROVE  Core'
<1> USE DEF mailVars, cacheVars
<1>1. UNCHANGED <<folder, used, epoch, row, db, cached, idx, copied>>
  BY DEF Select
<1>2. \A t \in Side : epoch[t] # None
  BY SyncPairAssumption DEF TypeOK
<1>3. GivenOut'
  BY <1>1 DEF Core, GivenOut
<1>4. Validity'
  <2>1. CASE s = "a"
    BY <2>1, <1>1, <1>2 DEF Select, Core, Validity, TypeOK, Side
  <2>2. CASE s = "b"
    BY <2>2, <1>1, <1>2 DEF Select, Core, Validity, TypeOK, Side
  <2> QED
    BY <2>1, <2>2 DEF Side
<1>5. Fresh' /\ Modes'
  BY <1>1 DEF Select, Core, Fresh, Modes, NoRows
<1>6. Trusted'
  <2>1. cached' = NoRows
    BY <1>1 DEF Select, Core, Fresh, Modes
  <2>2. Indexing' => FullFetch'
    BY DEF Select, Indexing, FullFetch
  <2> QED
    BY <2>1, <2>2, <1>1, NoRowsFit DEF Core, Trusted, Fits
<1> QED
  BY <1>3, <1>4, <1>5, <1>6 DEF Core

(***************************************************************************)
(* LoadEndpoint and ResetEndpoint.  Only here full_resync_every matters:   *)
(* without an endpoint row the rows in the table belong to nobody knows    *)
(* which validity, and it is the zero FullResyncAt that gets them deleted. *)
(***************************************************************************)
LEMMA LoadKeeps ==
  ASSUME Premise, TypeOK, Core, NEW s \in Side, LoadEndpoint(s) \/ ResetEndpoint(s)
  PROVE  Core'
<1> USE DEF mailVars, cacheVars
<1>0. FullResync
  BY DEF Premise, Core, Modes, LoadEndpoint, ResetEndpoint
<1>1. UNCHANGED <<folder, used, epoch, sel, idx, copied, cs>> /\ cs = s
  BY DEF LoadEndpoint, ResetEndpoint
<1>2. GivenOut' /\ Fresh' /\ Modes'
  BY <1>1 DEF LoadEndpoint, ResetEndpoint, Core, GivenOut, Fresh, Modes
<1>3. \A t \in Side : idx'[t] = idx[t] /\ copied'[t] = copied[t]
  BY <1>1
<1>4. CASE LoadEndpoint(s)
  <2>1. PICK due \in BOOLEAN : pc' = IF NeedsReset(s, due) THEN "reset" ELSE "list"
    BY <1>4 DEF LoadEndpoint
  <2>2. UNCHANGED <<row, db>> /\ cached' = IF row[s] = None THEN NoRows ELSE db[s]
    BY <1>4 DEF LoadEndpoint
  <2>3. Validity'
    BY <1>1, <1>4, <2>1, <2>2 DEF LoadEndpoint, Core, Validity
  <2>4. ASSUME Indexing' PROVE Fits(s, db[s]) /\ cached' = db[s]
    <3>1. ~NeedsReset(s, due)
      BY <2>1, <2>4 DEF Indexing
    <3>2. row[s] # None /\ row[s] = sel[s]
      BY <1>0, <3>1 DEF NeedsReset
    <3>3. row[s] = epoch[s]
      BY <3>2 DEF Core, Validity
    <3> QED
      BY <3>2, <3>3, <2>2 DEF Core, Trusted
  <2>5. Trusted'
    BY <1>1, <2>2, <2>4 DEF Core, Trusted, Fits
  <2> QED
    BY <1>2, <2>3, <2>5 DEF Core
<1>5. CASE ResetEndpoint(s)
  <2>1. pc' = "list" /\ cached' = NoRows /\ db' = [db EXCEPT ![s] = NoRows] /\ row' = [row EXCEPT ![s] = None]
    BY <1>5 DEF ResetEndpoint
  <2>2. \A t \in Side : /\ db'[t] = IF t = s THEN NoRows ELSE db[t]
                        /\ row'[t] = IF t = s THEN None ELSE row[t]
    BY <2>1 DEF TypeOK
  <2>3. Validity'
    BY <1>1, <1>5, <2>1, <2>2 DEF ResetEndpoint, Core, Validity
  <2>4. Trusted'
    BY <1>1, <2>1, <2>2, NoRowsFit DEF Core, Trusted, Fits
  <2> QED
    BY <1>2, <2>3, <2>4 DEF Core
<1> QED
  BY <1>4, <1>5

\* ListIDs and FetchMeta: what is fetched is what is there
LEMMA FetchKeeps ==
  ASSUME TypeOK, Core, NEW s \in Side, ListIDs(s) \/ FetchMeta(s)
  PROVE  Core'
<1> USE DEF mailVars, cacheVars
<1>1. UNCHANGED <<folder, used, epoch, row, db, sel, idx, copied, cs>> /\ cs = s
  BY DEF ListIDs, FetchMeta
<1>2. Indexing /\ Indexing' /\ pc \notin {"idle", "select", "load"} /\ pc' \notin {"idle", "select", "load"}
  BY DEF ListIDs, FetchMeta, Indexing
<1>3. GivenOut' /\ Validity' /\ Fresh' /\ Modes'
  BY <1>1, <1>2 DEF Core, GivenOut, Validity, Fresh, Modes, ListIDs, FetchMeta
<1>4. Fits(s, cached')
  <2>1. CASE ListIDs(s)
    BY <2>1, <1>1, <1>2 DEF ListIDs, Core, Trusted
  <2>2. CASE FetchMeta(s)
    <3> DEFINE ok == {i \in Fetched(s) : ParseFields(folder[s][i])}
    <3>1. cached' = [i \in IDs |-> IF i \in ok THEN ParseMessage(folder[s][i]) ELSE cached[i]]
      BY <2>2 DEF FetchMeta
    <3>2. \A i \in ok : i \in used[s] /\ Describes(ParseMessage(folder[s][i]), folder[s][i])
      BY DescribesParsed DEF Core, GivenOut, Dom, Fetched
    <3>3. Fits(s, cached)
      BY <1>1, <1>2 DEF Core, Trusted
    <3> HIDE DEF ok
    <3> QED
      BY <3>1, <3>2, <3>3 DEF Fits, Fit
  <2> QED
    BY <2>1, <2>2
<1>5. (~FullFetch /\ ~FullFetch') \/ (ListIDs(s) /\ ~FullFetch)
  BY DEF ListIDs, FetchMeta, FullFetch
<1>6. Trusted'
  BY <1>1, <1>2, <1>4, <1>5 DEF Core, Trusted, Fits
<1> QED
  BY <1>3, <1>6 DEF Core

\* Rows that fit, written over rows that fit, and rows deleted
LEMMA WritesFit ==
  ASSUME NEW s \in Side, NEW f, NEW g, Fits(s, f), NEW S, Fits(s, g)
  PROVE  Fits(s, Upsert(f, g, S)) /\ Fits(s, Without(f, S))
  BY DEF Fits, Fit, Upsert, Without

\* PutCachedMsgs and DeleteCachedMsgs, done, failed or half done
LEMMA WriteKeeps ==
  ASSUME TypeOK, Core, NEW s \in Side, PutCachedMsgs(s) \/ DeleteCachedMsgs(s)
  PROVE  Core'
<1> USE DEF mailVars, cacheVars
<1>1. UNCHANGED <<folder, used, epoch, row, sel, idx, copied, cs>> /\ cs = s
  BY DEF PutCachedMsgs, DeleteCachedMsgs
<1>2. Indexing /\ Indexing' /\ pc \notin {"idle", "select", "load"} /\ pc' \notin {"idle", "select", "load"}
  BY DEF PutCachedMsgs, DeleteCachedMsgs, Indexing
<1>3. GivenOut' /\ Validity' /\ Fresh' /\ Modes'
  BY <1>1, <1>2 DEF Core, GivenOut, Validity, Fresh, Modes, PutCachedMsgs, DeleteCachedMsgs
<1>4. Fits(s, cached) /\ Fits(s, db[s])
  BY <1>1, <1>2 DEF Core, Trusted, PutCachedMsgs, DeleteCachedMsgs, FullFetch
<1>5. /\ Fits(s, cached')
      /\ Fits(s, db'[s])
      /\ \A t \in Side \ {s} : db'[t] = db[t]
  <2>1. CASE PutCachedMsgs(s)
    <3>1. PICK ok \in DbWrites(got) : db' = IF ok THEN [db EXCEPT ![s] = Upsert(@, cached, got)] ELSE db
      BY <2>1 DEF PutCachedMsgs
    <3>2. db'[s] \in {db[s], Upsert(db[s], cached, got)}
      BY <3>1 DEF TypeOK
    <3>3. cached' = cached /\ \A t \in Side \ {s} : db'[t] = db[t]
      BY <2>1, <3>1 DEF PutCachedMsgs, TypeOK
    <3> QED
      BY <1>4, <3>2, <3>3, WritesFit
  <2>2. CASE DeleteCachedMsgs(s)
    <3>1. PICK part : db' = [db EXCEPT ![s] = Without(@, part)]
      BY <2>2 DEF DeleteCachedMsgs
    <3>2. db'[s] = Without(db[s], part) /\ cached' = Without(cached, gone)
      BY <2>2, <3>1 DEF DeleteCachedMsgs, TypeOK
    <3>3. \A t \in Side \ {s} : db'[t] = db[t]
      BY <3>1 DEF TypeOK
    <3> QED
      BY <1>4, <3>2, <3>3, WritesFit
  <2> QED
    BY <2>1, <2>2
<1>6. Trusted'
  <2>1. \A t \in Side : row[t] = epoch[t] => Fits(t, db'[t])
    BY <1>4, <1>5 DEF Core, Trusted
  <2> QED
    BY <1>1, <1>2, <1>5, <2>1 DEF Core, Trusted, Fits
<1> QED
  BY <1>3, <1>6 DEF Core

\* The index takes over rows that fit
LEMMA BuildIndexFits ==
  ASSUME TypeOK, Core, NEW s \in Side, NEW ids, NEW rows, Fits(s, rows), BuildIndex(s, ids, rows)
  PROVE  /\ \A t \in Side : Fits(t, idx'[t])
         /\ cached' = NoRows
         /\ pc' = "copy" \/ pc' = IF Incremental THEN "load" ELSE "fetch"
<1>1. PICK E \in SUBSET ids : idx' = [idx EXCEPT ![s] = Without(rows, IDs \ E)]
  BY DEF BuildIndex
<1>2. \A t \in Side : idx'[t] = IF t = s THEN Without(rows, IDs \ E) ELSE idx[t]
  BY <1>1 DEF TypeOK
<1>3. Fits(s, Without(rows, IDs \ E))
  BY WritesFit
<1>4. \A t \in Side : Fits(t, idx'[t])
  BY <1>2, <1>3 DEF Core, Trusted
<1>5. cached' = NoRows /\ (pc' = "copy" \/ pc' = IF Incremental THEN "load" ELSE "fetch")
  BY DEF BuildIndex
<1> QED
  BY <1>4, <1>5

\* SaveEndpoint vouches for the rows; the index is built from them
LEMMA SaveKeeps ==
  ASSUME TypeOK, Core, NEW s \in Side, SaveEndpoint(s) \/ IndexFolderFull(s)
  PROVE  Core'
<1> USE DEF mailVars, cacheVars
<1>1. UNCHANGED <<folder, used, epoch, db, sel, copied>> /\ cs = s
  BY DEF SaveEndpoint, IndexFolderFull
<1>2. Indexing /\ Fits(s, cached) /\ (SaveEndpoint(s) => Fits(s, db[s]))
  BY <1>1 DEF SaveEndpoint, IndexFolderFull, Indexing, FullFetch, Core, Trusted
<1>3. PICK ids, rows : Fits(s, rows) /\ BuildIndex(s, ids, rows)
  <2>1. CASE SaveEndpoint(s)
    BY <1>2, <2>1 DEF SaveEndpoint
  <2>2. CASE IndexFolderFull(s)
    <3> DEFINE ok == {i \in Dom(folder[s]) : ParseFields(folder[s][i])}
               all == [i \in IDs |-> IF i \in ok THEN ParseMessage(folder[s][i]) ELSE None]
    <3>1. BuildIndex(s, ok, all)
      BY <2>2 DEF IndexFolderFull
    <3>2. \A i \in ok : i \in used[s] /\ Describes(ParseMessage(folder[s][i]), folder[s][i])
      BY DescribesParsed DEF Core, GivenOut, Dom
    <3>3. \A i \in IDs : all[i] # None => i \in ok /\ all[i] = ParseMessage(folder[s][i])
      OBVIOUS
    <3> HIDE DEF ok, all
    <3>4. Fits(s, all)
      BY <3>2, <3>3 DEF Fits, Fit
    <3> QED
      BY <3>1, <3>4
  <2> QED
    BY <2>1, <2>2
<1>4. /\ \A t \in Side : Fits(t, idx'[t])
      /\ cached' = NoRows
      /\ pc' = "copy" \/ pc' = IF Incremental THEN "load" ELSE "fetch"
  BY <1>3, BuildIndexFits
<1>5. \A t \in Side : row'[t] = row[t] \/ (t = s /\ row'[t] = sel[s] /\ Fits(s, db[s]))
  <2>1. CASE SaveEndpoint(s)
    <3>1. row' = row \/ row' = [row EXCEPT ![s] = sel[s]]
      BY <2>1 DEF SaveEndpoint
    <3> QED
      BY <2>1, <3>1, <1>2 DEF TypeOK
  <2>2. CASE IndexFolderFull(s)
    BY <2>2 DEF IndexFolderFull
  <2> QED
    BY <2>1, <2>2
<1>6. pc \notin {"idle", "select"} /\ pc' \notin {"idle", "select"} /\ \A t \in Side : sel[t] = epoch[t] /\ sel[t] # None
  BY <1>4 DEF SaveEndpoint, IndexFolderFull, Core, Validity
<1>7. \A t \in Side : epoch[t] \in Nat
  BY SyncPairAssumption DEF TypeOK, Epochs
<1>8. GivenOut' /\ Validity' /\ Fresh' /\ Modes'
  BY <1>1, <1>4, <1>5, <1>6, <1>7 DEF Core, GivenOut, Validity, Fresh, Modes
<1>9. \A t \in Side : row'[t] = epoch[t] => Fits(t, db[t])
  BY <1>5 DEF Core, Trusted
<1>10. Indexing' => FullFetch'
  BY <1>4 DEF Indexing, FullFetch
<1>11. Trusted'
  <2>1. cs' \in Side
    BY <1>3 DEF BuildIndex, Side
  <2> QED
    BY <2>1, <1>1, <1>4, <1>9, <1>10, NoRowsFit DEF Core, Trusted, Fits
<1> QED
  BY <1>8, <1>11 DEF Core

\* A message is copied, with or without an answer
LEMMA CopyOneKeeps ==
  ASSUME Premise, TypeOK, Shape, Core, NEW s \in Side, CopyOne(s)
  PROVE  Core'
<1>1. PICK e \in NextEntry(s), ack \in BOOLEAN :
        /\ folder[Peer(s)][e] # None
        /\ \E i \in NewIDs(s), v \in StoredHashes(s, folder[Peer(s)][e]) :
             /\ Store(s, i, [WithHeader(folder[Peer(s)][e], idx[Peer(s)][e].sur) EXCEPT !.sur = v])
             /\ copied' = IF ack /\ Incremental /\ s \in ReportsID
                          THEN [copied EXCEPT ![s][i] = [mid |-> idx[Peer(s)][e].mid,
                                                         xhash |-> idx[Peer(s)][e].sur,
                                                         sur |-> idx[Peer(s)][e].sur]]
                          ELSE copied
  BY DEF CopyOne
<1> DEFINE m == folder[Peer(s)][e]
           r == idx[Peer(s)][e]
           w == [mid |-> r.mid, xhash |-> r.sur, sur |-> r.sur]
<1>2. PICK i \in NewIDs(s), v \in StoredHashes(s, m) :
        /\ Store(s, i, [WithHeader(m, r.sur) EXCEPT !.sur = v])
        /\ copied' = copied \/ (Incremental /\ copied' = [copied EXCEPT ![s][i] = w])
  BY <1>1
<1> DEFINE y == [WithHeader(m, r.sur) EXCEPT !.sur = v]
<1>3. Peer(s) \in Side /\ e \in todo[s] /\ e \in IDs /\ i \in IDs
  BY <1>1, NewIDsAreNew DEF TypeOK, Peer, Side, NextEntry, Least
<1>4. m \in Message /\ r \in Fields /\ r # None /\ v \in Hashes \cup {None}
  BY <1>1, <1>3, SyncPairAssumption DEF Shape, Dom, Rows, TypeOK, StoredHashes, Message
<1>5. Describes(r, m)
  BY <1>1, <1>3, <1>4 DEF Core, Trusted, Fits, Fit
<1>6. Incremental => Describes(w, y)
  <2>1. Incremental => v = m.sur
    BY DEF Premise, StoredHashes
  <2> QED
    BY <1>4, <1>5, <2>1, DescribesCopy
<1>7. y # None
  <2>1. y \in Message
    BY <1>4 DEF WithHeader, Message, Fields
  <2> QED
    BY <2>1, SyncPairAssumption
<1>13. Store(s, i, y)
  BY <1>2
<1> HIDE DEF m, r, w, y
<1>8. (\A t \in Side : Grows(t)) /\ GivenOut' /\ folder'[s][i] = y /\ i \in used'[s]
  BY <1>7, <1>13, StoreGrows DEF Core
<1>9. UNCHANGED <<epoch, row, db, pc, cs, sel, cached, cur, got, gone, idx>> /\ pc = "copy"
  BY DEF CopyOne, cacheVars
<1>10. Validity' /\ Fresh' /\ Modes'
  BY <1>9 DEF Core, Validity, Fresh, Modes
<1>11. \A t \in Side : Fit(copied'[t], folder'[t], used'[t])
  <2>1. \A t \in Side : Fit(copied[t], folder'[t], used'[t])
    BY <1>8, FitKept DEF Core, Trusted, Fits
  <2>2. \A t \in Side, j \in IDs :
          copied'[t][j] = copied[t][j] \/ (Incremental /\ t = s /\ j = i /\ copied'[t][j] = w)
    BY <1>2, <1>3 DEF TypeOK
  <2> QED
    BY <2>1, <2>2, <1>6, <1>8 DEF Fit
<1>12. Trusted'
  <2>1. \A t \in Side : row[t] = epoch[t] => Fit(db[t], folder'[t], used'[t])
    BY <1>8, FitKept DEF Core, Trusted, Fits
  <2>2. \A t \in Side : Fit(idx[t], folder'[t], used'[t])
    BY <1>8, FitKept DEF Core, Trusted, Fits
  <2> QED
    BY <1>9, <1>11, <2>1, <2>2 DEF Trusted, Fits, Indexing
<1> QED
  BY <1>8, <1>10, <1>12 DEF Core

\* The other steps of the copy loop change neither mail nor rows
LEMMA CopyErrorKeeps ==
  ASSUME Core,
         \/ Interrupted
         \/ \E s \in Side : CopyError(s)
         \/ \E s \in Side : CopyDone(s) /\ ~EndPass
  PROVE  Core'
<1> USE DEF mailVars, cacheVars
<1>1. UNCHANGED <<folder, used, epoch, row, db, sel, cached, idx, copied>>
  BY DEF Interrupted, CopyError, CopyDone
<1>2. pc = "copy" /\ pc' \in {"copy", "post"}
  BY DEF Interrupted, CopyError, CopyDone
<1>3. GivenOut' /\ Validity' /\ Fresh' /\ Modes'
  BY <1>1, <1>2 DEF Core, GivenOut, Validity, Fresh, Modes, Interrupted, CopyError, CopyDone, EndPass
<1>4. Trusted'
  BY <1>1, <1>2 DEF Core, Trusted, Fits, Indexing
<1> QED
  BY <1>3, <1>4 DEF Core

\* The rows of the copies are written
LEMMA PutCopiedKeeps ==
  ASSUME TypeOK, Core, NEW s \in Side, PutCopied(s)
  PROVE  Core'
<1>1. PICK ok \in DbWrites(Dom(copied[s])) :
        db' = IF ok THEN [db EXCEPT ![s] = Upsert(@, copied[s], Dom(copied[s]))] ELSE db
  BY DEF PutCopied
<1>2. \A t \in Side : db'[t] = db[t] \/ db'[t] = Upsert(db[t], copied[t], Dom(copied[t]))
  BY <1>1 DEF TypeOK
<1>3. \A t \in Side : row[t] = epoch[t] => Fits(t, db'[t])
  BY <1>2, WritesFit DEF Core, Trusted
<1>4. UNCHANGED <<mailVars, row>> /\ pc = "post"
  BY DEF PutCopied
<1>5. CASE EndPass
  BY <1>3, <1>4, <1>5, EndPassKeeps
<1>6. CASE ~EndPass
  <2>1. UNCHANGED <<pc, sel, cached, idx, copied>>
    BY <1>6 DEF PutCopied
  <2>2. GivenOut' /\ Validity' /\ Fresh' /\ Modes'
    BY <1>4, <2>1 DEF Core, GivenOut, Validity, Fresh, Modes, mailVars
  <2>3. Trusted'
    BY <1>3, <1>4, <2>1 DEF Core, Trusted, Fits, Indexing, mailVars
  <2> QED
    BY <2>2, <2>3 DEF Core
<1> QED
  BY <1>5, <1>6

-----------------------------------------------------------------------------
\* Every step keeps the invariant
LEMMA CoreStep ==
  ASSUME Premise, TypeOK, Shape, Core, [Next]_vars
  PROVE  Core'
<1>1. CASE Environment
  <2>1. ASSUME NEW s \in Side, Deliver(s) \/ Expunge(s) \/ AssignMessageID(s) PROVE Core'
    <3>1. UNCHANGED <<epoch, cacheVars, passVars>>
      BY <2>1 DEF Deliver, Expunge, AssignMessageID
    <3>2. (\A t \in Side : Grows(t)) /\ GivenOut'
      BY <2>1, MailGrows DEF Core
    <3> QED
      BY <3>1, <3>2, MailKeeps
  <2> QED
    BY <1>1, <2>1, RenumberKeeps, ForgetKeeps, SyncPairAssumption DEF Environment
<1>2. ASSUME NEW s \in Side,
             \/ Select(s) \/ LoadEndpoint(s) \/ ResetEndpoint(s) \/ ListIDs(s) \/ FetchMeta(s)
             \/ PutCachedMsgs(s) \/ DeleteCachedMsgs(s) \/ SaveEndpoint(s) \/ IndexFolderFull(s)
      PROVE  Core'
  BY <1>2, SelectKeeps, LoadKeeps, FetchKeeps, WriteKeeps, SaveKeeps
<1>3. CASE EndPass /\ UNCHANGED <<mailVars, cacheVars>>
  <2>1. \A s \in Side : row[s] = epoch[s] => Fits(s, db'[s])
    BY <1>3 DEF Core, Trusted, cacheVars
  <2> QED
    BY <1>3, <2>1, EndPassKeeps DEF cacheVars
<1>4. ASSUME NEW s \in Side, CopyOne(s) \/ CopyError(s) \/ CopyDone(s) \/ PutCopied(s) PROVE Core'
  <2>1. CASE CopyDone(s) /\ EndPass
    BY <1>3, <2>1 DEF CopyDone
  <2> QED
    BY <1>4, <2>1, CopyOneKeeps, CopyErrorKeeps, PutCopiedKeeps
<1>5. CASE FolderError \/ Crash
  BY <1>3, <1>5 DEF FolderError, Crash
<1>6. CASE Interrupted
  BY <1>6, CopyErrorKeeps
<1>7. CASE UNCHANGED vars
  BY <1>7 DEF vars, mailVars, cacheVars, passVars, Core, GivenOut, Validity, Fresh, Modes, Trusted,
              Fits, Indexing, FullFetch, NoRows
<1> QED
  BY <1>1, <1>2, <1>4, <1>5, <1>6, <1>7 DEF Next, Pass

\* Nothing is cached, selected or indexed at the start
LEMMA CoreInit == Init => Core
<1> SUFFICES ASSUME Init PROVE Core
  OBVIOUS
<1>1. GivenOut /\ Validity /\ Fresh /\ Modes
  BY DEF Init, GivenOut, Validity, Fresh, Modes, NoRows
<1>2. Trusted
  BY NoRowsFit DEF Init, Trusted, Fits, Indexing
<1> QED
  BY <1>1, <1>2 DEF Core

\* The invariant, for every value of the constants that meets the premise
LEMMA Trustworthy == ASSUME Premise PROVE Spec => []Core
<1>1. TypeOK /\ Shape /\ Core /\ [Next]_vars => Core'
  BY CoreStep
<1> QED
  BY <1>1, CoreInit, TypeCorrect, PTL DEF Spec

(***************************************************************************)
(* The state cache never claims what is not in the mailbox, whatever fails *)
(* or is interrupted between the transactions of a pass, if                *)
(* full_resync_every is positive and servers store what they are sent.     *)
(***************************************************************************)
THEOREM CacheIsSound == Premise => (Spec => []CacheSound)
<1>1. Core => CacheSound
  BY DescribesKeys DEF Core, Trusted, Fits, Fit, CacheSound, Dom
<1>2. ASSUME Premise PROVE Spec => []CacheSound
  BY <1>1, <1>2, Trustworthy, PTL
<1> QED
  BY <1>2

(***************************************************************************)
(* A pass never works with an index that takes one mail for another:       *)
(* copyMissing copies, and leaves out, by keys the mails really have.      *)
(***************************************************************************)
THEOREM IndexIsSound == Premise => (Spec => []IndexSound)
<1>1. Core => IndexSound
  BY DescribesKeys DEF Core, Trusted, Fits, Fit, IndexSound, Dom
<1>2. ASSUME Premise PROVE Spec => []IndexSound
  BY <1>1, <1>2, Trustworthy, PTL
<1> QED
  BY <1>2

-----------------------------------------------------------------------------
(***************************************************************************)
(* No folder holds one mail twice.  Two mails that are kin, the same mail  *)
(* by tag, share a key from their sender, so an index that covers a folder *)
(* has an entry for every mail in it, and what the delta leaves to be      *)
(* copied is kin to nothing in the folder it goes to.                      *)
(***************************************************************************)

(***************************************************************************)
(* The keys a server makes up, and the keys a mail has from its sender.    *)
(***************************************************************************)
Made == {<<"mid", k>> : k \in ServerMIDs} \cup {<<"hash", h>> : h \in ServerHashes}
Base(m) == Keys(m) \ Made

(***************************************************************************)
(* What must hold of the mail and the servers for NoDuplicates.  What a    *)
(* server makes up is nobody else's; where a copy's cache row stands for   *)
(* the copy (incremental) or a server changes a copy's hash (Rewrites), a  *)
(* header a mail arrives with is the one the tool would give it; and in    *)
(* incremental mode servers store what they are sent.                      *)
(***************************************************************************)
Distinguishable ==
  /\ Incremental => FullResync /\ Rewrites = {} /\ LateMID = {}
  /\ \A f \in Arrivals : f.mid \notin ServerMIDs /\ {f.sur, f.xhash} \cap ServerHashes = {}
  /\ Incremental \/ Rewrites # {} => \A f \in Arrivals : f.xhash \in {None, f.sur}

\* The header of a mail is never a made-up hash, and stands for the hash it hides
Plausible(m) ==
  /\ m.xhash \notin ServerHashes
  /\ m.xhash = None => m.sur \notin ServerHashes
  /\ Incremental \/ Rewrites # {} =>
       \/ m.xhash \in {None, m.sur}
       \/ m.xhash # None /\ m.sur \in ServerHashes
  /\ Rewrites = {} => m.sur \notin ServerHashes
  /\ LateMID = {} => m.mid \notin ServerMIDs

\* Copies of one mail have its keys, and a made-up key is that of one mail only
Kin(m, n) ==
  /\ m.tag = n.tag => Base(m) = Base(n)
  /\ Keys(m) \cap Keys(n) \cap Made # {} => m.tag = n.tag

Kinship ==
  /\ \A s \in Side, i \in IDs : folder[s][i] # None =>
       folder[s][i].tag <= born /\ Plausible(folder[s][i])
  /\ \A s, t \in Side, i, j \in IDs :
       folder[s][i] # None /\ folder[t][j] # None => Kin(folder[s][i], folder[t][j])

Has(s, t) == \E i \in IDs : folder[s][i] # None /\ folder[s][i].tag = t

(***************************************************************************)
(* What indexFolderIncremental knows of the folder it is at: a message     *)
(* that came after ListIDs is not in curIDs, and not in the other folder.  *)
(***************************************************************************)
Listed ==
  (Incremental /\ pc \in {"fetch", "put", "gone", "save"}) =>
    /\ cur \subseteq used[cs] /\ gone \cap cur = {}
    /\ \A j \in IDs : folder[cs][j] # None =>
         \/ j \notin cur /\ ~Has(Peer(cs), folder[cs][j].tag)
         \/ /\ j \in cur
            /\ pc # "fetch" /\ ParseFields(folder[cs][j]) => cached[j] # None

(***************************************************************************)
(* An index f of side s covers what both folders have: one of its entries  *)
(* has a key that the mail has from its sender.                            *)
(***************************************************************************)
Covers(s, f) ==
  \A j \in IDs :
    (folder[s][j] # None /\ ParseFields(folder[s][j]) /\ Has(Peer(s), folder[s][j].tag)) =>
      \E x \in IDs : f[x] # None /\ Keys(f[x]) \cap Base(folder[s][j]) # {}

Covered == (cs = "b" /\ pc \in {"load", "reset", "list", "fetch", "put", "gone", "save"}) =>
             Covers("a", idx["a"])

\* What is left to be copied to a side is still missing there
StillMissing ==
  \A s \in Side : \A e \in todo[s] :
    allow(s) /\ (folder[Peer(s)][e] # None => ~Has(s, folder[Peer(s)][e].tag))

Different == NoDuplicates /\ Kinship /\ Listed /\ Covered /\ StillMissing

-----------------------------------------------------------------------------
\* What NoDuplicates needs includes what the cache needs
LEMMA PremiseMet == Distinguishable => Premise
  BY DEF Distinguishable, Premise

\* The keys of a mail that are from its sender, one by one
LEMMA BaseAre ==
  ASSUME NEW m, NEW x
  PROVE  x \in Base(m) <=> \/ m.mid # None /\ m.mid \notin ServerMIDs /\ x = <<"mid", m.mid>>
                           \/ m.xhash # None /\ m.xhash \notin ServerHashes /\ x = <<"hash", m.xhash>>
                           \/ m.sur \notin ServerHashes /\ x = <<"hash", m.sur>>
  BY KeysAre DEF Base, Made

\* Two mails with the same fields have the same keys
LEMMA BaseSame ==
  ASSUME NEW m, NEW n, m.sur = n.sur, m.xhash = n.xhash,
         m.mid = n.mid \/ {m.mid, n.mid} \subseteq ServerMIDs \cup {None}
  PROVE  Base(m) = Base(n)
<1>1. ASSUME NEW x PROVE x \in Base(m) <=> x \in Base(n)
  BY BaseAre
<1> QED
  BY <1>1

\* The made-up keys of a plausible mail
LEMMA MadeAre ==
  ASSUME NEW m, Plausible(m), NEW x
  PROVE  x \in Keys(m) \cap Made <=> \/ m.mid \in ServerMIDs /\ x = <<"mid", m.mid>>
                                     \/ m.sur \in ServerHashes /\ x = <<"hash", m.sur>>
<1>1. None \notin ServerMIDs
  BY SyncPairAssumption, MessagesAssumption
<1> QED
  BY <1>1, KeysAre DEF Plausible, Made

\* Kinship of two mails, field by field
LEMMA KinAre ==
  ASSUME NEW m, NEW n, Plausible(m), Plausible(n)
  PROVE  Kin(m, n) <=> /\ m.tag = n.tag => Base(m) = Base(n)
                       /\ m.mid \in ServerMIDs /\ m.mid = n.mid => m.tag = n.tag
                       /\ m.sur \in ServerHashes /\ m.sur = n.sur => m.tag = n.tag
<1>1. Keys(m) \cap Keys(n) \cap Made # {} <=>
        \E x : x \in Keys(m) \cap Made /\ x \in Keys(n) \cap Made
  OBVIOUS
<1>2. Keys(m) \cap Keys(n) \cap Made # {} <=>
        (m.mid \in ServerMIDs /\ m.mid = n.mid) \/ (m.sur \in ServerHashes /\ m.sur = n.sur)
  <2>1. ASSUME NEW x
        PROVE  x \in Keys(m) \cap Made <=> \/ m.mid \in ServerMIDs /\ x = <<"mid", m.mid>>
                                           \/ m.sur \in ServerHashes /\ x = <<"hash", m.sur>>
    BY MadeAre
  <2>2. ASSUME NEW x
        PROVE  x \in Keys(n) \cap Made <=> \/ n.mid \in ServerMIDs /\ x = <<"mid", n.mid>>
                                           \/ n.sur \in ServerHashes /\ x = <<"hash", n.sur>>
    BY MadeAre
  <2>3. \A j, k : <<"mid", j>> # <<"hash", k>>
    OBVIOUS
  <2>4. \A j, k : (<<"mid", j>> = <<"mid", k>> => j = k) /\ (<<"hash", j>> = <<"hash", k>> => j = k)
    OBVIOUS
  <2> QED
    BY <1>1, <2>1, <2>2, <2>3, <2>4
<1> QED
  BY <1>2 DEF Kin

\* A parsed mail has a key from its sender
LEMMA BaseNotEmpty ==
  ASSUME NEW m, Plausible(m)
  PROVE  \E x : x \in Base(m) /\ x \in Keys(m)
<1>1. CASE m.sur \notin ServerHashes
  BY <1>1, BaseAre DEF Base
<1>2. CASE m.sur \in ServerHashes
  <2>1. m.xhash # None /\ m.xhash \notin ServerHashes
    BY <1>2 DEF Plausible
  <2> QED
    BY <2>1, BaseAre DEF Base
<1> QED
  BY <1>1, <1>2

\* The copy of a mail is plausible and has the keys of the mail
LEMMA CopyIsKin ==
  ASSUME NEW m, NEW y, m.sur # None, Plausible(m), y.mid = m.mid,
         y.xhash = IF m.xhash # None THEN m.xhash ELSE m.sur,
         y.sur = m.sur \/ (y.sur \in ServerHashes /\ Rewrites # {})
  PROVE  Plausible(y) /\ Base(y) = Base(m)
<1>1. Plausible(y)
  BY DEF Plausible
<1>2. ASSUME NEW x PROVE x \in Base(y) <=> x \in Base(m)
  <2> DEFINE B(n) == \/ n.mid # None /\ n.mid \notin ServerMIDs /\ x = <<"mid", n.mid>>
                     \/ n.xhash # None /\ n.xhash \notin ServerHashes /\ x = <<"hash", n.xhash>>
                     \/ n.sur \notin ServerHashes /\ x = <<"hash", n.sur>>
  <2>1. (x \in Base(y) <=> B(y)) /\ (x \in Base(m) <=> B(m))
    BY BaseAre
  <2>2. B(y) <=> B(m)
    <3>1. CASE y.sur = m.sur
      BY <3>1 DEF Plausible
    <3>2. CASE y.sur \in ServerHashes /\ Rewrites # {}
      BY <3>2 DEF Plausible
    <3> QED
      BY <3>1, <3>2
  <2> QED
    BY <2>1, <2>2
<1> QED
  BY <1>1, <1>2

-----------------------------------------------------------------------------
(***************************************************************************)
(* One place of one folder gets a new content y, or None.                  *)
(***************************************************************************)
LEMMA KinshipPut ==
  ASSUME TypeOK, Kinship, NEW s \in Side, NEW i \in IDs, NEW y,
         born' \in Nat, born <= born',
         \A t \in Side, j \in IDs : folder'[t][j] = IF t = s /\ j = i THEN y ELSE folder[t][j],
         y # None => /\ y.tag <= born' /\ Plausible(y)
                     /\ \A t \in Side, j \in IDs :
                          (t # s \/ j # i) /\ folder[t][j] # None => Kin(y, folder[t][j])
  PROVE  Kinship'
<1>1. \A t \in Side, j \in IDs : folder[t][j] # None => folder[t][j].tag \in Nat
  BY SyncPairAssumption DEF TypeOK, Message, Tags
<1>2. born \in Nat
  BY SyncPairAssumption DEF TypeOK
<1>3. \A t \in Side, j \in IDs : folder'[t][j] # None =>
        folder'[t][j].tag <= born' /\ Plausible(folder'[t][j])
  BY <1>1, <1>2 DEF Kinship
<1>4. \A m, n : Kin(m, n) => Kin(n, m)
  BY DEF Kin
<1>5. \A m : Kin(m, m)
  BY DEF Kin
<1>6. \A t, d \in Side, j, k \in IDs :
        folder'[t][j] # None /\ folder'[d][k] # None => Kin(folder'[t][j], folder'[d][k])
  BY <1>4, <1>5 DEF Kinship
<1> QED
  BY <1>3, <1>6 DEF Kinship

\* What a delivery stores
LEMMA DeliverStores ==
  ASSUME TypeOK, NEW s \in Side, Deliver(s)
  PROVE  \E f \in Arrivals, i \in IDs :
           /\ i \notin used[s] /\ born + 1 \in Tags
           /\ LET y == [mid |-> f.mid, xhash |-> f.xhash, sur |-> f.sur, tag |-> born + 1]
              IN /\ y \in Message /\ y # None
                 /\ \A t \in Side, j \in IDs :
                      folder'[t][j] = IF t = s /\ j = i THEN y ELSE folder[t][j]
<1>1. PICK f \in Arrivals, i \in NewIDs(s) :
        Store(s, i, [mid |-> f.mid, xhash |-> f.xhash, sur |-> f.sur, tag |-> born + 1])
  BY DEF Deliver
<1> DEFINE y == [mid |-> f.mid, xhash |-> f.xhash, sur |-> f.sur, tag |-> born + 1]
<1>2. born + 1 \in Tags
  BY SyncPairAssumption DEF Deliver, TypeOK, Tags
<1>3. y \in Message
  BY <1>2, SyncPairAssumption DEF Message, Fields
<1>4. i \in IDs /\ i \notin used[s] /\ y # None
  BY <1>3, NewIDsAreNew, SyncPairAssumption
<1>6. Store(s, i, y)
  BY <1>1
<1> HIDE DEF y
<1>5. \A t \in Side, j \in IDs : folder'[t][j] = IF t = s /\ j = i THEN y ELSE folder[t][j]
  BY <1>6, <1>4 DEF Store, TypeOK
<1> QED
  BY <1>2, <1>3, <1>4, <1>5 DEF y

(***************************************************************************)
(* What others do to the mail between two steps of a pass: a mail that is  *)
(* still there has its tag and its keys from the sender, and at most one   *)
(* is new, under an ID and a tag that were never used.                     *)
(***************************************************************************)
Kept(s, j) ==
  /\ folder[s][j] # None
  /\ folder'[s][j].tag = folder[s][j].tag
  /\ folder'[s][j].sur = folder[s][j].sur
  /\ Base(folder'[s][j]) = Base(folder[s][j])

Mild(d, i) ==
  \A s \in Side, j \in IDs : folder'[s][j] # None =>
    \/ Kept(s, j)
    \/ s = d /\ j = i /\ i \notin used[d] /\ folder'[s][j].tag = born + 1

\* What happens to mail outside a pass leaves kin apart and changes one place
LEMMA MailIsMild ==
  ASSUME Distinguishable, TypeOK, Kinship, NEW s \in Side,
         Deliver(s) \/ Expunge(s) \/ AssignMessageID(s)
  PROVE  Kinship' /\ \E i : Mild(s, i)
<1>0. born \in Nat /\ None \notin ServerMIDs
  BY SyncPairAssumption, MessagesAssumption DEF TypeOK
<1>1. CASE Deliver(s)
  <2>1. PICK f \in Arrivals, i \in IDs :
           /\ i \notin used[s] /\ born + 1 \in Tags
           /\ LET y == [mid |-> f.mid, xhash |-> f.xhash, sur |-> f.sur, tag |-> born + 1]
              IN /\ y \in Message /\ y # None
                 /\ \A t \in Side, j \in IDs :
                      folder'[t][j] = IF t = s /\ j = i THEN y ELSE folder[t][j]
    BY <1>1, DeliverStores
  <2> DEFINE y == [mid |-> f.mid, xhash |-> f.xhash, sur |-> f.sur, tag |-> born + 1]
  <2>2. /\ y.mid = f.mid /\ y.xhash = f.xhash /\ y.sur = f.sur /\ y.tag = born + 1
        /\ y # None
        /\ \A t \in Side, j \in IDs : folder'[t][j] = IF t = s /\ j = i THEN y ELSE folder[t][j]
    BY <2>1
  <2> HIDE DEF y
  <2>3. born' = born + 1
    BY <1>1 DEF Deliver
  <2>4. Plausible(y) /\ y.mid \notin ServerMIDs /\ y.sur \notin ServerHashes
    BY <2>2 DEF Plausible, Distinguishable
  <2>5. \A t \in Side, j \in IDs : folder[t][j] # None => Kin(y, folder[t][j])
    <3>1. SUFFICES ASSUME NEW t \in Side, NEW j \in IDs, folder[t][j] # None PROVE Kin(y, folder[t][j])
      OBVIOUS
    <3>2. folder[t][j].tag \in Nat /\ folder[t][j].tag <= born /\ Plausible(folder[t][j])
      BY <3>1, SyncPairAssumption DEF Kinship, TypeOK, Message, Tags
    <3>3. y.tag # folder[t][j].tag
      BY <3>2, <2>2, <1>0
    <3> QED
      BY <3>2, <3>3, <2>4, KinAre
  <2>6. Kinship'
    BY <1>0, <2>2, <2>3, <2>4, <2>5, KinshipPut
  <2>7. Mild(s, i)
    BY <2>1, <2>2 DEF Mild, Kept
  <2> QED
    BY <2>6, <2>7
<1>2. CASE Expunge(s)
  <2>1. PICK i \in Dom(folder[s]) : folder' = [folder EXCEPT ![s][i] = None]
    BY <1>2 DEF Expunge
  <2>2. i \in IDs /\ \A t \in Side, j \in IDs :
          folder'[t][j] = IF t = s /\ j = i THEN None ELSE folder[t][j]
    BY <2>1 DEF TypeOK, Dom
  <2>3. born' = born
    BY <1>2 DEF Expunge
  <2>4. Kinship'
    BY <1>0, <2>2, <2>3, KinshipPut
  <2>5. Mild(s, i)
    BY <2>2 DEF Mild, Kept
  <2> QED
    BY <2>4, <2>5
<1>3. CASE AssignMessageID(s)
  <2>1. PICK i \in Dom(folder[s]), k \in ServerMIDs :
          /\ folder[s][i].mid = None /\ folder' = [folder EXCEPT ![s][i].mid = k]
          /\ \A d \in Side : \A j \in Dom(folder[d]) : folder[d][j].mid # k
    BY <1>3 DEF AssignMessageID
  <2> DEFINE m == folder[s][i]
             y == [m EXCEPT !.mid = k]
  <2>2. i \in IDs /\ m \in Message /\ m # None /\ m.mid = None
    BY <2>1 DEF Dom, TypeOK
  <2>3. y.mid = k /\ y.xhash = m.xhash /\ y.sur = m.sur /\ y.tag = m.tag
    BY <2>2 DEF Message
  <2>4. \A t \in Side, j \in IDs :
          folder'[t][j] = IF t = s /\ j = i THEN y ELSE folder[t][j]
    BY <2>1, <2>2 DEF TypeOK
  <2>5. born' = born /\ LateMID # {}
    BY <1>3 DEF AssignMessageID
  <2> HIDE DEF y, m
  <2>6. Plausible(m) /\ m.tag <= born
    BY <2>2 DEF Kinship, m
  <2>7. Plausible(y)
    BY <2>3, <2>5, <2>6 DEF Plausible
  <2>8. Base(y) = Base(m)
    BY <2>2, <2>3, BaseSame
  <2>9. \A t \in Side, j \in IDs : folder[t][j] # None => Kin(y, folder[t][j])
    <3>1. SUFFICES ASSUME NEW t \in Side, NEW j \in IDs, folder[t][j] # None PROVE Kin(y, folder[t][j])
      OBVIOUS
    <3>2. Plausible(folder[t][j]) /\ Kin(m, folder[t][j]) /\ folder[t][j].mid # k
      BY <3>1, <2>1, <2>2 DEF Kinship, Dom, m
    <3> QED
      BY <3>2, <2>3, <2>6, <2>7, <2>8, KinAre
  <2>10. Kinship'
    BY <1>0, <2>2, <2>3, <2>4, <2>5, <2>6, <2>7, <2>9, KinshipPut
  <2>11. Mild(s, i)
    BY <2>2, <2>3, <2>4, <2>8 DEF Mild, Kept, m
  <2> QED
    BY <2>10, <2>11
<1> QED
  BY <1>1, <1>2, <1>3

\* Has in the next state, of a tag of this one
HasNext(s, t) == \E i \in IDs : folder'[s][i] # None /\ folder'[s][i].tag = t

\* The parts of the invariant that are about the pass
PassKnows == Listed /\ Covered /\ StillMissing

\* Others cannot bring a mail to the folder that lacks it: every delivery is a new mail
LEMMA MailKeepsMissing ==
  ASSUME TypeOK, Kinship, NEW d \in Side, NEW i, Mild(d, i),
         NEW s \in Side, NEW t \in Nat, t <= born, ~Has(s, t)
  PROVE  ~HasNext(s, t)
<1>1. born \in Nat
  BY SyncPairAssumption DEF TypeOK
<1>2. SUFFICES ASSUME NEW j \in IDs, folder'[s][j] # None, folder'[s][j].tag = t PROVE FALSE
  BY DEF HasNext
<1>3. Kept(s, j) \/ folder'[s][j].tag = born + 1
  BY <1>2 DEF Mild
<1>4. Kept(s, j)
  BY <1>1, <1>2, <1>3
<1> QED
  BY <1>2, <1>4 DEF Kept, Has

\* What the pass knows stays true while others use the mailboxes
LEMMA MailKeepsPass ==
  ASSUME TypeOK, Shape, Core, Kinship, NoDuplicates, PassKnows, NEW d \in Side, NEW i, Mild(d, i),
         Grows(d), used[Peer(d)] \subseteq used'[Peer(d)], UNCHANGED passVars
  PROVE  NoDuplicates' /\ PassKnows'
<1> USE DEF passVars
<1>1. born \in Nat /\ \A s \in Side, j \in IDs : folder[s][j] # None =>
        folder[s][j].tag \in Nat /\ folder[s][j].tag <= born
  BY SyncPairAssumption DEF TypeOK, Message, Tags, Kinship
<1>2. \A s \in Side : Peer(s) \in Side /\ Peer(s) # s /\ Peer(Peer(s)) = s
  BY DEF Peer, Side
<1>3. \A s \in Side, j \in IDs : folder'[s][j] # None /\ Kept(s, j) /\ ~Has(Peer(s), folder[s][j].tag)
        => ~HasNext(Peer(s), folder'[s][j].tag)
  BY <1>1, <1>2, MailKeepsMissing DEF Kept
<1>4. \A s \in Side, j \in IDs : folder'[s][j] # None /\ ~Kept(s, j) =>
        /\ s = d /\ j = i /\ i \notin used[d] /\ folder'[s][j].tag = born + 1
        /\ ~HasNext(Peer(s), born + 1)
  <2>1. SUFFICES ASSUME NEW s \in Side, NEW j \in IDs, folder'[s][j] # None, ~Kept(s, j)
                 PROVE  /\ s = d /\ j = i /\ i \notin used[d] /\ folder'[s][j].tag = born + 1
                        /\ ~HasNext(Peer(s), born + 1)
    OBVIOUS
  <2>2. s = d /\ j = i /\ i \notin used[d] /\ folder'[s][j].tag = born + 1
    BY <2>1 DEF Mild
  <2>3. ASSUME NEW k \in IDs, folder'[Peer(s)][k] # None, folder'[Peer(s)][k].tag = born + 1 PROVE FALSE
    <3>1. Kept(Peer(s), k)
      BY <1>2, <2>2, <2>3 DEF Mild
    <3> QED
      BY <1>1, <1>2, <2>3, <3>1 DEF Kept
  <2> QED
    BY <2>2, <2>3 DEF HasNext
<1>5. NoDuplicates'
  <2>1. SUFFICES ASSUME NEW s \in Side, NEW j \in IDs, NEW k \in IDs, folder'[s][j] # None, folder'[s][k] # None,
                        folder'[s][j].tag = folder'[s][k].tag
                 PROVE  j = k
    BY DEF NoDuplicates, Dom
  <2>2. CASE Kept(s, j) /\ Kept(s, k)
    <3>1. folder[s][j] # None /\ folder[s][k] # None /\ folder[s][j].tag = folder[s][k].tag
      BY <2>1, <2>2 DEF Kept
    <3> QED
      BY <3>1 DEF NoDuplicates, Dom
  <2>3. CASE ~Kept(s, j) /\ ~Kept(s, k)
    BY <1>4, <2>1, <2>3
  <2>4. CASE Kept(s, j) /\ ~Kept(s, k)
    <3>1. folder'[s][k].tag = born + 1
      BY <1>4, <2>1, <2>4
    <3>2. folder[s][j] # None /\ folder'[s][j].tag = folder[s][j].tag
      BY <2>4 DEF Kept
    <3>3. folder[s][j].tag \in Nat /\ folder[s][j].tag <= born /\ born \in Nat
      BY <1>1, <3>2
    <3>4. folder[s][j].tag = born + 1
      BY <2>1, <3>1, <3>2
    <3> QED
      BY <3>3, <3>4
  <2>5. CASE ~Kept(s, j) /\ Kept(s, k)
    <3>1. folder'[s][j].tag = born + 1
      BY <1>4, <2>1, <2>5
    <3>2. folder[s][k] # None /\ folder'[s][k].tag = folder[s][k].tag
      BY <2>5 DEF Kept
    <3>3. folder[s][k].tag \in Nat /\ folder[s][k].tag <= born /\ born \in Nat
      BY <1>1, <3>2
    <3>4. folder[s][k].tag = born + 1
      BY <2>1, <3>1, <3>2
    <3> QED
      BY <3>3, <3>4
  <2> QED
    BY <2>2, <2>3, <2>4, <2>5
<1>6. Listed'
  <2>1. SUFFICES ASSUME Incremental, pc \in {"fetch", "put", "gone", "save"}
                 PROVE  /\ cur \subseteq used'[cs] /\ gone \cap cur = {}
                        /\ \A j \in IDs : folder'[cs][j] # None =>
                             \/ j \notin cur /\ ~HasNext(Peer(cs), folder'[cs][j].tag)
                             \/ /\ j \in cur
                                /\ pc # "fetch" /\ ParseFields(folder'[cs][j]) => cached[j] # None
    BY DEF Listed, Has, HasNext
  <2>2. cs \in Side /\ cs' = cs /\ cur \subseteq used[cs] /\ gone \cap cur = {}
    BY <2>1 DEF Listed, PassKnows, TypeOK
  <2>3. cur \subseteq used'[cs]
    BY <2>2, <1>2 DEF Grows, Side
  <2>4. ASSUME NEW j \in IDs, folder'[cs][j] # None
        PROVE  \/ j \notin cur /\ ~HasNext(Peer(cs), folder'[cs][j].tag)
               \/ /\ j \in cur
                  /\ pc # "fetch" /\ ParseFields(folder'[cs][j]) => cached[j] # None
    <3>1. CASE Kept(cs, j)
      <4>1. CASE j \notin cur
        <5>1. ~Has(Peer(cs), folder[cs][j].tag)
          BY <2>1, <3>1, <4>1 DEF Listed, PassKnows, Kept
        <5>2. ~HasNext(Peer(cs), folder'[cs][j].tag)
          BY <5>1, <2>2, <2>4, <3>1, <1>1, <1>2, MailKeepsMissing DEF Kept, HasNext
        <5> QED
          BY <4>1, <5>2
      <4>2. CASE j \in cur
        BY <2>1, <3>1, <4>2 DEF Listed, PassKnows, Kept, ParseFields
      <4> QED
        BY <4>1, <4>2
    <3>2. CASE ~Kept(cs, j)
      <4>1. j \notin cur /\ folder'[cs][j].tag = born + 1 /\ ~HasNext(Peer(cs), born + 1)
        BY <1>4, <2>2, <2>4, <3>2
      <4> QED
        BY <4>1
    <3> QED
      BY <3>1, <3>2
  <2> QED
    BY <2>2, <2>3, <2>4
<1>7. Covered'
  <2>1. ASSUME Covers("a", idx["a"]) PROVE Covers("a", idx["a"])'
    <3>1. SUFFICES ASSUME NEW j \in IDs, folder'["a"][j] # None, ParseFields(folder'["a"][j]),
                          HasNext(Peer("a"), folder'["a"][j].tag)
                   PROVE  \E x \in IDs : idx["a"][x] # None /\ Keys(idx["a"][x]) \cap Base(folder'["a"][j]) # {}
      BY DEF Covers, Has, HasNext
    <3>2. "a" \in Side
      BY DEF Side
    <3>3. Kept("a", j)
      BY <1>4, <3>1, <3>2
    <3>4. Has(Peer("a"), folder["a"][j].tag)
      BY <1>3, <3>1, <3>2, <3>3 DEF Kept
    <3> QED
      BY <2>1, <3>1, <3>3, <3>4 DEF Covers, Kept, ParseFields
  <2> QED
    BY <2>1 DEF Covered, PassKnows
<1>8. StillMissing'
  <2>1. SUFFICES ASSUME NEW s \in Side, NEW e \in todo[s], folder'[Peer(s)][e] # None
                 PROVE  ~HasNext(s, folder'[Peer(s)][e].tag)
    BY DEF StillMissing, PassKnows, allow, Has, HasNext
  <2>2. Peer(s) \in Side /\ e \in IDs /\ e \in used[Peer(s)]
    BY <1>2 DEF Shape, Dom, Core, Trusted, Fits, Fit
  <2>3. Kept(Peer(s), e)
    BY <1>4, <2>1, <2>2
  <2>4. ~Has(s, folder[Peer(s)][e].tag)
    BY <2>3 DEF StillMissing, PassKnows, Kept
  <2> QED
    BY <1>1, <2>2, <2>3, <2>4, MailKeepsMissing DEF Kept, HasNext
<1> QED
  BY <1>5, <1>6, <1>7, <1>8 DEF PassKnows

-----------------------------------------------------------------------------
\* What copyOne stores, acknowledged or not: under a new ID, the mail itself
LEMMA CopyStores ==
  ASSUME Distinguishable, TypeOK, Shape, Core, Kinship, NEW s \in Side, CopyOne(s)
  PROVE  /\ Kinship'
         /\ \E e \in todo[s], i \in IDs, y \in Message :
              /\ folder[Peer(s)][e] # None
              /\ i \notin used[s] /\ y # None /\ y.tag = folder[Peer(s)][e].tag /\ y.sur # None
              /\ \A t \in Side, j \in IDs : folder'[t][j] = IF t = s /\ j = i THEN y ELSE folder[t][j]
              /\ todo' = [todo EXCEPT ![s] = @ \ {e}]
<1>0. PICK e \in NextEntry(s) :
        /\ folder[Peer(s)][e] # None
        /\ \E i \in NewIDs(s), v \in StoredHashes(s, folder[Peer(s)][e]) :
             Store(s, i, [WithHeader(folder[Peer(s)][e], idx[Peer(s)][e].sur) EXCEPT !.sur = v])
        /\ todo' = [todo EXCEPT ![s] = @ \ {e}]
  BY DEF CopyOne
<1>1. PICK i \in NewIDs(s), v \in StoredHashes(s, folder[Peer(s)][e]) :
        Store(s, i, [WithHeader(folder[Peer(s)][e], idx[Peer(s)][e].sur) EXCEPT !.sur = v])
  BY <1>0
<1> DEFINE m == folder[Peer(s)][e]
           r == idx[Peer(s)][e]
           y == [WithHeader(m, r.sur) EXCEPT !.sur = v]
<1>2. Peer(s) \in Side /\ e \in todo[s] /\ e \in IDs /\ i \in IDs /\ i \notin used[s]
  BY NewIDsAreNew DEF TypeOK, Peer, Side, NextEntry, Least
<1>3. m \in Message /\ r \in Fields /\ r # None /\ v \in Hashes \cup {None}
  BY <1>0, <1>1, <1>2, SyncPairAssumption DEF Shape, Dom, Rows, TypeOK, StoredHashes, Message
<1>4. Describes(r, m)
  BY <1>0, <1>1, <1>2, <1>3 DEF Core, Trusted, Fits, Fit
<1>5. y \in Message /\ y # None
  <2>1. y \in Message
    BY <1>3 DEF WithHeader, Message, Fields
  <2> QED
    BY <2>1, SyncPairAssumption
<1>6. /\ Store(s, i, y) /\ r.sur = m.sur /\ m.sur # None /\ m # None
      /\ y.tag = m.tag /\ y.mid = m.mid /\ y.sur = v
      /\ y.xhash = IF m.xhash # None THEN m.xhash ELSE m.sur
  <2>1. Store(s, i, y) /\ r.sur = m.sur /\ m.sur # None /\ m # None
    BY <1>0, <1>1, <1>4 DEF Describes
  <2> QED
    BY <1>3, <2>1 DEF WithHeader, Message
<1>7. \/ v = m.sur
      \/ /\ v \in ServerHashes /\ Rewrites # {}
         /\ \A d \in Side : \A j \in Dom(folder[d]) : folder[d][j].sur # v
  BY DEF StoredHashes
<1>8. Plausible(m) /\ m.tag <= born
  BY <1>2, <1>6 DEF Kinship
<1>9. \A t \in Side, j \in IDs : folder[t][j] # None => Plausible(folder[t][j]) /\ Kin(m, folder[t][j])
  BY <1>2, <1>6 DEF Kinship
<1> HIDE DEF m, r, y
<1>10. \A t \in Side, j \in IDs : folder'[t][j] = IF t = s /\ j = i THEN y ELSE folder[t][j]
  BY <1>2, <1>6 DEF Store, TypeOK
<1>11. Plausible(y) /\ Base(y) = Base(m) /\ y.tag = m.tag /\ y.mid = m.mid /\ y.sur = v
  BY <1>6, <1>7, <1>8, CopyIsKin
<1>12. \A t \in Side, j \in IDs : folder[t][j] # None => Kin(y, folder[t][j])
  <2>1. SUFFICES ASSUME NEW t \in Side, NEW j \in IDs, folder[t][j] # None PROVE Kin(y, folder[t][j])
    OBVIOUS
  <2>2. Plausible(folder[t][j]) /\ Kin(m, folder[t][j])
    BY <1>9, <2>1
  <2>3. v = m.sur \/ folder[t][j].sur # v
    BY <1>7, <2>1 DEF Dom
  <2> QED
    BY <1>8, <1>11, <2>2, <2>3, KinAre
<1>13. born' = born /\ born \in Nat
  BY SyncPairAssumption DEF CopyOne, TypeOK
<1>14. Kinship'
  BY <1>2, <1>8, <1>10, <1>11, <1>12, <1>13, KinshipPut
<1>16. y.sur # None
  BY <1>6, <1>7, SyncPairAssumption, MessagesAssumption
<1>15. /\ folder[Peer(s)][e] # None
       /\ i \notin used[s] /\ y # None /\ y.tag = folder[Peer(s)][e].tag
       /\ \A t \in Side, j \in IDs : folder'[t][j] = IF t = s /\ j = i THEN y ELSE folder[t][j]
       /\ todo' = [todo EXCEPT ![s] = @ \ {e}]
  BY <1>0, <1>2, <1>5, <1>10, <1>11 DEF m
<1> QED
  BY <1>2, <1>5, <1>14, <1>15, <1>16

\* A copy goes where the mail is missing, and repeats no other
LEMMA CopyKeepsPass ==
  ASSUME Distinguishable, TypeOK, Shape, Core, Kinship, NoDuplicates, PassKnows,
         NEW s \in Side, CopyOne(s)
  PROVE  NoDuplicates' /\ PassKnows'
<1>1. PICK e \in todo[s], i \in IDs, y \in Message :
        /\ folder[Peer(s)][e] # None
        /\ i \notin used[s] /\ y # None /\ y.tag = folder[Peer(s)][e].tag
        /\ \A t \in Side, j \in IDs : folder'[t][j] = IF t = s /\ j = i THEN y ELSE folder[t][j]
        /\ todo' = [todo EXCEPT ![s] = @ \ {e}]
  BY CopyStores
<1>2. pc = "copy" /\ UNCHANGED <<pc, cs, idx, cur, gone, cached>>
  BY DEF CopyOne
<1>3. Peer(s) \in Side /\ Peer(s) # s /\ Peer(Peer(s)) = s /\ Side = {s, Peer(s)} /\ e \in IDs
  BY DEF Peer, Side, TypeOK
<1>4. ~Has(s, y.tag)
  BY <1>1 DEF PassKnows, StillMissing
<1>5. NoDuplicates'
  <2>1. SUFFICES ASSUME NEW t \in Side, NEW j \in IDs, NEW k \in IDs, folder'[t][j] # None, folder'[t][k] # None,
                        folder'[t][j].tag = folder'[t][k].tag, j # k
                 PROVE  FALSE
    BY DEF NoDuplicates, Dom
  <2>2. CASE t = s /\ (j = i \/ k = i)
    BY <1>1, <1>4, <2>1, <2>2 DEF Has
  <2>3. CASE ~(t = s /\ (j = i \/ k = i))
    <3>1. folder'[t][j] = folder[t][j] /\ folder'[t][k] = folder[t][k]
      BY <1>1, <2>3
    <3> QED
      BY <2>1, <3>1 DEF NoDuplicates, Dom
  <2> QED
    BY <2>2, <2>3
<1>6. Listed' /\ Covered'
  BY <1>2 DEF Listed, Covered
<1>7. StillMissing'
  <2>1. SUFFICES ASSUME NEW t \in Side, NEW x \in todo'[t]
                 PROVE  allow(t) /\ (folder'[Peer(t)][x] # None => ~HasNext(t, folder'[Peer(t)][x].tag))
    BY <1>2 DEF StillMissing, PassKnows, allow, Has, HasNext
  <2>2. x \in todo[t] /\ x \in IDs /\ (t = s => x # e)
    BY <1>1 DEF TypeOK
  <2>3. allow(t) /\ (folder[Peer(t)][x] # None => ~Has(t, folder[Peer(t)][x].tag))
    BY <2>2 DEF PassKnows, StillMissing
  <2>4. CASE t = s
    <3>1. folder'[Peer(s)][x] = folder[Peer(s)][x]
      BY <1>1, <1>3, <2>2
    <3>2. folder[Peer(s)][x] # None => folder[Peer(s)][x].tag # y.tag
      BY <1>1, <1>3, <2>1, <2>2, <2>4, <3>1 DEF NoDuplicates, Dom
    <3> QED
      BY <1>1, <2>1, <2>3, <2>4, <3>1, <3>2 DEF Has, HasNext
  <2>5. CASE t = Peer(s)
    <3>1. x \in used[s] /\ x # i
      BY <1>1, <1>3, <2>2, <2>5 DEF Shape, Dom, Core, Trusted, Fits, Fit
    <3>2. folder'[s][x] = folder[s][x] /\ \A j \in IDs : folder'[t][j] = folder[t][j]
      BY <1>1, <1>3, <2>2, <2>5, <3>1
    <3> QED
      BY <1>3, <2>1, <2>3, <2>5, <3>2 DEF Has, HasNext
  <2> QED
    BY <1>3, <2>4, <2>5
<1> QED
  BY <1>5, <1>6, <1>7 DEF PassKnows

\* A renumbering moves the mails and meets no pass
LEMMA RenumberKeepsMail ==
  ASSUME TypeOK, Shape, Kinship, NoDuplicates, NEW s \in Side, Renumber(s)
  PROVE  Kinship' /\ NoDuplicates' /\ PassKnows'
<1>1. PICK g \in [Dom(folder[s]) -> IDs] :
        /\ \A i, j \in Dom(folder[s]) : g[i] = g[j] => i = j
        /\ folder' = [folder EXCEPT ![s] =
             [k \in IDs |-> IF \E i \in Dom(folder[s]) : g[i] = k
                            THEN folder[s][CHOOSE i \in Dom(folder[s]) : g[i] = k] ELSE None]]
  BY DEF Renumber
<1> DEFINE from(k) == CHOOSE i \in Dom(folder[s]) : g[i] = k
<1>2. \A k \in IDs : folder'[s][k] # None =>
        from(k) \in Dom(folder[s]) /\ g[from(k)] = k /\ folder'[s][k] = folder[s][from(k)]
  BY <1>1 DEF TypeOK
<1>3. \A t \in Side \ {s} : folder'[t] = folder[t]
  BY <1>1 DEF TypeOK
<1> HIDE DEF from
<1>4. \A t \in Side, k \in IDs : folder'[t][k] # None =>
        \E i \in IDs : /\ folder[t][i] # None /\ folder'[t][k] = folder[t][i]
                       /\ t = s => i = from(k)
                       /\ t # s => i = k
  BY <1>2, <1>3 DEF Dom
<1>5. born' = born
  BY DEF Renumber
<1>6. Kinship'
  <2>1. \A t \in Side, k \in IDs : folder'[t][k] # None =>
          folder'[t][k].tag <= born' /\ Plausible(folder'[t][k])
    BY <1>4, <1>5 DEF Kinship
  <2>2. \A t, d \in Side, j, k \in IDs :
          folder'[t][j] # None /\ folder'[d][k] # None => Kin(folder'[t][j], folder'[d][k])
    BY <1>4 DEF Kinship
  <2> QED
    BY <2>1, <2>2 DEF Kinship
<1>7. NoDuplicates'
  <2>1. SUFFICES ASSUME NEW t \in Side, NEW j \in IDs, NEW k \in IDs, folder'[t][j] # None, folder'[t][k] # None,
                        folder'[t][j].tag = folder'[t][k].tag
                 PROVE  j = k
    BY DEF NoDuplicates, Dom
  <2>2. CASE t = s
    <3>1. from(j) = from(k)
      BY <1>2, <2>1, <2>2 DEF NoDuplicates
    <3> QED
      BY <1>2, <2>1, <2>2, <3>1
  <2>3. CASE t # s
    BY <1>3, <2>1, <2>3 DEF NoDuplicates, Dom
  <2> QED
    BY <2>2, <2>3
<1>8. pc' = "idle" /\ \A t \in Side : todo'[t] = {}
  BY DEF Renumber, passVars, Shape
<1>9. PassKnows'
  BY <1>8 DEF PassKnows, Listed, Covered, StillMissing
<1> QED
  BY <1>6, <1>7, <1>9

-----------------------------------------------------------------------------
\* A row has the keys its mail has from the sender
LEMMA DescribesBase ==
  ASSUME Distinguishable, NEW r, NEW m, Plausible(m), Describes(r, m)
  PROVE  Base(m) \subseteq Keys(r)
<1>1. ASSUME NEW x, x \in Base(m) PROVE x \in Keys(r)
  <2>1. \/ m.mid # None /\ m.mid \notin ServerMIDs /\ x = <<"mid", m.mid>>
        \/ m.xhash # None /\ x = <<"hash", m.xhash>>
        \/ x = <<"hash", m.sur>>
    BY <1>1, BaseAre
  <2>2. x \in Keys(r) <=> \/ r.mid # None /\ x = <<"mid", r.mid>>
                          \/ r.xhash # None /\ x = <<"hash", r.xhash>>
                          \/ x = <<"hash", r.sur>>
    BY KeysAre
  <2> QED
    BY <2>1, <2>2 DEF Describes, Plausible, Distinguishable
<1> QED
  BY <1>1

\* A copy of a mail that parses parses
LEMMA CopyParses ==
  ASSUME NEW m, NEW n, Base(m) = Base(n), m.sur # None
  PROVE  n.sur # None
<1>1. SUFFICES ASSUME n.sur = None PROVE FALSE
  OBVIOUS
<1>2. None \notin ServerHashes
  BY SyncPairAssumption, MessagesAssumption
<1>3. <<"hash", None>> \in Base(n)
  BY <1>1, <1>2, BaseAre
<1>4. <<"hash", None>> \in Base(m)
  BY <1>3
<1> QED
  BY <1>4, BaseAre

(***************************************************************************)
(* What BuildFrom needs of the listing, for its index to cover the folder. *)
(***************************************************************************)
Indexable(s, ids, rows) ==
  /\ \A x \in ids : rows[x] # None
  /\ \A j \in IDs : (folder[s][j] # None /\ ParseFields(folder[s][j]) /\ Has(Peer(s), folder[s][j].tag)) => j \in ids
  /\ \A j \in ids : folder[s][j] # None => Keys(rows[j]) \cap Base(folder[s][j]) # {}
  /\ \A j, x \in ids : folder[s][j] # None /\ SharesKey(rows[x], rows[j]) =>
       Keys(rows[x]) \cap Base(folder[s][j]) # {}

\* Whatever is not an entry shares a key with one, in either order of listing
LEMMA IndexCovers ==
  ASSUME NEW s \in Side, NEW ids \in SUBSET IDs, NEW rows, Indexable(s, ids, rows), NEW E \in SUBSET ids,
         IsIndex(E, ids, rows) \/ IsIndexInAnyOrder(E, ids, rows)
  PROVE  Covers(s, Without(rows, IDs \ E))
<1> DEFINE f == Without(rows, IDs \ E)
<1>1. SUFFICES ASSUME NEW j \in IDs, folder[s][j] # None, ParseFields(folder[s][j]),
                      Has(Peer(s), folder[s][j].tag)
               PROVE  \E x \in IDs : f[x] # None /\ Keys(f[x]) \cap Base(folder[s][j]) # {}
  BY DEF Covers
<1>2. j \in ids
  BY <1>1 DEF Indexable
<1>3. \A x \in E : x \in IDs /\ f[x] = rows[x] /\ f[x] # None
  BY DEF Without, Indexable
<1>4. PICK x \in E : Keys(rows[x]) \cap Base(folder[s][j]) # {}
  <2>1. CASE j \in E
    BY <1>1, <1>2, <2>1 DEF Indexable
  <2>2. CASE j \notin E
    <3>1. PICK x \in E : SharesKey(rows[x], rows[j])
      BY <1>2, <2>2 DEF IsIndex, IsIndexInAnyOrder, SharesKey
    <3> QED
      BY <1>1, <1>2, <3>1 DEF Indexable
  <2> QED
    BY <2>1, <2>2
<1> QED
  BY <1>3, <1>4

\* The listing of a full pass
LEMMA FullIndexable ==
  ASSUME TypeOK, Kinship, NEW s \in Side, NEW ok, ok = {i \in Dom(folder[s]) : ParseFields(folder[s][i])},
         NEW rows, rows = [i \in IDs |-> IF i \in ok THEN ParseMessage(folder[s][i]) ELSE None]
  PROVE  Indexable(s, ok, rows)
<1>1. \A i \in ok : i \in IDs /\ folder[s][i] # None /\ Plausible(folder[s][i]) /\ rows[i] = ParseMessage(folder[s][i])
  BY DEF Dom, Kinship
<1>2. \A i \in ok : Keys(rows[i]) = Keys(folder[s][i])
  BY <1>1 DEF ParseMessage, Keys
<1>3. \A i \in ok : rows[i] # None
  <2>1. \A i \in IDs : folder[s][i] \in Message \cup {None}
    BY DEF TypeOK
  <2>2. \A i \in ok : ParseMessage(folder[s][i]) \in Fields
    BY <1>1, <2>1, ParseTyped
  <2> QED
    BY <1>1, <2>2, MessagesAssumption
<1>4. \A j \in IDs : folder[s][j] # None /\ ParseFields(folder[s][j]) => j \in ok
  BY DEF Dom
<1>5. \A j \in ok : \E x : x \in Base(folder[s][j]) /\ x \in Keys(folder[s][j])
  BY <1>1, BaseNotEmpty
<1>6. ASSUME NEW j \in ok, NEW x \in ok, SharesKey(rows[x], rows[j])
      PROVE  Keys(rows[x]) \cap Base(folder[s][j]) # {}
  <2>1. PICK k : k \in Keys(folder[s][x]) /\ k \in Keys(folder[s][j])
    BY <1>2, <1>6 DEF SharesKey
  <2>2. CASE k \in Made
    <3>1. Kin(folder[s][x], folder[s][j])
      BY <1>1 DEF Kinship
    <3>2. Base(folder[s][x]) = Base(folder[s][j])
      BY <2>1, <2>2, <3>1 DEF Kin
    <3>3. PICK b : b \in Base(folder[s][j])
      BY <1>5
    <3>4. b \in Keys(folder[s][x])
      BY <3>2, <3>3 DEF Base
    <3> QED
      BY <1>2, <3>3, <3>4
  <2>3. CASE k \notin Made
    BY <1>2, <2>1, <2>3 DEF Base
  <2> QED
    BY <2>2, <2>3
<1> QED
  BY <1>2, <1>3, <1>4, <1>5, <1>6 DEF Indexable

\* The listing of an incremental pass, its rows partly from the cache
LEMMA CachedIndexable ==
  ASSUME Distinguishable, TypeOK, Core, Kinship, Listed, NEW s \in Side, SaveEndpoint(s)
  PROVE  Indexable(s, cur \cap Dom(cached), cached)
<1>1. pc = "save" /\ cs = s /\ Incremental /\ Rewrites = {} /\ LateMID = {}
  BY DEF SaveEndpoint, Core, Modes, Distinguishable
<1>2. Fits(s, cached)
  BY <1>1 DEF Core, Trusted, Indexing
<1>3. \A j \in IDs : folder[s][j] # None /\ ParseFields(folder[s][j]) /\ Has(Peer(s), folder[s][j].tag) =>
        j \in cur \cap Dom(cached)
  BY <1>1 DEF Listed, Dom
<1>4. \A j \in Dom(cached) : cached[j] # None /\ j \in IDs
  BY DEF Dom
<1>5. ASSUME NEW j \in Dom(cached), folder[s][j] # None
      PROVE  /\ <<"hash", folder[s][j].sur>> \in Keys(cached[j]) \cap Base(folder[s][j])
             /\ Keys(cached[j]) \subseteq Base(folder[s][j])
  <2> DEFINE m == folder[s][j]
             r == cached[j]
  <2>1. Describes(r, m) /\ Plausible(m)
    BY <1>2, <1>4, <1>5 DEF Fits, Fit, Kinship
  <2> HIDE DEF m, r
  <2>2. m.mid \notin ServerMIDs /\ m.sur \notin ServerHashes
    BY <1>1, <2>1 DEF Plausible
  <2>3. Keys(r) \subseteq Keys(m)
    BY <2>1, DescribesKeys
  <2>4. Keys(m) \cap Made = {}
    BY <2>1, <2>2, MadeAre
  <2>5. <<"hash", m.sur>> \in Keys(r)
    BY <2>1, KeysAre DEF Describes
  <2> QED
    BY <2>3, <2>4, <2>5 DEF Base, m, r
<1>6. \A j, x \in Dom(cached) : folder[s][j] # None /\ SharesKey(cached[x], cached[j]) =>
        Keys(cached[x]) \cap Base(folder[s][j]) # {}
  BY <1>5 DEF SharesKey
<1>7. \A j \in Dom(cached) : folder[s][j] # None => Keys(cached[j]) \cap Base(folder[s][j]) # {}
  BY <1>5
<1> QED
  BY <1>3, <1>4, <1>6, <1>7 DEF Indexable

\* After side b, what is missing on a side is missing there
LEMMA BuildKeepsPass ==
  ASSUME Distinguishable, TypeOK, Shape, Core, Core', Kinship, PassKnows, NEW s \in Side,
         NEW ids \in SUBSET IDs, NEW rows, Indexable(s, ids, rows), BuildIndex(s, ids, rows),
         UNCHANGED folder, cs = s, pc \in {"fetch", "save"}
  PROVE  PassKnows'
<1>1. PICK E \in SUBSET ids :
        /\ IsIndex(E, ids, rows) \/ IsIndexInAnyOrder(E, ids, rows)
        /\ idx' = [idx EXCEPT ![s] = Without(rows, IDs \ E)]
  BY DEF BuildIndex
<1>2. Covers(s, idx'[s]) /\ \A t \in Side \ {s} : idx'[t] = idx[t]
  BY <1>1, IndexCovers DEF TypeOK
<1>3. CASE s = "a"
  <2>1. cs' = "b" /\ todo' = todo /\ (pc' = "load" \/ (pc' = "fetch" /\ ~Incremental))
    BY <1>3 DEF BuildIndex
  <2>2. \A t \in Side : todo[t] = {}
    BY DEF Shape
  <2>3. Covered'
    BY <1>2, <1>3 DEF Covered, Covers, Has
  <2> QED
    BY <2>1, <2>2, <2>3 DEF PassKnows, Listed, StillMissing
<1>4. CASE s = "b"
  <2>1. /\ pc' = "copy" /\ cs' = "b"
        /\ todo' = [d \in Side |->
             IF allow(d) THEN Missing(Dom(idx'[Peer(d)]), idx'[Peer(d)], Dom(idx'[d]), idx'[d]) ELSE {}]
    BY <1>4 DEF BuildIndex
  <2>2. \A d \in Side : Covers(d, idx'[d])
    BY <1>2, <1>4 DEF PassKnows, Covered, Side
  <2>3. ASSUME NEW d \in Side, NEW e \in todo'[d]
        PROVE  allow(d) /\ (folder[Peer(d)][e] # None => ~Has(d, folder[Peer(d)][e].tag))
    <3>1. allow(d) /\ e \in Missing(Dom(idx'[Peer(d)]), idx'[Peer(d)], Dom(idx'[d]), idx'[d])
      BY <2>1, <2>3
    <3>2. SUFFICES ASSUME folder[Peer(d)][e] # None, NEW j \in IDs, folder[d][j] # None,
                          folder[d][j].tag = folder[Peer(d)][e].tag
                   PROVE  FALSE
      BY <3>1 DEF Has
    <3> DEFINE m == folder[Peer(d)][e]
               n == folder[d][j]
               r == idx'[Peer(d)][e]
    <3>3. Peer(d) \in Side /\ Peer(Peer(d)) = d /\ e \in IDs /\ r # None
      BY <3>1 DEF Missing, Dom, Peer, Side
    <3>4. Describes(r, m)
      BY <3>2, <3>3 DEF Core, Trusted, Fits, Fit
    <3>5. Plausible(m) /\ Base(m) = Base(n)
      BY <3>2, <3>3 DEF Kinship, Kin
    <3>6. Base(n) \subseteq Keys(r)
      BY <3>4, <3>5, DescribesBase
    <3>7. ParseFields(n)
      BY <3>4, <3>5, CopyParses DEF Describes, ParseFields
    <3>8. Has(Peer(d), n.tag)
      BY <3>2, <3>3 DEF Has
    <3>9. PICK x \in IDs : idx'[d][x] # None /\ Keys(idx'[d][x]) \cap Base(n) # {}
      BY <2>2, <3>2, <3>7, <3>8 DEF Covers
    <3>10. SharesKey(r, idx'[d][x])
      BY <3>6, <3>9 DEF SharesKey
    <3> QED
      BY <3>1, <3>9, <3>10 DEF Missing, Dom
  <2>4. StillMissing'
    BY <2>3 DEF StillMissing, Has, allow
  <2> QED
    BY <2>1, <2>4 DEF PassKnows, Listed, Covered
<1> QED
  BY <1>3, <1>4 DEF Side

\* The steps of a pass that leave the mail alone
LEMMA PassKeepsPass ==
  ASSUME Distinguishable, TypeOK, Shape, Core, Core', Kinship, PassKnows, NEW s \in Side,
         \/ Select(s) \/ LoadEndpoint(s) \/ ResetEndpoint(s) \/ ListIDs(s) \/ FetchMeta(s)
         \/ PutCachedMsgs(s) \/ DeleteCachedMsgs(s) \/ SaveEndpoint(s) \/ IndexFolderFull(s)
  PROVE  PassKnows'
<1> USE DEF mailVars, cacheVars
<1>1. ASSUME UNCHANGED <<folder, idx, todo>>, Listed', UNCHANGED cs \/ cs' = "a",
             pc \in {"load", "reset", "list", "fetch", "put", "gone", "save"} \/ cs' = "a" \/ pc' = "select"
      PROVE  PassKnows'
  <2>1. Covered'
    BY <1>1 DEF Covered, PassKnows, Covers, Has
  <2>2. StillMissing'
    BY <1>1 DEF StillMissing, PassKnows, Has, allow
  <2> QED
    BY <1>1, <2>1, <2>2 DEF PassKnows
<1>2. CASE Select(s)
  <2>1. Listed'
    BY <1>2 DEF Select, Listed
  <2>2. UNCHANGED <<folder, idx, todo>> /\ (cs' = "a" \/ pc' = "select")
    BY <1>2 DEF Select, Peer, Side
  <2>3. StillMissing' /\ Covered'
    BY <2>2 DEF StillMissing, PassKnows, Has, allow, Covered
  <2> QED
    BY <2>1, <2>3 DEF PassKnows
<1>3. CASE LoadEndpoint(s) \/ ResetEndpoint(s)
  BY <1>1, <1>3 DEF LoadEndpoint, ResetEndpoint, Listed
<1>4. CASE ListIDs(s)
  <2>1. pc = "list" /\ pc' = "fetch" /\ cs = s /\ UNCHANGED <<folder, used, cs, idx, todo, cached>>
    BY <1>4 DEF ListIDs
  <2>2. cur' = Dom(folder[s]) /\ gone' = Dom(cached) \ Dom(folder[s])
    BY <1>4 DEF ListIDs
  <2>3. Dom(folder[s]) \subseteq used[s]
    BY DEF Core, GivenOut, Dom
  <2>4. Listed'
    BY <2>1, <2>2, <2>3 DEF Listed, Dom
  <2> QED
    BY <1>1, <2>1, <2>4
<1>5. CASE FetchMeta(s)
  <2> DEFINE ok == {i \in Fetched(s) : ParseFields(folder[s][i])}
  <2>1. /\ pc = "fetch" /\ pc' = "put" /\ cs = s /\ Incremental
        /\ UNCHANGED <<folder, used, cs, idx, todo, cur, gone>>
        /\ cached' = [i \in IDs |-> IF i \in ok THEN ParseMessage(folder[s][i]) ELSE cached[i]]
    BY <1>5 DEF FetchMeta
  <2>2. ASSUME NEW j \in IDs, folder[s][j] # None, j \in cur, ParseFields(folder[s][j])
        PROVE  cached'[j] # None
    <3>1. CASE j \in ok
      <4>1. folder[s][j] \in Message
        BY <2>2 DEF TypeOK
      <4> QED
        BY <2>1, <3>1, <4>1, ParseTyped, MessagesAssumption
    <3>2. CASE j \notin ok
      <4>1. j \notin cur \ Dom(cached)
        BY <2>1, <2>2, <3>2 DEF Fetched, Requested, Dom
      <4> QED
        BY <2>1, <2>2, <3>2, <4>1 DEF Dom
    <3> QED
      BY <3>1, <3>2
  <2> HIDE DEF ok
  <2>3. Listed'
    BY <2>1, <2>2 DEF Listed, PassKnows, Has
  <2> QED
    BY <1>1, <2>1, <2>3
<1>6. CASE PutCachedMsgs(s)
  <2>1. /\ pc = "put" /\ pc' = "gone" /\ cs = s
        /\ UNCHANGED <<folder, used, cs, idx, todo, cur, gone, cached>>
    BY <1>6 DEF PutCachedMsgs
  <2>2. Listed'
    BY <2>1 DEF Listed, PassKnows, Has
  <2> QED
    BY <1>1, <2>1, <2>2
<1>7. CASE DeleteCachedMsgs(s)
  <2>1. /\ pc = "gone" /\ pc' = "save" /\ cs = s
        /\ UNCHANGED <<folder, used, cs, idx, todo, cur, gone>>
        /\ cached' = Without(cached, gone)
    BY <1>7 DEF DeleteCachedMsgs
  <2>2. Incremental
    BY <2>1 DEF Core, Modes
  <2>3. gone \cap cur = {}
    BY <2>1, <2>2 DEF Listed, PassKnows
  <2>4. \A j \in cur : j \in IDs => cached'[j] = cached[j]
    BY <2>1, <2>3 DEF Without
  <2>5. Listed'
    BY <2>1, <2>4 DEF Listed, PassKnows, Has
  <2> QED
    BY <1>1, <2>1, <2>5
<1>8. CASE SaveEndpoint(s)
  <2>1. /\ UNCHANGED folder /\ cs = s /\ pc = "save"
        /\ cur \cap Dom(cached) \in SUBSET IDs /\ BuildIndex(s, cur \cap Dom(cached), cached)
    BY <1>8 DEF SaveEndpoint, Dom
  <2>2. Indexable(s, cur \cap Dom(cached), cached)
    BY <1>8, CachedIndexable DEF PassKnows
  <2> QED
    BY <2>1, <2>2, BuildKeepsPass
<1>9. CASE IndexFolderFull(s)
  <2> DEFINE ok == {i \in Dom(folder[s]) : ParseFields(folder[s][i])}
             rows == [i \in IDs |-> IF i \in ok THEN ParseMessage(folder[s][i]) ELSE None]
  <2>1. UNCHANGED folder /\ cs = s /\ pc = "fetch" /\ ok \in SUBSET IDs /\ BuildIndex(s, ok, rows)
    BY <1>9 DEF IndexFolderFull, Dom
  <2>2. Indexable(s, ok, rows)
    BY FullIndexable
  <2> HIDE DEF ok, rows
  <2> QED
    BY <2>1, <2>2, BuildKeepsPass
<1> QED
  BY <1>2, <1>3, <1>4, <1>5, <1>6, <1>7, <1>8, <1>9

\* The copy loop goes on, stops or is given up; the pass returns or dies
LEMMA EndKeepsPass ==
  ASSUME PassKnows, UNCHANGED folder, pc' \in {"idle", "copy", "post"},
         \A t \in Side : todo'[t] \subseteq todo[t]
  PROVE  PassKnows'
<1>1. StillMissing'
  BY DEF PassKnows, StillMissing, Has, allow
<1> QED
  BY <1>1 DEF PassKnows, Listed, Covered

\* Every step keeps a folder free of copies of one mail
LEMMA DifferentStep ==
  ASSUME Distinguishable, TypeOK, Shape, Core, Core', Different, [Next]_vars
  PROVE  Different'
<1>1. Kinship /\ NoDuplicates /\ PassKnows
  BY DEF Different, PassKnows
<1>2. SUFFICES Kinship' /\ NoDuplicates' /\ PassKnows'
  BY DEF Different, PassKnows
<1>3. ASSUME UNCHANGED <<folder, born>> PROVE Kinship' /\ NoDuplicates'
  BY <1>1, <1>3 DEF Kinship, NoDuplicates, Dom
<1> USE DEF mailVars, cacheVars
<1>4. ASSUME NEW s \in Side, Deliver(s) \/ Expunge(s) \/ AssignMessageID(s)
      PROVE  Kinship' /\ NoDuplicates' /\ PassKnows'
  <2>1. Kinship' /\ \E i : Mild(s, i)
    BY <1>1, <1>4, MailIsMild
  <2>2. (\A t \in Side : Grows(t)) /\ UNCHANGED passVars
    BY <1>4, MailGrows DEF Core, Deliver, Expunge, AssignMessageID
  <2>3. Grows(s) /\ used[Peer(s)] \subseteq used'[Peer(s)]
    BY <2>2 DEF Grows, Peer, Side
  <2> QED
    BY <1>1, <2>1, <2>2, <2>3, MailKeepsPass
<1>5. ASSUME NEW s \in Side, Renumber(s) PROVE Kinship' /\ NoDuplicates' /\ PassKnows'
  BY <1>1, <1>5, RenumberKeepsMail
<1>6. CASE UNCHANGED <<folder, born, used, passVars>>
  <2>1. PassKnows'
    BY <1>1, <1>6 DEF PassKnows, passVars, Listed, Covered, Covers, StillMissing, Has, allow
  <2> QED
    BY <1>3, <1>6, <2>1
<1>7. CASE Environment
  BY <1>4, <1>5, <1>6, <1>7, SyncPairAssumption DEF Environment, ForgetUser
<1>8. ASSUME NEW s \in Side,
             \/ Select(s) \/ LoadEndpoint(s) \/ ResetEndpoint(s) \/ ListIDs(s) \/ FetchMeta(s)
             \/ PutCachedMsgs(s) \/ DeleteCachedMsgs(s) \/ SaveEndpoint(s) \/ IndexFolderFull(s)
      PROVE  Kinship' /\ NoDuplicates' /\ PassKnows'
  <2>1. UNCHANGED <<folder, born>>
    BY <1>8 DEF Select, LoadEndpoint, ResetEndpoint, ListIDs, FetchMeta, PutCachedMsgs,
                DeleteCachedMsgs, SaveEndpoint, IndexFolderFull
  <2> QED
    BY <1>1, <1>3, <1>8, <2>1, PassKeepsPass
<1>9. ASSUME NEW s \in Side, CopyOne(s) PROVE Kinship' /\ NoDuplicates' /\ PassKnows'
  BY <1>1, <1>9, CopyStores, CopyKeepsPass
<1>10. ASSUME UNCHANGED <<folder, born>>, pc' \in {"idle", "copy", "post"},
              \A t \in Side : todo'[t] \subseteq todo[t]
       PROVE  Kinship' /\ NoDuplicates' /\ PassKnows'
  BY <1>1, <1>3, <1>10, EndKeepsPass
<1>11. CASE EndPass /\ UNCHANGED <<folder, born>>
  BY <1>10, <1>11 DEF EndPass
<1>12. ASSUME NEW s \in Side, CopyError(s) \/ CopyDone(s) \/ PutCopied(s)
       PROVE  Kinship' /\ NoDuplicates' /\ PassKnows'
  <2>1. UNCHANGED <<folder, born>>
    BY <1>12 DEF CopyError, CopyDone, PutCopied
  <2>2. CASE EndPass
    BY <1>11, <2>1, <2>2
  <2>3. CASE ~EndPass
    <3>1. pc' \in {"copy", "post"}
      BY <1>12, <2>3 DEF CopyError, CopyDone, PutCopied
    <3>2. \A t \in Side : todo'[t] \subseteq todo[t]
      <4>1. CASE CopyError(s)
        BY <2>3, <4>1 DEF CopyError, TypeOK
      <4>2. CASE CopyDone(s)
        BY <2>3, <4>2 DEF CopyDone, TypeOK
      <4>3. CASE PutCopied(s)
        BY <2>3, <4>3 DEF PutCopied, TypeOK
      <4> QED
        BY <1>12, <4>1, <4>2, <4>3
    <3> QED
      BY <1>10, <2>1, <3>1, <3>2
  <2> QED
    BY <2>2, <2>3
<1>13. CASE FolderError \/ Crash
  BY <1>11, <1>13 DEF FolderError, Crash
<1>14. CASE Interrupted
  BY <1>10, <1>14 DEF Interrupted
<1>15. CASE UNCHANGED vars
  BY <1>6, <1>15 DEF vars, passVars
<1> QED
  BY <1>7, <1>8, <1>9, <1>12, <1>13, <1>14, <1>15 DEF Next, Pass

\* Both folders are empty at the start
LEMMA DifferentInit == Init => Different
  BY DEF Init, Different, NoDuplicates, Kinship, Listed, Covered, StillMissing, Dom, NoRows

\* The invariant, for every value of the constants that meets the premise
LEMMA StaysDifferent == ASSUME Distinguishable PROVE Spec => []Different
<1>1. TypeOK /\ Shape /\ Core /\ Core' /\ Different /\ [Next]_vars => Different'
  BY DifferentStep
<1>2. Spec => []Core
  BY PremiseMet, Trustworthy
<1> QED
  BY <1>1, <1>2, DifferentInit, TypeCorrect, PTL DEF Spec

(***************************************************************************)
(* No folder ever holds one mail twice.                                    *)
(***************************************************************************)
THEOREM NothingTwice == Distinguishable => (Spec => []NoDuplicates)
<1>1. Different => NoDuplicates
  BY DEF Different
<1>2. ASSUME Distinguishable PROVE Spec => []NoDuplicates
  BY <1>1, <1>2, StaysDifferent, PTL
<1> QED
  BY <1>2

-----------------------------------------------------------------------------
(***************************************************************************)
(* The refinement mapping: the mail in each place, by its identity.        *)
(***************************************************************************)
held == [s \in Side |-> [i \in IDs |-> IF folder[s][i] = None THEN None ELSE folder[s][i].tag]]

\* The tag in a place, in this state and in the next
LEMMA HeldAt ==
  ASSUME TypeOK, NEW s \in Side, NEW i \in IDs
  PROVE  /\ folder[s][i] = None => held[s][i] = None
         /\ folder[s][i] # None => held[s][i] = folder[s][i].tag /\ held[s][i] \in Tags /\ held[s][i] # None
<1>1. folder[s][i] # None => folder[s][i].tag \in Tags
  BY DEF TypeOK, Message
<1>2. None \notin Tags
  BY SyncPairAssumption
<1> QED
  BY <1>1, <1>2 DEF held

\* One place gets the mail t, or is emptied
LEMMA HeldPut ==
  ASSUME TypeOK, NEW s \in Side, NEW i \in IDs, NEW y,
         \A t \in Side, j \in IDs : folder'[t][j] = IF t = s /\ j = i THEN y ELSE folder[t][j]
  PROVE  held' = [held EXCEPT ![s][i] = IF y = None THEN None ELSE y.tag]
<1> DEFINE v == IF y = None THEN None ELSE y.tag
<1>1. held'[s] = [held[s] EXCEPT ![i] = v]
  BY DEF held
<1>2. \A t \in Side \ {s} : held'[t] = held[t]
  BY DEF held
<1> HIDE DEF v
<1>3. held' = [held EXCEPT ![s] = [held[s] EXCEPT ![i] = v]]
  BY <1>1, <1>2 DEF held
<1> QED
  BY <1>3 DEF v

\* A delivery is a delivery
LEMMA DeliverRefines ==
  ASSUME TypeOK, Core, NEW s \in Side, Deliver(s)
  PROVE  Promise!Deliver(s)
<1>1. PICK f \in Arrivals, i \in IDs :
         /\ i \notin used[s] /\ born + 1 \in Tags
         /\ LET y == [mid |-> f.mid, xhash |-> f.xhash, sur |-> f.sur, tag |-> born + 1]
            IN /\ y \in Message /\ y # None
               /\ \A t \in Side, j \in IDs :
                    folder'[t][j] = IF t = s /\ j = i THEN y ELSE folder[t][j]
  BY DeliverStores
<1> DEFINE y == [mid |-> f.mid, xhash |-> f.xhash, sur |-> f.sur, tag |-> born + 1]
<1>2. /\ y.tag = born + 1 /\ y # None
      /\ \A t \in Side, j \in IDs : folder'[t][j] = IF t = s /\ j = i THEN y ELSE folder[t][j]
  BY <1>1
<1> HIDE DEF y
<1>3. held' = [held EXCEPT ![s][i] = born + 1]
  BY <1>2, HeldPut
<1>4. held[s][i] = None
  BY <1>1, HeldAt DEF Core, GivenOut
<1>5. born \in Nat /\ born' = born + 1
  BY SyncPairAssumption DEF TypeOK, Deliver
<1>6. born + 1 \in Tags \ (1..born) /\ 1..born' = (1..born) \cup {born + 1}
  BY <1>1, <1>5
<1> QED
  BY <1>3, <1>4, <1>6 DEF Promise!Deliver, held

\* An expunge removes, and a Message-ID assigned late changes nothing
LEMMA ExpungeRefines ==
  ASSUME TypeOK, NEW s \in Side, Expunge(s)
  PROVE  Promise!Remove(s)
<1>1. PICK i \in Dom(folder[s]) : folder' = [folder EXCEPT ![s][i] = None]
  BY DEF Expunge
<1>2. i \in IDs /\ \A t \in Side, j \in IDs :
        folder'[t][j] = IF t = s /\ j = i THEN None ELSE folder[t][j]
  BY <1>1 DEF TypeOK, Dom
<1>3. held' = [held EXCEPT ![s][i] = None]
  BY <1>2, HeldPut
<1>4. born' = born
  BY DEF Expunge
<1> QED
  BY <1>2, <1>3, <1>4 DEF Promise!Remove, held

\* A server that adds a Message-ID moves no mail
LEMMA AssignRefines ==
  ASSUME TypeOK, NEW s \in Side, AssignMessageID(s)
  PROVE  UNCHANGED Promise!avars
<1>1. PICK i \in Dom(folder[s]), k \in ServerMIDs : folder' = [folder EXCEPT ![s][i].mid = k]
  BY DEF AssignMessageID
<1> DEFINE m == folder[s][i]
           y == [m EXCEPT !.mid = k]
<1>2. i \in IDs /\ m \in Message /\ m # None
  BY DEF Dom, TypeOK
<1>3. y \in Message /\ y # None /\ y.tag = m.tag
  BY <1>2, SyncPairAssumption DEF Message
<1>4. \A t \in Side, j \in IDs : folder'[t][j] = IF t = s /\ j = i THEN y ELSE folder[t][j]
  BY <1>1, <1>2 DEF TypeOK
<1> HIDE DEF y
<1>5. \A t \in Side, j \in IDs : /\ folder'[t][j] = None <=> folder[t][j] = None
                                 /\ folder[t][j] # None => folder'[t][j].tag = folder[t][j].tag
  BY <1>2, <1>3, <1>4
<1>6. held' = held
  BY <1>5 DEF held
<1>7. born' = born
  BY DEF AssignMessageID
<1> QED
  BY <1>6, <1>7 DEF Promise!avars, held

\* A renumbering keeps every mail
LEMMA RenumberRefines ==
  ASSUME TypeOK, NEW s \in Side, Renumber(s)
  PROVE  Promise!Renumber(s)
<1>1. PICK g \in [Dom(folder[s]) -> IDs] :
        /\ \A i, j \in Dom(folder[s]) : g[i] = g[j] => i = j
        /\ folder' = [folder EXCEPT ![s] =
             [k \in IDs |-> IF \E i \in Dom(folder[s]) : g[i] = k
                            THEN folder[s][CHOOSE i \in Dom(folder[s]) : g[i] = k] ELSE None]]
  BY DEF Renumber
<1> DEFINE from(k) == CHOOSE i \in Dom(folder[s]) : g[i] = k
           f == [k \in IDs |-> IF \E i \in Dom(folder[s]) : g[i] = k THEN from(k) ELSE None]
<1>2. \A k \in IDs : (\E i \in Dom(folder[s]) : g[i] = k) =>
        from(k) \in Dom(folder[s]) /\ g[from(k)] = k /\ folder'[s][k] = folder[s][from(k)]
  BY <1>1 DEF TypeOK
<1>3. \A k \in IDs : ~(\E i \in Dom(folder[s]) : g[i] = k) => folder'[s][k] = None
  BY <1>1 DEF TypeOK
<1>4. \A t \in Side \ {s} : folder'[t] = folder[t]
  BY <1>1 DEF TypeOK
<1>5. None \notin IDs
  BY SyncPairAssumption
<1>6. \A i \in Dom(folder[s]) : i \in IDs /\ folder[s][i] # None
  BY DEF Dom
<1> HIDE DEF from
<1>7. f \in [IDs -> IDs \cup {None}]
  BY <1>2, <1>6
<1>8. \A k \in IDs : f[k] # None => f[k] \in Dom(folder[s]) /\ g[f[k]] = k /\ folder'[s][k] = folder[s][f[k]]
  BY <1>2
<1>9. \A k \in IDs : f[k] = None => folder'[s][k] = None
  BY <1>2, <1>3, <1>5, <1>6
<1>10. \A i \in Dom(folder[s]) : g[i] \in IDs /\ f[g[i]] = i
  BY <1>1, <1>2
<1> HIDE DEF f
<1>11. \A i, j \in IDs : f[i] = f[j] => i = j \/ f[i] = None
  BY <1>8
<1>12. held'[s] = [k \in IDs |-> IF f[k] = None THEN None ELSE held[s][f[k]]]
  <2>1. ASSUME NEW k \in IDs PROVE held'[s][k] = IF f[k] = None THEN None ELSE held[s][f[k]]
    BY <1>6, <1>8, <1>9 DEF held
  <2> QED
    BY <2>1 DEF held
<1>13. \A t \in Side \ {s} : held'[t] = held[t]
  BY <1>4 DEF held
<1>14. held' = [held EXCEPT ![s] = [k \in IDs |-> IF f[k] = None THEN None ELSE held[s][f[k]]]]
  BY <1>12, <1>13 DEF held
<1>15. \A i \in IDs : held[s][i] # None => \E k \in IDs : f[k] = i
  BY <1>10 DEF held, Dom
<1>16. born' = born
  BY DEF Renumber
<1> QED
  BY <1>7, <1>11, <1>14, <1>15, <1>16 DEF Promise!Renumber, held

\* A copy is a copy: allowed, of a mail the other side has and this one has not
LEMMA CopyRefines ==
  ASSUME Distinguishable, TypeOK, Shape, Core, Different, NEW s \in Side, CopyOne(s)
  PROVE  Promise!Copy(s)
<1>1. PICK e \in todo[s], i \in IDs, y \in Message :
        /\ folder[Peer(s)][e] # None
        /\ i \notin used[s] /\ y # None /\ y.tag = folder[Peer(s)][e].tag
        /\ \A t \in Side, j \in IDs : folder'[t][j] = IF t = s /\ j = i THEN y ELSE folder[t][j]
  BY CopyStores DEF Different
<1>2. Peer(s) \in Side \ {s} /\ e \in IDs
  BY DEF Peer, Side, TypeOK
<1>3. allow(s) /\ ~Has(s, y.tag)
  BY <1>1 DEF Different, StillMissing
<1>4. s \in WritableSides
  BY <1>3, SyncPairAssumption DEF WritableSides, allow, Side
<1>5. held' = [held EXCEPT ![s][i] = y.tag]
  BY <1>1, HeldPut
<1>6. held[s][i] = None
  BY <1>1, HeldAt DEF Core, GivenOut
<1>7. held[Peer(s)][e] = y.tag /\ y.tag # None
  BY <1>1, <1>2, HeldAt
<1>8. \A j \in IDs : held[s][j] # y.tag
  BY <1>3, <1>7 DEF Has, held
<1>9. y.tag \in ({held[Peer(s)][j] : j \in IDs} \ {None}) \ ({held[s][j] : j \in IDs} \ {None})
  BY <1>2, <1>7, <1>8
<1>10. born' = born
  BY DEF CopyOne
<1>11. y.tag \in Promise!Holds(Peer(s)) \ Promise!Holds(s)
  BY <1>9 DEF Promise!Holds, held
<1> QED
  BY <1>2, <1>4, <1>5, <1>6, <1>10, <1>11 DEF Promise!Copy, held

\* Every step of the pass, its failures and the mailboxes is a step of the promise
LEMMA StepRefines ==
  ASSUME Distinguishable, TypeOK, Shape, Core, Different, [Next]_vars
  PROVE  [Promise!ANext]_(Promise!avars)
<1>1. CASE UNCHANGED <<folder, born>>
  BY <1>1 DEF Promise!avars
<1> USE DEF mailVars
<1>2. CASE Environment
  BY <1>1, <1>2, DeliverRefines, ExpungeRefines, AssignRefines, RenumberRefines, SyncPairAssumption
     DEF Environment, ForgetUser, Promise!ANext
<1>3. ASSUME NEW s \in Side, CopyOne(s) PROVE [Promise!ANext]_(Promise!avars)
  BY <1>3, CopyRefines DEF Promise!ANext
<1>4. ASSUME NEW s \in Side,
             \/ Select(s) \/ LoadEndpoint(s) \/ ResetEndpoint(s) \/ ListIDs(s) \/ FetchMeta(s)
             \/ PutCachedMsgs(s) \/ DeleteCachedMsgs(s) \/ SaveEndpoint(s) \/ IndexFolderFull(s)
             \/ CopyError(s) \/ CopyDone(s) \/ PutCopied(s)
      PROVE  UNCHANGED <<folder, born>>
  BY <1>4 DEF Select, LoadEndpoint, ResetEndpoint, ListIDs, FetchMeta, PutCachedMsgs,
              DeleteCachedMsgs, SaveEndpoint, IndexFolderFull, CopyError, CopyDone, PutCopied
<1>5. CASE FolderError \/ Crash \/ Interrupted \/ UNCHANGED vars
  BY <1>1, <1>5 DEF FolderError, Crash, Interrupted, vars
<1> QED
  BY <1>1, <1>2, <1>3, <1>4, <1>5 DEF Next, Pass

(***************************************************************************)
(* The pass, its caches, its failures and its interruptions implement the  *)
(* promise of TwoWaySync.                                                  *)
(***************************************************************************)
THEOREM KeepsThePromise == Distinguishable => (Spec => ImplementsTwoWaySync)
<1>1. Init => Promise!AInit
  BY DEF Init, Promise!AInit, NoRows
<1>2. ASSUME Distinguishable PROVE Spec => ImplementsTwoWaySync
  <2>1. TypeOK /\ Shape /\ Core /\ Different /\ [Next]_vars => [Promise!ANext]_(Promise!avars)
    BY <1>2, StepRefines
  <2>2. Spec => []Core
    BY <1>2, PremiseMet, Trustworthy
  <2>3. Spec => []Different
    BY <1>2, StaysDifferent
  <2> QED
    BY <1>1, <2>1, <2>2, <2>3, TypeCorrect, PTL DEF Spec, ImplementsTwoWaySync, Promise!ASpec
<1> QED
  BY <1>2

-----------------------------------------------------------------------------
(***************************************************************************)
(* A pass over folders nothing has touched since the last whole pass began *)
(* has nothing to copy: after the copy phase either index is the one of    *)
(* its folder, and what each side holds has a partner on the other.        *)
(***************************************************************************)

(***************************************************************************)
(* What must hold, besides, for a second pass to find nothing.  Either the *)
(* messages of a folder are always listed in the same order, wherever in   *)
(* it a new one comes: by UID, or by ID as a text (incremental mode).  Or  *)
(* the keys of the mail do not chain: sharing a key is transitive, and the *)
(* order may change from pass to pass, as that of a Go map does in full    *)
(* mode (Maildir, PST).                                                    *)
(***************************************************************************)
Orderly == Unordered = {} \/ Incremental

Unchained ==
  \A f, g, h \in Arrivals : SharesKey(f, g) /\ SharesKey(g, h) => SharesKey(f, h)

\* The messages of a folder that parse
Good(s) == {i \in IDs : folder[s][i] # None /\ ParseFields(folder[s][i])}

\* Every mail has the keys that a mail that arrived has from its sender
Sent ==
  \A s \in Side, i \in IDs : folder[s][i] # None =>
    \E f \in Arrivals : Base(folder[s][i]) = Base(f)

\* E is an index of the listing, the one for its order if that is fixed
Indexes(E, ids, rows) ==
  /\ E \subseteq ids /\ IsIndexInAnyOrder(E, ids, rows)
  /\ Orderly => IsIndex(E, ids, rows)

\* The index of a side is one of the folder as it is now
Exact(s, ids) ==
  /\ Indexes(Dom(idx[s]), ids, folder[s])
  /\ \A x \in Dom(idx[s]) : Keys(idx[s][x]) = Keys(folder[s][x])

\* What the delta asked to be copied to a side, and the copies made so far
Chosen(s) == IF allow(s) THEN Missing(Dom(idx[Peer(s)]), idx[Peer(s)], Dom(idx[s]), idx[s]) ELSE {}
Copies(s) == {n \in Good(s) : \E x \in Chosen(s) : folder[Peer(s)][x].tag = folder[s][n].tag}

(***************************************************************************)
(* The copy phase of a pass nothing has disturbed: each folder is what was *)
(* indexed and the copies made so far.                                     *)
(***************************************************************************)
Copying(s) ==
  /\ Exact(s, Good(s) \ Copies(s))
  /\ todo[s] \subseteq Chosen(s)
  /\ \A x \in Chosen(s) \ todo[s] : \E n \in Copies(s) : folder[Peer(s)][x].tag = folder[s][n].tag

(***************************************************************************)
(* The folders have nothing to ask of each other: their indexes have not,  *)
(* or no message lacks a partner.                                          *)
(***************************************************************************)
InOrder ==
  \E E \in [Side -> SUBSET IDs] :
    /\ \A s \in Side : IsIndex(E[s], Good(s), folder[s])
    /\ \A s \in Side : allow(s) => Missing(E[Peer(s)], folder[Peer(s)], E[s], folder[s]) = {}

Paired ==
  \A s \in Side : allow(s) =>
    \A x \in Good(Peer(s)) : \E y \in Good(s) : SharesKey(folder[Peer(s)][x], folder[s][y])

Settled == (Orderly => InOrder) /\ (Unchained => Paired)

Undisturbed ==
  /\ (quiet # "no" /\ Incremental /\ pc \in {"fetch", "put", "gone", "save"}) => cur = Dom(folder[cs])
  /\ (quiet # "no" /\ cs = "b" /\ pc \in {"load", "reset", "list", "fetch", "put", "gone", "save"}) =>
       Exact("a", Good("a"))
  /\ (quiet = "pass" /\ pc \in {"copy", "post"}) => \A s \in Side : Copying(s)
  /\ quiet = "yes" => Settled /\ \A s \in Side : todo[s] = {}
  /\ pc = "idle" => quiet # "pass"

-----------------------------------------------------------------------------
\* A non-empty set of numbers has a least element
LEMMA LeastExists ==
  ASSUME NEW T \in SUBSET Nat, T # {}
  PROVE  \E x \in T : \A y \in T : x <= y
<1>1. PICK x \in T : \A y \in T : ~(<<y, x>> \in OpToRel(<, Nat))
  BY NatLessThanWellFounded, WFMin
<1>2. \A y \in T : ~(y < x)
  BY <1>1 DEF OpToRel
<1> QED
  BY <1>2

\* A listing has one index only: the first message two indexes differ in would be decided alike
LEMMA IndexUnique ==
  ASSUME NEW ids \in SUBSET Nat, NEW E, NEW F, NEW rows, IsIndex(E, ids, rows), IsIndex(F, ids, rows)
  PROVE  E = F
<1> DEFINE T == {i \in ids : ~(i \in E <=> i \in F)}
<1>1. SUFFICES T = {}
  BY DEF IsIndex
<1>2. SUFFICES ASSUME T # {} PROVE FALSE
  OBVIOUS
<1>3. PICK i \in T : \A j \in T : i <= j
  <2>1. T \in SUBSET Nat
    OBVIOUS
  <2> HIDE DEF T
  <2> QED
    BY <1>2, <2>1, LeastExists
<1>4. i \in ids /\ ~(i \in E <=> i \in F)
  OBVIOUS
<1>5. \A j \in ids : j < i => (j \in E <=> j \in F)
  BY <1>3, <1>4
<1>6. (\A j \in E : j < i => ~SharesKey(rows[j], rows[i])) <=> (\A j \in F : j < i => ~SharesKey(rows[j], rows[i]))
  BY <1>5 DEF IsIndex
<1> QED
  BY <1>4, <1>6 DEF IsIndex

\* Only the keys matter
LEMMA IndexSameKeys ==
  ASSUME NEW ids, NEW E, NEW rows, NEW other, IsIndex(E, ids, rows),
         \A i \in ids : Keys(rows[i]) = Keys(other[i])
  PROVE  IsIndex(E, ids, other)
  BY DEF IsIndex, SharesKey

\* Two entries share no key
LEMMA EntriesDiffer ==
  ASSUME NEW ids \in SUBSET Nat, NEW E, NEW rows, IsIndex(E, ids, rows), NEW i \in E, NEW j \in E, i # j
  PROVE  ~SharesKey(rows[i], rows[j])
<1>1. i \in Nat /\ j \in Nat /\ i \in ids /\ j \in ids
  BY DEF IsIndex
<1>2. i < j \/ j < i
  BY <1>1
<1>3. SharesKey(rows[i], rows[j]) => SharesKey(rows[j], rows[i])
  BY DEF SharesKey
<1> QED
  BY <1>1, <1>2, <1>3 DEF IsIndex

\* An index is a largest set of messages of which no two share a key
LEMMA IndexIsLargest ==
  ASSUME NEW ids \in SUBSET Nat, NEW E, NEW rows, IsIndex(E, ids, rows)
  PROVE  IsIndexInAnyOrder(E, ids, rows)
<1>1. \A i, j \in E : i # j => ~SharesKey(rows[i], rows[j])
  BY EntriesDiffer
<1>2. \A i \in ids \ E : \E j \in E : SharesKey(rows[i], rows[j])
  BY DEF IsIndex, SharesKey
<1> QED
  BY <1>1, <1>2 DEF IsIndexInAnyOrder

\* Only the keys matter
LEMMA IndexesSameKeys ==
  ASSUME NEW ids, NEW E, NEW rows, NEW other, Indexes(E, ids, rows),
         \A i \in ids : Keys(rows[i]) = Keys(other[i])
  PROVE  Indexes(E, ids, other)
<1>1. E \subseteq ids /\ IsIndexInAnyOrder(E, ids, rows) /\ (Orderly => IsIndex(E, ids, rows))
  BY DEF Indexes
<1>2. Orderly => IsIndex(E, ids, other)
  BY <1>1, IndexSameKeys
<1>3. IsIndexInAnyOrder(E, ids, other)
  BY <1>1 DEF IsIndexInAnyOrder, SharesKey
<1> QED
  BY <1>1, <1>2, <1>3 DEF Indexes

\* A message that is no entry shares a key with one
LEMMA EntryFor ==
  ASSUME NEW ids, NEW E, NEW rows, Indexes(E, ids, rows), NEW i \in ids
  PROVE  \E j \in E : SharesKey(rows[i], rows[j])
<1>1. SharesKey(rows[i], rows[i])
  BY DEF SharesKey, Keys, MatchKeysFrom
<1> QED
  BY <1>1 DEF Indexes, IsIndexInAnyOrder

\* In incremental mode a row has exactly the keys of the mail
LEMMA DescribesExactly ==
  ASSUME Distinguishable, Incremental, NEW r, NEW m, Plausible(m), Describes(r, m)
  PROVE  Keys(r) = Keys(m)
<1>1. m.mid \notin ServerMIDs /\ m.sur \notin ServerHashes
  BY DEF Plausible, Distinguishable
<1>2. Keys(m) \cap Made = {}
  BY <1>1, MadeAre
<1>3. Keys(r) \subseteq Keys(m) /\ Base(m) \subseteq Keys(r)
  BY DescribesKeys, DescribesBase
<1> QED
  BY <1>2, <1>3 DEF Base

\* Mails that share a key share one they have from their senders
LEMMA SharesBase ==
  ASSUME NEW m, NEW n, Plausible(m), Plausible(n), Kin(m, n), SharesKey(m, n)
  PROVE  Base(m) \cap Base(n) # {}
<1>1. PICK k : k \in Keys(m) /\ k \in Keys(n)
  BY DEF SharesKey
<1>2. CASE k \in Made
  <2>1. Base(m) = Base(n)
    BY <1>1, <1>2 DEF Kin
  <2>2. PICK b : b \in Base(m)
    BY BaseNotEmpty
  <2> QED
    BY <2>1, <2>2
<1>3. CASE k \notin Made
  BY <1>1, <1>3 DEF Base
<1> QED
  BY <1>2, <1>3

\* Copies of one mail share its keys
LEMMA CopiesShare ==
  ASSUME NEW m, NEW n, Plausible(m), Kin(m, n), m.tag = n.tag
  PROVE  SharesKey(m, n)
<1>1. Base(m) = Base(n)
  BY DEF Kin
<1>2. PICK b : b \in Base(m)
  BY BaseNotEmpty
<1> QED
  BY <1>1, <1>2 DEF Base, SharesKey

-----------------------------------------------------------------------------
\* Nothing that happens to a mail, and no copy of it, changes its keys from the sender
LEMMA SentStep ==
  ASSUME Distinguishable, TypeOK, Shape, Core, Kinship, Sent, [Next]_vars
  PROVE  Sent'
<1> USE DEF mailVars, cacheVars
<1>1. CASE UNCHANGED folder
  BY <1>1 DEF Sent
<1>2. ASSUME NEW s \in Side, Deliver(s) PROVE Sent'
  <2>1. PICK f \in Arrivals, i \in IDs :
          LET y == [mid |-> f.mid, xhash |-> f.xhash, sur |-> f.sur, tag |-> born + 1]
          IN  \A t \in Side, j \in IDs : folder'[t][j] = IF t = s /\ j = i THEN y ELSE folder[t][j]
    BY <1>2, DeliverStores
  <2> DEFINE y == [mid |-> f.mid, xhash |-> f.xhash, sur |-> f.sur, tag |-> born + 1]
  <2>2. /\ y.mid = f.mid /\ y.xhash = f.xhash /\ y.sur = f.sur
        /\ \A t \in Side, j \in IDs : folder'[t][j] = IF t = s /\ j = i THEN y ELSE folder[t][j]
    BY <2>1
  <2> HIDE DEF y
  <2>3. Base(y) = Base(f)
    BY <2>2, BaseSame
  <2> QED
    BY <2>2, <2>3 DEF Sent
<1>3. ASSUME NEW s \in Side, Expunge(s) PROVE Sent'
  <2>1. PICK i \in IDs : folder' = [folder EXCEPT ![s][i] = None]
    BY <1>3 DEF Expunge, Dom
  <2>2. \A t \in Side, j \in IDs : folder'[t][j] # None => folder'[t][j] = folder[t][j]
    BY <2>1 DEF TypeOK
  <2> QED
    BY <2>2 DEF Sent
<1>4. ASSUME NEW s \in Side, AssignMessageID(s) PROVE Sent'
  <2>1. PICK i \in Dom(folder[s]), k \in ServerMIDs :
          folder[s][i].mid = None /\ folder' = [folder EXCEPT ![s][i].mid = k]
    BY <1>4 DEF AssignMessageID
  <2> DEFINE y == [folder[s][i] EXCEPT !.mid = k]
  <2>2. i \in IDs /\ folder[s][i] \in Message /\ folder[s][i] # None
    BY <2>1 DEF Dom, TypeOK
  <2>3. y.mid = k /\ y.xhash = folder[s][i].xhash /\ y.sur = folder[s][i].sur
    BY <2>2 DEF Message
  <2>4. \A t \in Side, j \in IDs : folder'[t][j] = IF t = s /\ j = i THEN y ELSE folder[t][j]
    BY <2>1, <2>2 DEF TypeOK
  <2> HIDE DEF y
  <2>5. Base(y) = Base(folder[s][i])
    BY <2>1, <2>3, BaseSame
  <2> QED
    BY <2>2, <2>4, <2>5 DEF Sent
<1>5. ASSUME NEW s \in Side, Renumber(s) PROVE Sent'
  <2>1. PICK g \in [Dom(folder[s]) -> IDs] :
          folder' = [folder EXCEPT ![s] =
            [k \in IDs |-> IF \E i \in Dom(folder[s]) : g[i] = k
                           THEN folder[s][CHOOSE i \in Dom(folder[s]) : g[i] = k] ELSE None]]
    BY <1>5 DEF Renumber
  <2>2. \A t \in Side, k \in IDs : folder'[t][k] # None =>
          \E i \in IDs : folder[t][i] # None /\ folder'[t][k] = folder[t][i]
    <3>1. \A k \in IDs : folder'[s][k] # None =>
            \E i \in Dom(folder[s]) : folder'[s][k] = folder[s][i]
      BY <2>1 DEF TypeOK
    <3>2. \A t \in Side \ {s} : folder'[t] = folder[t]
      BY <2>1 DEF TypeOK
    <3> QED
      BY <3>1, <3>2 DEF Dom
  <2> QED
    BY <2>2 DEF Sent
<1>6. ASSUME NEW s \in Side, CopyOne(s) PROVE Sent'
  <2>1. Kinship' /\
        \E e \in todo[s], i \in IDs, y \in Message :
          /\ folder[Peer(s)][e] # None
          /\ i \notin used[s] /\ y # None /\ y.tag = folder[Peer(s)][e].tag
          /\ \A t \in Side, j \in IDs : folder'[t][j] = IF t = s /\ j = i THEN y ELSE folder[t][j]
    BY <1>6, CopyStores
  <2>2. PICK e \in todo[s], i \in IDs, y \in Message :
          /\ folder[Peer(s)][e] # None /\ y # None /\ y.tag = folder[Peer(s)][e].tag
          /\ \A t \in Side, j \in IDs : folder'[t][j] = IF t = s /\ j = i THEN y ELSE folder[t][j]
    BY <2>1
  <2>3. Peer(s) \in Side /\ Peer(s) # s /\ e \in IDs
    BY DEF Peer, Side, TypeOK
  <2>4. folder'[s][i] = y /\ folder'[Peer(s)][e] = folder[Peer(s)][e]
    BY <2>2, <2>3
  <2>5. Kin(y, folder[Peer(s)][e])
    BY <2>1, <2>2, <2>3, <2>4 DEF Kinship
  <2>6. Base(y) = Base(folder[Peer(s)][e])
    BY <2>2, <2>5 DEF Kin
  <2> QED
    BY <2>2, <2>3, <2>6 DEF Sent
<1>7. CASE Environment
  BY <1>1, <1>2, <1>3, <1>4, <1>5, <1>7, SyncPairAssumption DEF Environment, ForgetUser
<1>8. CASE Pass
  <2>1. ASSUME NEW s \in Side, ~CopyOne(s),
               \/ Select(s) \/ LoadEndpoint(s) \/ ResetEndpoint(s) \/ ListIDs(s) \/ FetchMeta(s)
               \/ PutCachedMsgs(s) \/ DeleteCachedMsgs(s) \/ SaveEndpoint(s) \/ IndexFolderFull(s)
               \/ CopyError(s) \/ CopyDone(s) \/ PutCopied(s)
        PROVE  UNCHANGED folder
    BY <2>1 DEF Select, LoadEndpoint, ResetEndpoint, ListIDs, FetchMeta, PutCachedMsgs, DeleteCachedMsgs,
                SaveEndpoint, IndexFolderFull, CopyError, CopyDone, PutCopied
  <2> QED
    BY <1>1, <1>6, <1>8, <2>1 DEF Pass
<1>9. CASE FolderError \/ Crash \/ Interrupted
  BY <1>1, <1>9 DEF FolderError, Crash, Interrupted
<1>10. CASE UNCHANGED vars
  BY <1>1, <1>10 DEF vars
<1> QED
  BY <1>7, <1>8, <1>9, <1>10 DEF Next

\* The invariant, for every value of the constants that meets the premise
LEMMA StaysSent == ASSUME Distinguishable PROVE Spec => []Sent
<1>1. Init => Sent
  BY DEF Init, Sent, NoRows
<1>2. TypeOK /\ Shape /\ Core /\ Different /\ Sent /\ [Next]_vars => Sent'
  BY SentStep DEF Different
<1>3. Spec => []Core
  BY PremiseMet, Trustworthy
<1> QED
  BY <1>1, <1>2, <1>3, StaysDifferent, TypeCorrect, PTL DEF Spec

\* Where the keys of mail that arrives do not chain, those of a folder do not either
LEMMA KeysChain ==
  ASSUME Distinguishable, Unchained, Kinship, Sent,
         NEW s \in Side, NEW i \in Good(s), NEW t \in Side, NEW j \in Good(t), NEW u \in Side, NEW k \in Good(u),
         SharesKey(folder[s][i], folder[t][j]), SharesKey(folder[t][j], folder[u][k])
  PROVE  SharesKey(folder[s][i], folder[u][k])
<1>1. /\ \A d \in Side : \A x \in Good(d) : x \in IDs /\ folder[d][x] # None
      /\ Plausible(folder[s][i]) /\ Plausible(folder[t][j]) /\ Plausible(folder[u][k])
      /\ Kin(folder[s][i], folder[t][j]) /\ Kin(folder[t][j], folder[u][k])
  BY DEF Good, Kinship
<1>2. PICK f \in Arrivals, g \in Arrivals, h \in Arrivals :
        Base(folder[s][i]) = Base(f) /\ Base(folder[t][j]) = Base(g) /\ Base(folder[u][k]) = Base(h)
  BY <1>1 DEF Sent
<1>3. Base(f) \cap Base(g) # {} /\ Base(g) \cap Base(h) # {}
  BY <1>1, <1>2, SharesBase
<1>4. SharesKey(f, g) /\ SharesKey(g, h)
  BY <1>3 DEF Base, SharesKey
<1>5. SharesKey(f, h)
  BY <1>4 DEF Unchained
<1>6. ASSUME NEW a \in Arrivals PROVE Keys(a) = Base(a)
  <2>1. ASSUME NEW x, x \in Keys(a) PROVE x \in Base(a)
    BY <2>1, KeysAre, BaseAre, SyncPairAssumption DEF Distinguishable
  <2> QED
    BY <2>1 DEF Base
<1>7. Base(f) \cap Base(h) # {}
  BY <1>5, <1>6 DEF SharesKey
<1> QED
  BY <1>2, <1>7 DEF Base, SharesKey

-----------------------------------------------------------------------------
(***************************************************************************)
(* A whole undisturbed pass leaves the folders settled.  In a fixed order  *)
(* the entries it had and the copies it made are the new indexes: as none  *)
(* of these shares a key with another, it does not matter where a copy is  *)
(* listed.                                                                 *)
(***************************************************************************)
LEMMA PassKeepsOrder ==
  ASSUME Orderly, TypeOK, Shape, Kinship, NoDuplicates, \A s \in Side : Copying(s) /\ todo[s] = {}
  PROVE  InOrder
<1> DEFINE E == [s \in Side |-> Dom(idx[s]) \cup Copies(s)]
<1>1. \A s \in Side : Peer(s) \in Side /\ Peer(Peer(s)) = s /\ Good(s) \subseteq IDs /\ Good(s) \subseteq Nat
  BY SyncPairAssumption DEF Peer, Side, Good
<1>2. \A s, t \in Side : \A i \in Good(s), j \in Good(t) :
        /\ Plausible(folder[s][i]) /\ Plausible(folder[t][j])
        /\ Kin(folder[s][i], folder[t][j])
  BY DEF Good, Kinship
<1>3. \A s \in Side : /\ Dom(idx[s]) \subseteq Good(s) \ Copies(s)
                      /\ \A x \in Dom(idx[s]) : Keys(idx[s][x]) = Keys(folder[s][x])
  BY DEF Copying, Exact, Indexes
<1>4. E \in [Side -> SUBSET IDs]
  BY <1>1 DEF Dom, Copies
<1>5. \A s \in Side : Chosen(s) \subseteq Dom(idx[Peer(s)])
  BY DEF Chosen, Missing
\* a copy, and the entry it is a copy of
<1>6. \A s \in Side : \A n \in Copies(s) : \E x \in Chosen(s) : folder[Peer(s)][x].tag = folder[s][n].tag
  BY DEF Copies
<1>7. ASSUME NEW s \in Side PROVE IsIndex(E[s], Good(s), folder[s])
  <2>1. Copies(s) \subseteq Good(s) /\ E[s] \subseteq Good(s) /\ E[s] = Dom(idx[s]) \cup Copies(s)
    BY <1>3 DEF Copies
  <2>2. IsIndex(Dom(idx[s]), Good(s) \ Copies(s), folder[s])
    BY DEF Copying, Exact, Indexes
  <2>3. ASSUME NEW n \in Copies(s), NEW j \in E[s], j # n, SharesKey(folder[s][j], folder[s][n])
        PROVE  FALSE
    <3>1. PICK x \in Chosen(s) : folder[Peer(s)][x].tag = folder[s][n].tag
      BY <1>6
    <3>2. x \in Dom(idx[Peer(s)]) /\ x \in Good(Peer(s)) /\ n \in Good(s) /\ j \in Good(s)
      BY <1>1, <1>3, <1>5, <2>1
    <3>3. Base(folder[Peer(s)][x]) = Base(folder[s][n])
      BY <1>1, <1>2, <3>1, <3>2 DEF Kin
    <3>4. Base(folder[s][j]) \cap Base(folder[s][n]) # {}
      BY <1>2, <2>3, <3>2, SharesBase
    <3>5. CASE j \in Dom(idx[s])
      <4>1. SharesKey(idx[Peer(s)][x], idx[s][j])
        BY <1>1, <1>3, <3>2, <3>3, <3>4, <3>5 DEF SharesKey, Base
      <4> QED
        BY <3>1, <3>5, <4>1 DEF Chosen, Missing
    <3>6. CASE j \in Copies(s)
      <4>1. PICK z \in Chosen(s) : folder[Peer(s)][z].tag = folder[s][j].tag
        BY <1>6, <3>6
      <4>2. z \in Dom(idx[Peer(s)]) /\ z \in Good(Peer(s))
        BY <1>1, <1>3, <1>5
      <4>3. Base(folder[Peer(s)][z]) = Base(folder[s][j])
        BY <1>1, <1>2, <3>2, <4>1, <4>2 DEF Kin
      <4>4. SharesKey(folder[Peer(s)][z], folder[Peer(s)][x])
        BY <3>3, <3>4, <4>3 DEF SharesKey, Base
      <4>5. z # x
        BY <2>3, <3>1, <3>2, <4>1 DEF NoDuplicates, Good, Dom
      <4>6. IsIndex(Dom(idx[Peer(s)]), Good(Peer(s)) \ Copies(Peer(s)), folder[Peer(s)])
        BY <1>1 DEF Copying, Exact, Indexes
      <4>7. Good(Peer(s)) \ Copies(Peer(s)) \in SUBSET Nat
        BY <1>1
      <4> QED
        BY <3>2, <4>2, <4>4, <4>5, <4>6, <4>7, EntriesDiffer
    <3> QED
      BY <2>1, <3>5, <3>6
  <2>4. \A n \in Copies(s) : \A j \in E[s] : j < n => ~SharesKey(folder[s][j], folder[s][n])
    <3>1. \A n \in Copies(s), j \in E[s] : j < n => j # n
      BY <1>1, <2>1
    <3> QED
      BY <2>3, <3>1
  <2>5. \A o \in Dom(idx[s]) : \A j \in E[s] : j < o => ~SharesKey(folder[s][j], folder[s][o])
    <3>1. \A n \in Copies(s), o \in Dom(idx[s]) : ~SharesKey(folder[s][n], folder[s][o])
      <4>1. \A n \in Copies(s), o \in Dom(idx[s]) : o \in E[s] /\ o # n
        BY <1>3, <2>1
      <4>2. \A n \in Copies(s), o \in Dom(idx[s]) : ~SharesKey(folder[s][o], folder[s][n])
        BY <2>3, <4>1
      <4> QED
        BY <4>2 DEF SharesKey
    <3> QED
      BY <2>1, <2>2, <3>1 DEF IsIndex
  <2>6. \A o \in Good(s) \ E[s] : \E j \in E[s] : j < o /\ SharesKey(folder[s][j], folder[s][o])
    BY <2>1, <2>2 DEF IsIndex
  <2> HIDE DEF E
  <2> QED
    BY <2>1, <2>4, <2>5, <2>6 DEF IsIndex
<1>8. ASSUME NEW s \in Side, allow(s) PROVE Missing(E[Peer(s)], folder[Peer(s)], E[s], folder[s]) = {}
  <2>1. SUFFICES ASSUME NEW e \in E[Peer(s)] PROVE \E j \in E[s] : SharesKey(folder[Peer(s)][e], folder[s][j])
    BY DEF Missing
  <2>2. E[s] = Dom(idx[s]) \cup Copies(s) /\ E[Peer(s)] = Dom(idx[Peer(s)]) \cup Copies(Peer(s))
    BY <1>1
  <2>3. CASE e \in Dom(idx[Peer(s)]) /\ e \in Chosen(s)
    <3>0. Copying(s) /\ e \in Chosen(s) \ todo[s]
      BY <2>3
    <3>1. PICK n \in Copies(s) : folder[Peer(s)][e].tag = folder[s][n].tag
      BY <3>0 DEF Copying
    <3>2. e \in Good(Peer(s)) /\ n \in Good(s)
      BY <1>1, <1>3, <2>3 DEF Copies
    <3> QED
      BY <1>1, <1>2, <2>2, <3>1, <3>2, CopiesShare
  <2>4. CASE e \in Dom(idx[Peer(s)]) /\ e \notin Chosen(s)
    <3>1. PICK j \in Dom(idx[s]) : SharesKey(idx[Peer(s)][e], idx[s][j])
      BY <1>8, <2>4 DEF Chosen, Missing
    <3> QED
      BY <1>1, <1>3, <2>2, <2>4, <3>1 DEF SharesKey
  <2>5. CASE e \in Copies(Peer(s))
    <3>1. PICK x \in Chosen(Peer(s)) : folder[s][x].tag = folder[Peer(s)][e].tag
      BY <1>1, <1>6, <2>5
    <3>2. x \in Dom(idx[s]) /\ x \in Good(s) /\ e \in Good(Peer(s))
      BY <1>1, <1>3, <1>5, <2>5 DEF Copies
    <3> QED
      BY <1>1, <1>2, <2>2, <3>1, <3>2, CopiesShare
  <2> QED
    BY <2>2, <2>3, <2>4, <2>5
<1> HIDE DEF E
<1> QED
  BY <1>4, <1>7, <1>8 DEF InOrder

(***************************************************************************)
(* Where keys do not chain, a message shares a key with its entry, and the *)
(* entry's copy or partner on the other side shares one with both.         *)
(***************************************************************************)
LEMMA PassPairs ==
  ASSUME Distinguishable, Unchained, TypeOK, Shape, Kinship, Sent,
         \A s \in Side : Copying(s) /\ todo[s] = {}
  PROVE  Paired
<1>1. \A s \in Side : Peer(s) \in Side /\ Peer(Peer(s)) = s /\ Good(s) \subseteq IDs
  BY DEF Peer, Side, Good
<1>2. \A s, t \in Side : \A i \in Good(s), j \in Good(t) :
        /\ Plausible(folder[s][i]) /\ Plausible(folder[t][j])
        /\ Kin(folder[s][i], folder[t][j])
  BY DEF Good, Kinship
<1>3. \A s \in Side : /\ Dom(idx[s]) \subseteq Good(s) \ Copies(s)
                      /\ \A x \in Dom(idx[s]) : Keys(idx[s][x]) = Keys(folder[s][x])
  BY DEF Copying, Exact, Indexes
<1>4. SUFFICES ASSUME NEW s \in Side, allow(s), NEW x \in Good(Peer(s))
               PROVE  \E y \in Good(s) : SharesKey(folder[Peer(s)][x], folder[s][y])
  BY DEF Paired
<1>5. Copying(s) /\ Copying(Peer(s)) /\ todo[s] = {}
  BY <1>1
\* a copy, and the entry it is a copy of
<1>6. CASE x \in Copies(Peer(s))
  <2>1. PICK z \in Chosen(Peer(s)) : folder[s][z].tag = folder[Peer(s)][x].tag
    BY <1>1, <1>6 DEF Copies
  <2>2. z \in Good(s)
    BY <1>1, <1>3 DEF Chosen, Missing
  <2> QED
    BY <1>1, <1>2, <2>1, <2>2, CopiesShare
<1>7. CASE x \notin Copies(Peer(s))
  <2>1. Indexes(Dom(idx[Peer(s)]), Good(Peer(s)) \ Copies(Peer(s)), folder[Peer(s)])
    BY <1>5 DEF Copying, Exact
  <2>2. x \in Good(Peer(s)) \ Copies(Peer(s))
    BY <1>7
  <2>3. PICK e \in Dom(idx[Peer(s)]) : SharesKey(folder[Peer(s)][x], folder[Peer(s)][e])
    BY <2>1, <2>2, EntryFor
  <2>4. e \in Good(Peer(s))
    BY <1>1, <1>3
  <2>5. PICK y \in Good(s) : SharesKey(folder[Peer(s)][e], folder[s][y])
    <3>1. CASE e \in Chosen(s)
      <4>1. PICK n \in Copies(s) : folder[Peer(s)][e].tag = folder[s][n].tag
        BY <1>5, <3>1 DEF Copying
      <4>2. n \in Good(s)
        BY DEF Copies
      <4> QED
        BY <1>1, <1>2, <2>4, <4>1, <4>2, CopiesShare
    <3>2. CASE e \notin Chosen(s)
      <4>1. PICK n \in Dom(idx[s]) : SharesKey(idx[Peer(s)][e], idx[s][n])
        BY <1>4, <3>2 DEF Chosen, Missing
      <4> QED
        BY <1>1, <1>3, <4>1 DEF SharesKey
    <3> QED
      BY <3>1, <3>2
  <2> QED
    BY <1>1, <2>3, <2>4, <2>5, KeysChain
<1> QED
  BY <1>6, <1>7

\* Either way the folders have nothing to ask of each other
LEMMA PassSettles ==
  ASSUME Distinguishable, TypeOK, Shape, Kinship, NoDuplicates, Sent,
         \A s \in Side : Copying(s) /\ todo[s] = {}
  PROVE  Settled
  BY PassKeepsOrder, PassPairs DEF Settled

\* Nothing is claimed once something has changed or failed
LEMMA DisturbedKeeps ==
  ASSUME quiet' = "no"
  PROVE  Undisturbed'
  BY DEF Undisturbed

\* The claims depend on the folders, the indexes and the work list only
LEMMA Frame ==
  ASSUME UNCHANGED <<folder, idx, todo>>
  PROVE  /\ Settled => Settled'
         /\ Exact("a", Good("a")) => Exact("a", Good("a"))'
         /\ \A s \in Side : Copying(s) => Copying(s)'
<1>1. Settled => Settled'
  BY DEF Settled, InOrder, Paired, Good, allow
<1>2. Exact("a", Good("a")) => Exact("a", Good("a"))'
  BY DEF Exact, Good, Dom
<1>3. ASSUME NEW s \in Side, Copying(s) PROVE Copying(s)'
  <2>1. Good(s)' = Good(s) /\ Chosen(s)' = Chosen(s) /\ Dom(idx[s])' = Dom(idx[s])
    BY DEF Good, Chosen, Dom, allow
  <2>2. Copies(s)' = Copies(s)
    BY <2>1 DEF Copies
  <2> QED
    BY <1>3, <2>1, <2>2 DEF Copying, Exact
<1> QED
  BY <1>1, <1>2, <1>3

\* The index of an undisturbed folder, and after side b the delta
LEMMA BuildUndisturbed ==
  ASSUME Distinguishable, Orderly \/ Unchained, TypeOK, Shape, Kinship, Sent, Undisturbed, StillMissing',
         NEW s \in Side, NEW rows,
         BuildIndex(s, Good(s), rows), UNCHANGED <<folder, quiet>>, cs = s, pc \in {"fetch", "save"},
         pc = "fetch" => ~Incremental,
         \A i \in Good(s) : rows[i] # None /\ Keys(rows[i]) = Keys(folder[s][i])
  PROVE  Undisturbed'
<1>1. PICK E \in SUBSET Good(s) :
        Indexes(E, Good(s), rows) /\ idx' = [idx EXCEPT ![s] = Without(rows, IDs \ E)]
  <2>1. PICK E \in SUBSET Good(s) :
          /\ IF s \in Unordered /\ ~Incremental THEN IsIndexInAnyOrder(E, Good(s), rows)
                                                ELSE IsIndex(E, Good(s), rows)
          /\ idx' = [idx EXCEPT ![s] = Without(rows, IDs \ E)]
    BY DEF BuildIndex
  <2>2. Good(s) \in SUBSET Nat
    BY SyncPairAssumption DEF Good
  <2>3. IsIndexInAnyOrder(E, Good(s), rows)
    BY <2>1, <2>2, IndexIsLargest
  <2>4. Orderly => IsIndex(E, Good(s), rows)
    BY <2>1 DEF Orderly
  <2> QED
    BY <2>1, <2>3, <2>4 DEF Indexes
<1>2. idx'[s] = Without(rows, IDs \ E) /\ \A t \in Side \ {s} : idx'[t] = idx[t]
  BY <1>1 DEF TypeOK
<1>3. Good(s) \subseteq IDs
  BY DEF Good
<1>4. Dom(idx'[s]) = E /\ \A x \in E : idx'[s][x] = rows[x]
  BY <1>2, <1>3 DEF Dom, Without
<1>5. Indexes(E, Good(s), folder[s])
  BY <1>1, IndexesSameKeys
<1>6. Exact(s, Good(s))'
  <2>1. Indexes(Dom(idx'[s]), Good(s), folder[s]) /\ \A x \in Dom(idx'[s]) : Keys(idx'[s][x]) = Keys(folder[s][x])
    BY <1>4, <1>5
  <2> QED
    BY <2>1 DEF Exact, Indexes, Good, Dom
<1>7. CASE s = "a"
  <2>1. cs' = "b" /\ todo' = todo /\ (pc' = "load" \/ (pc' = "fetch" /\ ~Incremental))
    BY <1>7 DEF BuildIndex
  <2>2. Settled => Settled'
    BY DEF Settled, InOrder, Paired, Good, allow
  <2> QED
    BY <1>6, <1>7, <2>1, <2>2 DEF Undisturbed
<1>8. CASE s = "b" /\ quiet # "no"
  <2>1. /\ pc' = "copy" /\ cs' = "b"
        /\ todo' = [d \in Side |->
             IF allow(d) THEN Missing(Dom(idx'[Peer(d)]), idx'[Peer(d)], Dom(idx'[d]), idx'[d]) ELSE {}]
    BY <1>8 DEF BuildIndex
  <2>2. Exact("a", Good("a"))'
    <3>1. Exact("a", Good("a")) /\ idx'["a"] = idx["a"]
      BY <1>2, <1>8 DEF Undisturbed, Side
    <3> QED
      BY <3>1 DEF Exact, Indexes, Good, Dom
  <2>3. \A d \in Side : Exact(d, Good(d))'
    BY <1>6, <1>8, <2>2 DEF Side
  <2>4. \A d \in Side : /\ Indexes(Dom(idx'[d]), Good(d), folder[d])
                        /\ \A x \in Dom(idx'[d]) : Keys(idx'[d][x]) = Keys(folder[d][x])
    BY <2>3 DEF Exact, Indexes, Good, Dom
  <2>5. \A d \in Side : Peer(d) \in Side /\ Good(d) \in SUBSET Nat
    BY SyncPairAssumption DEF Peer, Side, Good
  <2>6. CASE quiet = "yes"
    <3>1. ASSUME Orderly, NEW d \in Side, allow(d), NEW e \in Dom(idx'[Peer(d)])
          PROVE  \E j \in Dom(idx'[d]) : SharesKey(folder[Peer(d)][e], folder[d][j])
      <4>1. PICK F \in [Side -> SUBSET IDs] :
              /\ \A c \in Side : IsIndex(F[c], Good(c), folder[c])
              /\ \A c \in Side : allow(c) => Missing(F[Peer(c)], folder[Peer(c)], F[c], folder[c]) = {}
        BY <2>6, <3>1 DEF Undisturbed, Settled, InOrder
      <4>2. \A c \in Side : IsIndex(Dom(idx'[c]), Good(c), folder[c])
        BY <2>4, <3>1 DEF Indexes
      <4>3. \A c \in Side : F[c] = Dom(idx'[c])
        BY <2>5, <4>1, <4>2, IndexUnique
      <4>4. Missing(Dom(idx'[Peer(d)]), folder[Peer(d)], Dom(idx'[d]), folder[d]) = {}
        BY <2>5, <3>1, <4>1, <4>3
      <4> QED
        BY <3>1, <4>4 DEF Missing
    <3>2. ASSUME Unchained, NEW d \in Side, allow(d), NEW e \in Dom(idx'[Peer(d)])
          PROVE  \E j \in Dom(idx'[d]) : SharesKey(folder[Peer(d)][e], folder[d][j])
      <4>1. e \in Good(Peer(d))
        BY <2>4, <2>5, <3>2 DEF Indexes
      <4>2. PICK y \in Good(d) : SharesKey(folder[Peer(d)][e], folder[d][y])
        BY <2>6, <3>2, <4>1 DEF Undisturbed, Settled, Paired
      <4>3. PICK j \in Dom(idx'[d]) : SharesKey(folder[d][y], folder[d][j])
        BY <2>4, EntryFor
      <4>4. j \in Good(d)
        BY <2>4 DEF Indexes
      <4> QED
        BY <2>5, <3>2, <4>1, <4>2, <4>3, <4>4, KeysChain
    <3>3. ASSUME NEW d \in Side, allow(d)
          PROVE  Missing(Dom(idx'[Peer(d)]), idx'[Peer(d)], Dom(idx'[d]), idx'[d]) = {}
      <4>1. \A e \in Dom(idx'[Peer(d)]) : \E j \in Dom(idx'[d]) : SharesKey(folder[Peer(d)][e], folder[d][j])
        BY <3>1, <3>2, <3>3
      <4>2. \A e \in Dom(idx'[Peer(d)]) : \E j \in Dom(idx'[d]) : SharesKey(idx'[Peer(d)][e], idx'[d][j])
        BY <2>4, <2>5, <4>1 DEF SharesKey
      <4> QED
        BY <4>2 DEF Missing
    <3>4. \A d \in Side : todo'[d] = {}
      BY <2>1, <3>3
    <3>5. Settled'
      BY <2>6 DEF Undisturbed, Settled, InOrder, Paired, Good, allow
    <3> QED
      BY <2>1, <2>6, <3>4, <3>5 DEF Undisturbed
  <2>7. CASE quiet # "yes"
    <3>1. ASSUME NEW d \in Side PROVE Copying(d)'
      <4>1. Chosen(d)' = todo'[d]
        BY <2>1 DEF Chosen, allow
      <4>2. Copies(d)' = {}
        <5>1. ASSUME NEW n \in Good(d), NEW x \in todo'[d], folder[Peer(d)][x].tag = folder[d][n].tag
              PROVE  FALSE
          <6>1. x \in Dom(idx'[Peer(d)])
            BY <2>1, <5>1 DEF Missing
          <6>2. folder[Peer(d)][x] # None
            BY <2>4, <2>5, <6>1 DEF Indexes, Good
          <6>3. ~Has(d, folder[Peer(d)][x].tag)
            BY <5>1, <6>2 DEF StillMissing, Has
          <6> QED
            BY <5>1, <6>3 DEF Has, Good
        <5> QED
          BY <4>1, <5>1 DEF Copies, Good
      <4>3. Exact(d, Good(d) \ Copies(d))'
        <5>1. Good(d)' \ Copies(d)' = Good(d)'
          BY <4>2
        <5>2. Exact(d, Good(d))'
          BY <2>3
        <5> QED
          BY <5>1, <5>2 DEF Exact
      <4> QED
        BY <4>1, <4>2, <4>3 DEF Copying
    <3> QED
      BY <2>1, <2>7, <3>1 DEF Undisturbed
  <2> QED
    BY <2>6, <2>7
<1> QED
  BY <1>7, <1>8, DisturbedKeeps DEF Side

\* The rows of an undisturbed listing are those of the folder
LEMMA SaveUndisturbed ==
  ASSUME Distinguishable, Orderly \/ Unchained, TypeOK, Shape, Core, Kinship, Sent, Listed, Undisturbed,
         StillMissing',
         NEW s \in Side, SaveEndpoint(s)
  PROVE  Undisturbed'
<1>1. /\ pc = "save" /\ cs = s /\ Incremental /\ UNCHANGED <<folder, quiet>>
      /\ BuildIndex(s, cur \cap Dom(cached), cached)
  BY DEF SaveEndpoint, Core, Modes, mailVars
<1>2. CASE quiet = "no"
  BY <1>1, <1>2, DisturbedKeeps
<1>3. CASE quiet # "no"
  <2>1. cur = Dom(folder[s])
    BY <1>1, <1>3 DEF Undisturbed
  <2>2. \A j \in Good(s) : cached[j] # None
    BY <1>1, <2>1 DEF Good, Listed, Dom
  <2>3. \A j \in IDs : cached[j] # None /\ folder[s][j] # None =>
          Describes(cached[j], folder[s][j]) /\ Plausible(folder[s][j])
    BY <1>1 DEF Core, Trusted, Indexing, Fits, Fit, Kinship
  <2>4. \A j \in Good(s) : j \in IDs /\ folder[s][j] # None
    BY DEF Good
  <2>5. \A j \in Good(s) : Keys(cached[j]) = Keys(folder[s][j])
    BY <1>1, <2>2, <2>3, <2>4, DescribesExactly
  <2>6. cur \cap Dom(cached) = Good(s)
    <3>1. ASSUME NEW j \in IDs PROVE j \in cur \cap Dom(cached) <=> j \in Good(s)
      BY <2>1, <2>2, <2>3 DEF Good, Dom, ParseFields, Describes
    <3>2. cur \cap Dom(cached) \subseteq IDs /\ Good(s) \subseteq IDs
      BY DEF Dom, Good
    <3> QED
      BY <3>1, <3>2
  <2>7. BuildIndex(s, Good(s), cached)
    BY <1>1, <2>6
  <2> QED
    BY <1>1, <2>2, <2>5, <2>7, BuildUndisturbed
<1> QED
  BY <1>2, <1>3

\* A full listing of a side gives the index of the folder as it is
LEMMA FullUndisturbed ==
  ASSUME Distinguishable, Orderly \/ Unchained, TypeOK, Shape, Kinship, Sent, Undisturbed, StillMissing',
         NEW s \in Side, IndexFolderFull(s)
  PROVE  Undisturbed'
<1> DEFINE ok == {i \in Dom(folder[s]) : ParseFields(folder[s][i])}
           rows == [i \in IDs |-> IF i \in ok THEN ParseMessage(folder[s][i]) ELSE None]
<1>1. pc = "fetch" /\ cs = s /\ ~Incremental /\ UNCHANGED <<folder, quiet>> /\ BuildIndex(s, ok, rows)
  BY DEF IndexFolderFull, mailVars
<1>2. ok = Good(s)
  BY DEF Good, Dom
<1>3. \A i \in Good(s) : i \in IDs /\ folder[s][i] \in Message /\ rows[i] = ParseMessage(folder[s][i])
  BY <1>2 DEF Good, TypeOK
<1> HIDE DEF ok, rows
<1>4. \A i \in Good(s) : rows[i] # None
  BY <1>3, ParseTyped, MessagesAssumption
<1>5. \A i \in Good(s) : Keys(rows[i]) = Keys(folder[s][i])
  <2>1. \A m : Keys(ParseMessage(m)) = Keys(m)
    BY DEF ParseMessage, Keys
  <2> QED
    BY <1>3, <2>1
<1> QED
  BY <1>1, <1>2, <1>4, <1>5, BuildUndisturbed

\* An acknowledged copy joins the copies
LEMMA CopyUndisturbed ==
  ASSUME Distinguishable, TypeOK, Shape, Core, Kinship, Undisturbed, NEW s \in Side, CopyOne(s)
  PROVE  Undisturbed'
<1>1. pc = "copy" /\ UNCHANGED <<pc, cs, idx>> /\ (quiet' = quiet \/ quiet' = "no")
  BY DEF CopyOne
<1>2. PICK e \in todo[s], i \in IDs, y \in Message :
        /\ folder[Peer(s)][e] # None
        /\ i \notin used[s] /\ y # None /\ y.tag = folder[Peer(s)][e].tag /\ y.sur # None
        /\ \A t \in Side, j \in IDs : folder'[t][j] = IF t = s /\ j = i THEN y ELSE folder[t][j]
        /\ todo' = [todo EXCEPT ![s] = @ \ {e}]
  BY CopyStores
<1>3. SUFFICES ASSUME quiet = "pass", quiet' = "pass" PROVE \A t \in Side : Copying(t)'
  <2>1. quiet # "yes"
    BY DEF Undisturbed
  <2> QED
    BY <1>1, <1>3, <2>1, DisturbedKeeps DEF Undisturbed, TypeOK
<1>4. \A t \in Side : Copying(t)
  BY <1>1, <1>3 DEF Undisturbed
<1>5. Peer(s) \in Side /\ Peer(s) # s /\ Peer(Peer(s)) = s /\ Side = {s, Peer(s)} /\ e \in IDs
  BY DEF Peer, Side, TypeOK
<1>6. \A t \in Side : Good(t) \subseteq used[t] /\ Good(t) \subseteq IDs
  BY DEF Good, Core, GivenOut
<1>7. \A t \in Side : Dom(idx[t]) \subseteq Good(t) \ Copies(t) /\ Chosen(t) \subseteq Dom(idx[Peer(t)])
  BY <1>4 DEF Copying, Exact, Indexes, Chosen, Missing
<1>8. Good(s)' = Good(s) \cup {i} /\ Good(Peer(s))' = Good(Peer(s))
  <2>1. ParseFields(y)
    BY <1>2 DEF ParseFields
  <2>2. ASSUME NEW j \in IDs
        PROVE  /\ j \in Good(s)' <=> j \in Good(s) \/ j = i
               /\ j \in Good(Peer(s))' <=> j \in Good(Peer(s))
    BY <1>2, <1>5, <2>1 DEF Good
  <2>3. Good(s)' \subseteq IDs /\ Good(Peer(s))' \subseteq IDs
    BY DEF Good
  <2> QED
    BY <1>5, <1>6, <2>2, <2>3
<1>9. \A t \in Side : Chosen(t)' = Chosen(t)
  BY <1>1 DEF Chosen, Missing, Dom, allow
<1>10. /\ \A j \in IDs \ {i} : folder'[s][j] = folder[s][j]
       /\ \A j \in IDs : folder'[Peer(s)][j] = folder[Peer(s)][j]
       /\ folder'[s][i] = y /\ i \notin Good(s)
  BY <1>2, <1>5, <1>6
<1>11. Copies(s)' = Copies(s) \cup {i}
  <2>1. e \in Chosen(s)
    BY <1>4 DEF Copying
  <2>2. \A x \in Chosen(s) : x \in IDs
    BY <1>5, <1>6, <1>7
  <2>3. ASSUME NEW n \in Good(s) \cup {i}
        PROVE  (\E x \in Chosen(s) : folder'[Peer(s)][x].tag = folder'[s][n].tag) <=> n \in Copies(s) \/ n = i
    <3>1. CASE n = i
      BY <1>2, <1>5, <1>10, <2>1, <3>1
    <3>2. CASE n # i
      BY <1>6, <1>10, <2>2, <2>3, <3>2 DEF Copies
    <3> QED
      BY <3>1, <3>2
  <2>4. Copies(s)' = {n \in Good(s)' : \E x \in Chosen(s)' : folder'[Peer(s)][x].tag = folder'[s][n].tag}
    BY DEF Copies
  <2>5. Copies(s) \subseteq Good(s)
    BY DEF Copies
  <2> QED
    BY <1>8, <1>9, <2>3, <2>4, <2>5
<1>12. Copies(Peer(s))' = Copies(Peer(s))
  <2>1. \A x \in Chosen(Peer(s)) : x \in IDs /\ folder'[s][x] = folder[s][x]
    BY <1>5, <1>6, <1>7, <1>10
  <2>2. Copies(Peer(s))' = {n \in Good(Peer(s))' : \E x \in Chosen(Peer(s))' : folder'[s][x].tag = folder'[Peer(s)][n].tag}
    BY <1>5 DEF Copies
  <2>3. Copies(Peer(s)) = {n \in Good(Peer(s)) : \E x \in Chosen(Peer(s)) : folder[s][x].tag = folder[Peer(s)][n].tag}
    BY <1>5 DEF Copies
  <2> QED
    BY <1>5, <1>6, <1>8, <1>9, <1>10, <2>1, <2>2, <2>3
<1>13. \A t \in Side : (Good(t) \ Copies(t))' = Good(t) \ Copies(t)
  BY <1>5, <1>8, <1>10, <1>11, <1>12
<1>14. \A t \in Side : \A j \in Good(t) \ Copies(t) : folder'[t][j] = folder[t][j]
  BY <1>5, <1>6, <1>10
<1>15. ASSUME NEW t \in Side PROVE Exact(t, Good(t) \ Copies(t))'
  <2>1. Indexes(Dom(idx[t]), Good(t) \ Copies(t), folder[t])
    BY <1>4 DEF Copying, Exact
  <2>2. Indexes(Dom(idx[t]), Good(t) \ Copies(t), folder'[t])
    BY <1>14, <2>1, IndexesSameKeys
  <2>3. \A x \in Dom(idx[t]) : Keys(idx[t][x]) = Keys(folder'[t][x])
    <3>1. \A x \in Dom(idx[t]) : Keys(idx[t][x]) = Keys(folder[t][x])
      BY <1>4 DEF Copying, Exact
    <3>2. \A x \in Dom(idx[t]) : folder'[t][x] = folder[t][x]
      BY <1>7, <1>14
    <3> QED
      BY <3>1, <3>2
  <2>4. Dom(idx[t])' = Dom(idx[t]) /\ idx' = idx
    BY <1>1 DEF Dom
  <2> QED
    BY <1>13, <2>2, <2>3, <2>4 DEF Exact
<1>16. \A t \in Side : todo'[t] \subseteq Chosen(t)
  BY <1>2, <1>4 DEF Copying, TypeOK
<1>17. ASSUME NEW t \in Side, NEW x \in Chosen(t) \ todo'[t]
       PROVE  \E n \in Copies(t)' : folder'[Peer(t)][x].tag = folder'[t][n].tag
  <2>1. CASE t = s /\ x = e
    BY <1>2, <1>5, <1>10, <1>11, <2>1
  <2>2. CASE ~(t = s /\ x = e)
    <3>1. x \in Chosen(t) \ todo[t]
      BY <1>2, <1>17, <2>2 DEF TypeOK
    <3>2. PICK n \in Copies(t) : folder[Peer(t)][x].tag = folder[t][n].tag
      BY <1>4, <3>1 DEF Copying
    <3>3. n \in Good(t) /\ x \in Good(Peer(t)) /\ n \in Copies(t)'
      BY <1>5, <1>7, <1>11, <1>12, <1>17 DEF Copies
    <3>4. folder'[t][n] = folder[t][n] /\ folder'[Peer(t)][x] = folder[Peer(t)][x]
      BY <1>5, <1>6, <1>10, <3>3
    <3> QED
      BY <3>2, <3>3, <3>4
  <2> QED
    BY <2>1, <2>2
<1>18. ASSUME NEW t \in Side PROVE Copying(t)'
  <2>1. todo'[t] \subseteq Chosen(t)'
    BY <1>9, <1>16
  <2>2. \A x \in Chosen(t)' \ todo'[t] : \E n \in Copies(t)' : folder'[Peer(t)][x].tag = folder'[t][n].tag
    BY <1>9, <1>17
  <2> QED
    BY <1>15, <2>1, <2>2 DEF Copying
<1> QED
  BY <1>18

\* The calls of a pass that touch neither mail nor index
LEMMA CallUndisturbed ==
  ASSUME TypeOK, Shape, Core, Undisturbed, NEW s \in Side,
         \/ Select(s) \/ LoadEndpoint(s) \/ ResetEndpoint(s) \/ ListIDs(s) \/ FetchMeta(s)
         \/ PutCachedMsgs(s) \/ DeleteCachedMsgs(s)
  PROVE  Undisturbed'
<1> USE DEF mailVars, cacheVars
<1>1. UNCHANGED <<folder, idx, todo>> /\ pc' \notin {"idle", "copy", "post"}
  BY DEF Select, LoadEndpoint, ResetEndpoint, ListIDs, FetchMeta, PutCachedMsgs, DeleteCachedMsgs
<1>2. /\ Settled => Settled'
      /\ Exact("a", Good("a")) => Exact("a", Good("a"))'
  BY <1>1, Frame
<1>3. CASE Select(s)
  <2>1. /\ quiet' = "yes" => quiet = "yes"
        /\ cs' = "b" => pc' = "select"
        /\ pc' \in {"select", "load"} \/ ~Incremental
    BY <1>3 DEF Select, Peer, Side
  <2> QED
    BY <1>1, <1>2, <2>1 DEF Undisturbed
<1>4. CASE ~Select(s)
  <2>1. quiet' = quiet /\ cs' = cs /\ pc \in {"load", "reset", "list", "fetch", "put", "gone"}
    BY <1>4 DEF LoadEndpoint, ResetEndpoint, ListIDs, FetchMeta, PutCachedMsgs, DeleteCachedMsgs
  <2>2. pc' \in {"fetch", "put", "gone", "save"} =>
          (pc \in {"fetch", "put", "gone"} /\ cur' = cur) \/ cur' = Dom(folder[cs])
    BY <1>4 DEF LoadEndpoint, ResetEndpoint, ListIDs, FetchMeta, PutCachedMsgs, DeleteCachedMsgs
  <2>3. (quiet' # "no" /\ Incremental /\ pc' \in {"fetch", "put", "gone", "save"}) => cur' = Dom(folder'[cs'])
    BY <1>1, <2>1, <2>2 DEF Undisturbed, Dom
  <2>4. (quiet' # "no" /\ cs' = "b") => Exact("a", Good("a"))'
    BY <1>2, <2>1 DEF Undisturbed
  <2>5. quiet' = "yes" => Settled' /\ \A t \in Side : todo'[t] = {}
    BY <1>1, <1>2, <2>1 DEF Undisturbed
  <2>6. (Dom(folder[cs]))' = Dom(folder'[cs'])
    BY DEF Dom
  <2> QED
    BY <1>1, <2>3, <2>4, <2>5, <2>6 DEF Undisturbed
<1> QED
  BY <1>3, <1>4

\* The end of the copy phase, and with it of the pass
LEMMA EndUndisturbed ==
  ASSUME Distinguishable, TypeOK, Shape, Kinship, NoDuplicates, Sent, Undisturbed,
         NEW s \in Side, CopyDone(s) \/ PutCopied(s)
  PROVE  Undisturbed'
<1> USE DEF mailVars, cacheVars
<1>1. UNCHANGED folder /\ pc \in {"copy", "post"}
  BY DEF CopyDone, PutCopied
<1>2. CASE UNCHANGED <<idx, todo, quiet>> /\ pc' \in {"copy", "post"}
  <2>1. UNCHANGED <<folder, idx, todo>>
    BY <1>1, <1>2
  <2>2. /\ Settled => Settled'
        /\ \A t \in Side : Copying(t) => Copying(t)'
    BY <2>1, Frame
  <2> QED
    BY <1>1, <1>2, <2>1, <2>2 DEF Undisturbed
<1>3. CASE EndPass /\ quiet' = (IF quiet = "pass" THEN "yes" ELSE quiet) /\ \A t \in Side : todo[t] = {}
  <2>1. pc' = "idle" /\ quiet' # "pass" /\ \A t \in Side : todo'[t] = {}
    BY <1>3 DEF EndPass
  <2>2. quiet' = "yes" => Settled
    <3>1. CASE quiet = "pass"
      <4>1. \A t \in Side : Copying(t) /\ todo[t] = {}
        BY <1>1, <1>3, <3>1 DEF Undisturbed
      <4> QED
        BY <4>1, PassSettles
    <3>2. CASE quiet # "pass"
      BY <1>3, <3>2 DEF Undisturbed
    <3> QED
      BY <3>1, <3>2
  <2>3. Settled => Settled'
    BY <1>1 DEF Settled, InOrder, Paired, Good, allow
  <2> QED
    BY <2>1, <2>2, <2>3 DEF Undisturbed
<1>4. CASE CopyDone(s)
  <2>1. CASE s = "b" \/ Incremental
    BY <1>2, <1>4, <2>1 DEF CopyDone
  <2>2. CASE ~(s = "b" \/ Incremental)
    <3>1. s = "a" /\ todo["a"] = {} /\ pc = "copy" /\ cs = "a"
      BY <1>4, <2>2 DEF CopyDone, Side
    <3>2. \A t \in Side : todo[t] = {}
      BY <3>1 DEF Shape, Side
    <3> QED
      BY <1>3, <1>4, <2>2, <3>2 DEF CopyDone
  <2> QED
    BY <2>1, <2>2
<1>5. CASE PutCopied(s)
  <2>1. \A t \in Side : todo[t] = {}
    BY <1>5 DEF PutCopied, Shape
  <2> QED
    BY <1>2, <1>3, <1>5, <2>1 DEF PutCopied
<1> QED
  BY <1>4, <1>5

\* Every step keeps what is claimed of undisturbed passes
LEMMA UndisturbedStep ==
  ASSUME Distinguishable, Orderly \/ Unchained, TypeOK, Shape, Core, Different, Sent, StillMissing',
         Undisturbed, [Next]_vars
  PROVE  Undisturbed'
<1> USE DEF Different
<1>1. CASE UNCHANGED <<folder, idx, todo, quiet, pc, cs, cur>>
  <2>1. UNCHANGED <<folder, idx, todo>>
    BY <1>1
  <2>2. (Dom(folder[cs]))' = Dom(folder[cs])
    BY <1>1 DEF Dom
  <2> QED
    BY <1>1, <2>1, <2>2, Frame DEF Undisturbed
<1>2. CASE Environment
  BY <1>1, <1>2, DisturbedKeeps
     DEF Environment, Deliver, Expunge, AssignMessageID, Renumber, ForgetUser, mailVars, passVars
<1>3. ASSUME NEW s \in Side, CopyError(s) PROVE Undisturbed'
  BY <1>3, DisturbedKeeps DEF CopyError
<1>4. CASE FolderError \/ Crash \/ Interrupted
  BY <1>4, DisturbedKeeps DEF FolderError, Crash, Interrupted
<1>5. CASE UNCHANGED vars
  BY <1>1, <1>5 DEF vars, mailVars, passVars
<1>6. CASE Pass
  BY <1>3, <1>6, CallUndisturbed, SaveUndisturbed, FullUndisturbed, CopyUndisturbed, EndUndisturbed DEF Pass
<1> QED
  BY <1>2, <1>4, <1>5, <1>6 DEF Next

(***************************************************************************)
(* The README's "second pass shows A->B=0 B->A=0": when messages can be    *)
(* told apart, a pass over folders nothing has changed since a whole pass  *)
(* began has nothing to copy, whatever cache, crash or failure came before *)
(* that one.  It needs listings in a fixed order, which may be any, or     *)
(* mail whose keys do not chain.                                           *)
(***************************************************************************)
THEOREM SecondPassFindsNothing ==
  Distinguishable /\ (Orderly \/ Unchained) => (Spec => []SecondPassIdle)
<1>1. Init => Undisturbed
  BY DEF Init, Undisturbed
<1>2. Undisturbed => SecondPassIdle
  BY DEF Undisturbed, SecondPassIdle
<1>3. ASSUME Distinguishable, Orderly \/ Unchained PROVE Spec => []SecondPassIdle
  <2>1. TypeOK /\ Shape /\ Core /\ Different /\ Different' /\ Sent /\ Undisturbed /\ [Next]_vars => Undisturbed'
    <3>1. Different' => StillMissing'
      BY DEF Different
    <3> QED
      BY <1>3, <3>1, UndisturbedStep
  <2>2. Spec => []Core
    BY <1>3, PremiseMet, Trustworthy
  <2>3. Spec => []Different /\ []Sent
    BY <1>3, StaysDifferent, StaysSent
  <2> QED
    BY <1>1, <1>2, <2>1, <2>2, <2>3, TypeCorrect, PTL DEF Spec
<1> QED
  BY <1>3

=============================================================================
