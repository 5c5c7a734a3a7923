----------------------------- MODULE TwoWaySync -----------------------------
(***************************************************************************)
(* What the tool promises about a folder pair, with no keys, index, cache  *)
(* or pass in it: mail comes and goes, and the tool adds to a writable     *)
(* folder a mail that the other folder has and this one has not.  It never *)
(* removes, never alters and never repeats one.                            *)
(***************************************************************************)
CONSTANTS
  None,
  Mail,       \* the identities of mails
  Slots,      \* the places of a folder
  Folders,    \* the two folders
  Writable    \* those the direction and the endpoint allow writing to

VARIABLES
  held,       \* the mail in each place of each folder, or None
  delivered   \* the mails that have been delivered so far

avars == <<held, delivered>>

Holds(s) == {held[s][i] : i \in Slots} \ {None}

AInit ==
  /\ held = [s \in Folders |-> [i \in Slots |-> None]]
  /\ delivered = {}

Deliver(s) ==
  \E t \in Mail \ delivered, i \in Slots :
    /\ held[s][i] = None
    /\ held' = [held EXCEPT ![s][i] = t]
    /\ delivered' = delivered \cup {t}

Remove(s) ==
  /\ \E i \in Slots : held' = [held EXCEPT ![s][i] = None]
  /\ UNCHANGED delivered

\* The same mails in other places
Renumber(s) ==
  /\ \E f \in [Slots -> Slots \cup {None}] :
       /\ \A i, j \in Slots : f[i] = f[j] => i = j \/ f[i] = None
       /\ held' = [held EXCEPT ![s] = [k \in Slots |-> IF f[k] = None THEN None ELSE held[s][f[k]]]]
       /\ \A i \in Slots : held[s][i] # None => \E k \in Slots : f[k] = i
  /\ UNCHANGED delivered

Copy(s) ==
  /\ s \in Writable
  /\ \E o \in Folders \ {s} : \E t \in Holds(o) \ Holds(s), i \in Slots :
       /\ held[s][i] = None
       /\ held' = [held EXCEPT ![s][i] = t]
  /\ UNCHANGED delivered

ANext == \E s \in Folders : Deliver(s) \/ Remove(s) \/ Renumber(s) \/ Copy(s)

ASpec == AInit /\ [][ANext]_avars
=============================================================================
