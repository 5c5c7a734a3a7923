---------------------------- MODULE MCDedupIndex ----------------------------
(***************************************************************************)
(* DedupIndex on listings of up to three messages a side.  The messages    *)
(* chain: m1 links the first to the second, h2 the second to the third     *)
(* and the fourth, h1 the fourth to the first; the fifth stands alone.     *)
(***************************************************************************)
EXTENDS DedupIndex

CONSTANTS m1, h1, h2, h3

MCInput == {
  [mid |-> m1,   xhash |-> None, sur |-> h1],
  [mid |-> m1,   xhash |-> None, sur |-> h2],
  [mid |-> None, xhash |-> None, sur |-> h2],
  [mid |-> None, xhash |-> h1,   sur |-> h2],
  [mid |-> None, xhash |-> None, sur |-> h3]}
=============================================================================
