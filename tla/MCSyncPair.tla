----------------------------- MODULE MCSyncPair -----------------------------
(* Instances of SyncPair: what may be delivered. *)
EXTENDS SyncPair

CONSTANTS m1, m2, h1, h2, h3

\* a mail with a Message-ID, and one without that another mail may collide with
PlainMail == {[mid |-> m1, xhash |-> None, sur |-> h1],
              [mid |-> None, xhash |-> None, sur |-> h2]}

\* the same, but the one without carries a header that is not its hash: it was copied
\* before, and a server has changed what the hash is made of
HeaderMail == {[mid |-> m1, xhash |-> None, sur |-> h1],
               [mid |-> None, xhash |-> h3, sur |-> h2]}

\* mails that chain through a Message-ID, a header of an earlier copy and a hash
ChainedMail == {[mid |-> m1, xhash |-> None, sur |-> h1],
                [mid |-> m1, xhash |-> h2, sur |-> h1],
                [mid |-> None, xhash |-> None, sur |-> h2],
                [mid |-> None, xhash |-> None, sur |-> None]}
=============================================================================
