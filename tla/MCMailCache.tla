--------------------------- MODULE MCMailCache ---------------------------
(***************************************************************************)
(* Instances of MailCache for TLC: an inbox and a folder with one mail     *)
(* each, the trash, and a mailbox that may be created.                     *)
(***************************************************************************)
EXTENDS MailCache, TLC

CONSTANTS m1, m2, b1, b2, b3, b4, r1, r2, nInbox, nWork, nTrash, nOld

mcMails    == {m1, m2}
mcBoxes    == {b1, b2, b3, b4}
mcNames    == {nInbox, nWork, nTrash, nOld}  \* nOld: the folder Work in the trash
mcInTrash  == {nTrash, nOld}
mcNaming   == (b1 :> nInbox) @@ (b2 :> nWork) @@ (b3 :> nTrash) @@ (b4 :> NoName)
mcFirst(b, m) == [box |-> b, uid |-> 1, mail |-> m, seen |-> FALSE, deleted |-> FALSE]
mcStore    == {mcFirst(b1, m1), mcFirst(b2, m2)}
mcRequests == {r1, r2}
mcSymmetry == Permutations(mcRequests)
===========================================================================
