-------------------------- MODULE MCFilterApply --------------------------
(***************************************************************************)
(* Instances of FilterApply for TLC: the inbox with a subfolder, so that   *)
(* the same UID names different mails in the two; filter 1 takes m1 and    *)
(* m4, filter 2 takes m2, m3 stays.                                        *)
(***************************************************************************)
EXTENDS FilterApply, TLC

CONSTANTS m1, m2, m3, m4, bIn, bSub, bWork, bTrash

mcMails   == {m1, m2, m3, m4}
mcBoxes   == {bIn, bSub, bWork, bTrash}
mcFilters == 1 .. 2
mcChain   == (1 :> "or") @@ (2 :> "and")
mcConds   == (1 :> {{m1}, {m4}}) @@ (2 :> {{m2, m1}, {m2, m3}})
mcTarget  == (1 :> bWork) @@ (2 :> bTrash)
mcSubtree == (bIn :> {bIn, bSub}) @@ (bSub :> {bSub}) @@ (bWork :> {bWork}) @@ (bTrash :> {bTrash})
mcOrder   == (bIn :> 1) @@ (bSub :> 2) @@ (bWork :> 3) @@ (bTrash :> 4)
mcOffered == {bIn, bSub, bWork}
At(b, u, m) == [box |-> b, uid |-> u, mail |-> m, seen |-> FALSE, deleted |-> FALSE]
mcContent == {At(bIn, 1, m1), At(bIn, 2, m2), At(bSub, 1, m3), At(bSub, 2, m4)}
mcNone    == {}
===========================================================================
