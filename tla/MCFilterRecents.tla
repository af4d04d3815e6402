------------------------- MODULE MCFilterRecents -------------------------
(***************************************************************************)
(* Instances of FilterRecents for TLC.  Two filters compete for mail m1,   *)
(* only the second takes m2, none takes m3.  Filter 1 is a disjunction,    *)
(* filter 2 a conjunction of two conditions.  One UID at once leaves all   *)
(* but the newest mail to a job, which handles it in slices of one UID.    *)
(* The instance for liveness has filter 1 alone.                           *)
(***************************************************************************)
EXTENDS FilterRecents, TLC

CONSTANTS m1, m2, m3, bIn, bWork, bTrash, bOwn, r1, r2, w1

mcMails2   == {m1, m2}
mcMails3   == {m1, m2, m3}
mcBoxes    == {bIn, bWork, bTrash, bOwn}
mcFilters  == 1 .. 2
mcFilter1  == {1}
mcChain1   == (1 :> "or")
mcConds1   == (1 :> {{m1}, {}})
mcTarget1  == (1 :> bWork)
mcChain    == (1 :> "or") @@ (2 :> "and")
mcConds    == (1 :> {{m1}, {}}) @@ (2 :> {{m1, m2}, Mails})
mcTarget   == (1 :> bWork) @@ (2 :> bTrash)
mcRequest1 == {r1}
mcRequests == {r1, r2}
mcAlike    == Permutations(mcRequests)  \* no property tells the requests apart
mcWorker1  == {w1}
mcOwn      == {bOwn}
mcNoBox    == {}
mcSlots1   == {1}
===========================================================================
