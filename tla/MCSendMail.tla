--------------------------- MODULE MCSendMail ---------------------------
(***************************************************************************)
(* Instances of SendMail for TLC: a draft with two attachments of which    *)
(* only one is within the limit, a received mail with one, two windows.    *)
(***************************************************************************)
EXTENDS SendMail, TLC

CONSTANTS w1, w2, fA, fB, d1, m1

mcWindows  == {w1, w2}
mcFiles    == {fA, fB}
mcSymmetry == Permutations(mcFiles)
mcSize     == (fA :> 1) @@ (fB :> 1)
mcRefs     == {d1, m1}
mcRefFiles == (d1 :> {fA, fB}) @@ (m1 :> {})
mcUploads  == (w1 :> 0) @@ (w2 :> 2)
mcOpened   == [win : mcWindows, kind : {"edit"}, ref : {d1}]
                \cup [win : {w2}, kind : {"forward"}, ref : {m1}]
===========================================================================
