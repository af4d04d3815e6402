---------------------------- MODULE MCSynchro ----------------------------
(***************************************************************************)
(* Instances of Synchro for TLC: in the tables group B is below A, with a  *)
(* user u2; in the tree tOld there is no B, and u2 is in A; in tNew A is   *)
(* gone, and B, with u2, is at the top.  L is a group of the program's own *)
(* below A, with a user uL of the program's own; uB is another, in B and   *)
(* in M, a group of the program's own at the top.  The tree tLoc names L   *)
(* too, with a group C below it that is not in the tables yet; A, B and u2 *)
(* are not in it.                                                          *)
(***************************************************************************)
EXTENDS Synchro, TLC

CONSTANTS A, B, C, L, M, u2, uL, uB, tOld, tNew, tLoc, p1, p2

mcGroups    == {A, B, C, L, M}
mcUsers     == {u2, uL, uB}
mcG(c, a)   == [kind |-> "group", code |-> c, above |-> a]
mcU(c, a)   == [kind |-> "user", code |-> c, above |-> a]
mcTrees     == (tOld :> <<mcG(A, Root), mcU(u2, A)>>)
            @@ (tNew :> <<mcG(B, Root), mcU(u2, B)>>)
            @@ (tLoc :> <<mcG(L, Root), mcG(C, L)>>)
mcDir(a)    == [parent |-> a, ldap |-> TRUE, current |-> TRUE]
mcOwn(a)    == [parent |-> a, ldap |-> FALSE, current |-> FALSE]
mcUser(G, d) == [state |-> "enabled", ldap |-> d, current |-> d, in |-> G, left |-> {}]
mcFirstGroups == (A :> mcDir(Root)) @@ (B :> mcDir(A))
              @@ (L :> mcOwn(A)) @@ (M :> mcOwn(Root))
mcFirstUsers  == (u2 :> mcUser({B}, TRUE)) @@ (uL :> mcUser({L}, FALSE)) @@ (uB :> mcUser({B, M}, FALSE))
mcLdapTrees == {tOld, tNew}
mcGwTrees   == {tNew, tLoc}
mcProcesses == {p1, p2}
mcCommands  == (p1 :> {"run", "create", "synchronize", "destroy", "screen"}) @@ (p2 :> {"check"})
mcScreen    == (p1 :> {"screen"}) @@ (p2 :> {})
=============================================================================
