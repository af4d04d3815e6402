------------------------ MODULE MCAddressSelector ------------------------
(***************************************************************************)
(* Instances of AddressSelector for TLC: two fields of the form, a book of *)
(* the organisation with a group, a private one with nothing but its       *)
(* search, a search that finds an address and one that finds none.         *)
(***************************************************************************)
EXTENDS AddressSelector, TLC

CONSTANTS sys, pri, gA, e1, wOne, wNone, to, cc

mcBooks  == {sys, pri}
mcGroups == (sys :> {gA}) @@ (pri :> {})
mcInside == (gA :> Top)
mcItems  == (gA :> {e1})
mcTypes  == {to, cc}
mcEmails == {e1}
mcWords  == {wOne, wNone}
mcResult == (wOne :> {e1}) @@ (wNone :> {})
mcFilled == {{}, {e1}}
==========================================================================
