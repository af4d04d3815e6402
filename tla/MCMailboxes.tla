--------------------------- MODULE MCMailboxes ---------------------------
(***************************************************************************)
(* Instances of Mailboxes for TLC: a folder A with a subfolder A/x, the    *)
(* names A and B for the user to type.                                     *)
(***************************************************************************)
EXTENDS Mailboxes, TLC

CONSTANTS r1, r2, f1

mcTitles   == {"INBOX", "Trash", "A", "B", "C", "x"}
mcRequests == {r1, r2}
mcChanger  == {r1}
mcFilters  == {f1}
mcInbox    == <<"INBOX">>
mcTrash    == <<"Trash">>
mcFresh    == <<mcInbox>>
mcStart    == <<mcInbox, <<"A">>, <<"A", "x">>>>
mcFolders  == <<mcInbox, mcTrash, <<"A">>, <<"A", "x">>>>
mcKnown    == {mcFolders[i] : i \in DOMAIN mcFolders}
mcTyped    == {<<"A">>, <<"B">>}
mcDeep     == {<<"A">>, <<"B">>, <<"A", "B">>}
mcForeign  == {<<"A">>, <<"C">>}
mcNone     == {}
mcBad      == {"x"}
mcSymmetry == Permutations(mcRequests)
===========================================================================
