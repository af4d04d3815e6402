------------------------- MODULE AddressSelector -------------------------
(***************************************************************************)
(* The address book beside the form of a mail                              *)
(* (public/_common/js/address_selector.js, opened by the links of          *)
(* app/views/webmail/admin/mails/_form.html.erb).                          *)
(*                                                                         *)
(* Opening it sends the addresses of the form to the server to be parsed;  *)
(* the answer puts them into the lists of the selector.  The user adds and *)
(* removes addresses there, and OK writes the lists back into the form.    *)
(* The groups of the two books and the results of a search are loaded by   *)
(* calls of their own.  Answers come in any order.                         *)
(*                                                                         *)
(* An address stands for its e-mail; the order of a list, and whether a    *)
(* loaded group is folded, are left out.                                   *)
(***************************************************************************)
EXTENDS Naturals, FiniteSets

CONSTANTS Books,      \* the prefixes, sys and pri
          Groups,     \* [Books -> sets of groups with something below them]
          Inside,     \* [groups -> the group around it, Top for those of the page]
          Top,
          Items,      \* [groups -> addresses in it]
          Types,      \* to, cc, bcc
          Emails,
          Filled,     \* what a field of the form is filled with
          Words,      \* what the user searches for
          Result,     \* [Words -> addresses found]
          MaxOpens,   \* bound: clicks on the links of the books
          MaxSearches,\* bound: searches
          MaxFields,  \* bound: changes of the form
          MaxFaults   \* bound: calls that fail

Found == "Search"     \* the group of the results
All   == "0"          \* the box that checks a group's boxes

ASSUME SelectorAssumption ==
  /\ \A b \in Books : Found \notin Groups[b] /\ \A g \in Groups[b] : Inside[g] \in Groups[b] \cup {Top}
  /\ Filled \subseteq SUBSET Emails
  /\ All \notin Emails /\ \A w \in Words : Result[w] \subseteq Emails
  /\ {MaxOpens, MaxSearches, MaxFields, MaxFaults} \subseteq Nat

VARIABLES
  fields,   \* #item_in_to and so on: [Types -> SUBSET Emails]
  hidden,   \* #mailAddressesForm is hidden, so that the mail cannot be sent
  shown,    \* #addressSelector is displayed
  book,     \* _addressBook, "none" at the start
  selected, \* _selected
  list,     \* the entries in the selector's lists
  parses,   \* calls of parse_address under way: [id, to (the fields sent), book]
  loading,  \* _loadingGroupIds: [book, group]
  calls,    \* calls for groups and searches under way: [book, group, word]
  loaded,   \* how often each group's entries are in the page: [[book, group] -> Nat]
  results,  \* the addresses among the results of each book
  checked,  \* the boxes checked: [book, group, email]
  want,     \* history: the addresses as the user has left them
  astray,   \* history: the fields of which the selector did not get what was in the form
  opens, searches, edits, faults  \* history: how often the bounded events happened

form  == <<fields, hidden>>
lists == <<shown, book, selected, list>>
tree  == <<loading, calls, loaded, results, checked>>
ghost == <<want, astray>>
count == <<opens, searches, edits, faults>>
vars  == <<form, lists, parses, tree, ghost, count>>

Slots == {x \in Books \X ((UNION {Groups[b] : b \in Books}) \cup {Found}) :
            x[2] \in Groups[x[1]] \cup {Found}}
Nobody == [t \in Types |-> {}]

Init ==
  /\ fields \in [Types -> Filled] /\ hidden = FALSE
  /\ shown = FALSE /\ book = "none" /\ selected = Nobody /\ list = Nobody
  /\ parses = {} /\ loading = {} /\ calls = {}
  /\ loaded = [x \in Slots |-> 0] /\ results = [b \in Books |-> {}] /\ checked = {}
  /\ want = Nobody /\ astray = {}
  /\ opens = 0 /\ searches = 0 /\ edits = 0 /\ faults = 0

Fault == faults < MaxFaults /\ faults' = faults + 1 /\ UNCHANGED <<opens, searches, edits>>

Entries(b, g) == IF g = Found THEN results[b] ELSE Items[g]
BoxesOf(b, g) == IF loaded[<<b, g>>] = 0 \/ Entries(b, g) = {} THEN {}
                 ELSE [book : {b}, group : {g}, email : Entries(b, g) \cup {All}]
---------------------------------------------------------------------------
(* Opening and closing                                                     *)

(* Faulty variant of Clear: the lists of the last time are left.            *)
ClearBoxes == checked' = {} /\ UNCHANGED <<selected, list>>

(* clearCheckboxes and clearSelected                                       *)
Clear == checked' = {} /\ selected' = Nobody /\ list' = Nobody

(* finishSelection: the callback, then toggle() without a prefix.          *)
Finish(ok) ==
  /\ shown
  /\ fields' = IF ok THEN [t \in Types |-> list[t] \cap selected[t]] ELSE fields
  /\ hidden' = FALSE
  /\ Clear /\ shown' = FALSE
  /\ UNCHANGED <<book, parses, loading, calls, loaded, results, ghost>>

Ok     == Finish(TRUE) /\ UNCHANGED count
Cancel == Finish(FALSE) /\ UNCHANGED count

(* A click on the link of a book: OK for the book that is open, the other  *)
(* book in the selector that is open, or toggle of the one that is not.    *)
Click(b) ==
  /\ opens < MaxOpens /\ opens' = opens + 1 /\ UNCHANGED <<searches, edits, faults>>
  /\ \/ shown /\ book = b /\ Finish(TRUE)
     \/ /\ shown /\ book # b
        /\ book' = b /\ hidden' = TRUE
        /\ UNCHANGED <<fields, shown, selected, list, parses, tree, ghost>>
     \/ /\ ~shown /\ Clear /\ hidden' = TRUE
        /\ IF fields = Nobody
           THEN /\ shown' = TRUE /\ book' = b /\ UNCHANGED parses
           ELSE /\ parses' = parses \cup {[id |-> opens, to |-> fields, book |-> b]}
                /\ UNCHANGED <<shown, book>>
        /\ want' = fields /\ astray' = IF parses = {} THEN {} ELSE Types
        /\ UNCHANGED <<fields, loading, calls, loaded, results>>

(* add: an entry of an address that is there is written anew.              *)
AddAll(to) == /\ selected' = [t \in Types |-> selected[t] \cup to[t]]
              /\ list' = [t \in Types |-> list[t] \cup to[t]]
Show(b) == shown' = TRUE /\ book' = b

(* parse_address answers with calls of add, which are run before success:  *)
(* those of all the fields.                                                *)
ParseAnswer(c) ==
  /\ c \in parses /\ parses' = parses \ {c}
  /\ AddAll(c.to) /\ Show(c.book)
  /\ UNCHANGED <<form, tree, ghost, count>>

(* Each field is parsed, and rescued, on its own: of those that cannot be  *)
(* parsed nothing comes back, the others are added.  A session that has    *)
(* expired gives back nothing at all.                                      *)
ParseNothing(c, D) ==
  /\ c \in parses /\ parses' = parses \ {c} /\ Fault
  /\ D # {} /\ AddAll([t \in Types |-> IF t \in D THEN {} ELSE c.to[t]])
  /\ Show(c.book)
  /\ astray' = astray \cup D
  /\ UNCHANGED <<form, tree, want>>

(* Faulty variant of ParseError: only the message is shown.                *)
ParseErrorOnlyAlert(c) ==
  /\ c \in parses /\ parses' = parses \ {c} /\ Fault
  /\ astray' = Types
  /\ UNCHANGED <<form, lists, tree, want>>

(* A failed call opens the selector with empty lists.                      *)
ParseError(c) ==
  /\ c \in parses /\ parses' = parses \ {c} /\ Fault
  /\ Show(c.book)
  /\ astray' = Types
  /\ UNCHANGED <<form, selected, list, tree, want>>

(* The user types into the form or, hidden or not, a template fills it.    *)
Edit(t, E) ==
  /\ edits < MaxFields /\ edits' = edits + 1 /\ UNCHANGED <<opens, searches, faults>>
  /\ fields[t] # E /\ fields' = [fields EXCEPT ![t] = E]
  /\ UNCHANGED <<hidden, lists, parses, tree, ghost>>
---------------------------------------------------------------------------
(* Groups and searches                                                     *)

(* A click on a group that is not loaded; a loaded one is only folded.     *)
LoadItems(b, g) ==
  /\ <<b, g>> \notin loading /\ loaded[<<b, g>>] = 0
  /\ Inside[g] \in {Top} \cup {h \in Groups[b] : loaded[<<b, h>>] > 0}
  /\ loading' = loading \cup {<<b, g>>}
  /\ calls' = calls \cup {[book |-> b, group |-> g, word |-> All]}
  /\ UNCHANGED <<form, lists, parses, loaded, results, checked, ghost, count>>

OpenGroup(g) == shown /\ g \in Groups[book] /\ LoadItems(book, g)

(* removeSearchGroup: the first element with the id of the results.        *)
DropResults(b) ==
  /\ loaded' = [loaded EXCEPT ![<<b, Found>>] = IF @ = 0 THEN 0 ELSE @ - 1]
  /\ checked' = {x \in checked : x.book # b \/ x.group # Found}

(* Faulty variant of Search: a new search does not wait for the one before. *)
SearchAtOnce(w) ==
  /\ searches < MaxSearches /\ searches' = searches + 1 /\ UNCHANGED <<opens, edits, faults>>
  /\ shown /\ DropResults(book)
  /\ calls' = calls \cup {[book |-> book, group |-> Found, word |-> w]}
  /\ loading' = loading \cup {<<book, Found>>}
  /\ UNCHANGED <<form, lists, parses, results, ghost>>

(* The results there are go; a search that is under way makes loadItems    *)
(* return, so that its own results will be shown.                          *)
Search(w) ==
  /\ searches < MaxSearches /\ searches' = searches + 1 /\ UNCHANGED <<opens, edits, faults>>
  /\ shown /\ DropResults(book)
  /\ IF <<book, Found>> \in loading THEN UNCHANGED <<calls, loading>>
     ELSE /\ calls' = calls \cup {[book |-> book, group |-> Found, word |-> w]}
          /\ loading' = loading \cup {<<book, Found>>}
  /\ UNCHANGED <<form, lists, parses, results, ghost>>

ResetSearchResult ==
  /\ shown /\ loaded[<<book, Found>>] > 0 /\ DropResults(book)
  /\ UNCHANGED <<form, lists, parses, loading, calls, results, ghost, count>>

(* success of loadItems: showSearchGroup and showItems                     *)
LoadAnswer(c) ==
  /\ c \in calls /\ calls' = calls \ {c}
  /\ loaded' = [loaded EXCEPT ![<<c.book, c.group>>] = @ + 1]
  /\ results' = IF c.group = Found THEN [results EXCEPT ![c.book] = Result[c.word]] ELSE results
  /\ loading' = loading \ {<<c.book, c.group>>}
  /\ UNCHANGED <<form, lists, parses, checked, ghost, count>>

(* Faulty variant of LoadError: the group stays marked as being loaded.    *)
LoadErrorKeepsMark(c) ==
  /\ c \in calls /\ calls' = calls \ {c} /\ Fault
  /\ UNCHANGED <<form, lists, parses, loading, loaded, results, checked, ghost>>

LoadError(c) ==
  /\ c \in calls /\ calls' = calls \ {c} /\ Fault
  /\ loading' = loading \ {<<c.book, c.group>>}
  /\ UNCHANGED <<form, lists, parses, loaded, results, checked, ghost>>
---------------------------------------------------------------------------
(* Choosing addresses                                                      *)

(* Faulty variant of Toggle: the box for all is not looked after.          *)
ToggleAlone(x) ==
  /\ shown /\ x.book = book /\ x \in BoxesOf(x.book, x.group)
  /\ checked' = IF x \in checked THEN checked \ {x}
                ELSE IF x.email = All THEN checked \cup BoxesOf(x.book, x.group)
                ELSE checked \cup {x}
  /\ UNCHANGED <<form, lists, parses, loading, calls, loaded, results, ghost, count>>

(* checked: the box for all sets those of its own group, not those of the  *)
(* groups below it; a box that is unchecked unchecks the box for all.      *)
Toggle(x) ==
  /\ shown /\ x.book = book /\ x \in BoxesOf(x.book, x.group)
  /\ checked' = IF x.email = All
                THEN IF x \in checked THEN checked \ BoxesOf(x.book, x.group)
                     ELSE checked \cup BoxesOf(x.book, x.group)
                ELSE IF x \in checked THEN checked \ {x, [x EXCEPT !.email = All]}
                     ELSE checked \cup {x}
  /\ UNCHANGED <<form, lists, parses, loading, calls, loaded, results, ghost, count>>

(* What addAddresses finds checked in the book that is open.               *)
Picked == {x.email : x \in {x \in checked : x.book = book}} \ {All}

AddAddresses(t) ==
  /\ shown
  /\ AddAll([Nobody EXCEPT ![t] = Picked])
  /\ checked' = {x \in checked : x.book # book}
  /\ want' = [want EXCEPT ![t] = @ \cup Picked]
  /\ UNCHANGED <<form, shown, book, parses, loading, calls, loaded, results, astray, count>>

Remove(t, e) ==
  /\ shown /\ e \in list[t]
  /\ list' = [list EXCEPT ![t] = @ \ {e}]
  /\ selected' = [selected EXCEPT ![t] = @ \ {e}]
  /\ want' = [want EXCEPT ![t] = @ \ {e}]
  /\ UNCHANGED <<form, shown, book, parses, tree, astray, count>>
---------------------------------------------------------------------------
User ==
  \/ \E b \in Books : Click(b)
  \/ Ok \/ Cancel
  \/ \E t \in Types, E \in Filled : Edit(t, E)
  \/ \E b \in Books : \E g \in Groups[b] : OpenGroup(g)
  \/ \E w \in Words : Search(w)
  \/ ResetSearchResult
  \/ \E x \in UNION {BoxesOf(s[1], s[2]) : s \in Slots} : Toggle(x)
  \/ \E t \in Types : AddAddresses(t)
  \/ \E t \in Types, e \in Emails : Remove(t, e)

ParseEnds(c) == ParseAnswer(c) \/ ParseError(c) \/ \E D \in SUBSET Types : ParseNothing(c, D)

Answer ==
  \/ \E c \in parses : ParseEnds(c)
  \/ \E c \in calls : LoadAnswer(c) \/ LoadError(c)

Next == User \/ Answer

Spec == Init /\ [][Next]_vars
(* The server answers each call, or the call fails.                        *)
FairSpec == /\ Spec
            /\ WF_vars(\E c \in parses : ParseEnds(c))
            /\ WF_vars(\E c \in calls : LoadAnswer(c) \/ LoadError(c))
---------------------------------------------------------------------------
(* Properties                                                              *)

(* OK leaves in each field of the form what was in it when the selector    *)
(* was opened, with the addresses the user added and without those the     *)
(* user removed, unless the server gave nothing of that field back, or the *)
(* selector was opened again before the answer was there (whose late       *)
(* arrival restores what has been removed): address_selector.js 13-54,     *)
(* 223-287, 297-306, 338-353, address_selector_controller.rb 4-8.          *)
OkGivesBack ==
  [][(Ok \/ \E b \in Books : Click(b)) /\ shown /\ ~shown'
     => \A t \in Types \ astray : fields'[t] = want[t]]_vars

(* While the addresses of the form are hidden, and with them the mail kept *)
(* from being sent, the selector is there or will be when an answer comes: *)
(* the form is always to be had back (lines 31-52, _form.html.erb 241-270). *)
FormComesBack == hidden => shown \/ parses # {}

(* No group is in the page twice and no two groups of results are, however *)
(* clicks, searches, resets and their answers follow each other: elements  *)
(* with the same id would leave one that can never be removed.             *)
NoGroupTwice == \A x \in Slots : loaded[x] <= 1

(* A checked box for all has all the boxes of its group checked, also when *)
(* the results around it change: what the user sees is what is added.      *)
AllBoxTrue ==
  \A x \in checked : x.email = All => BoxesOf(x.book, x.group) \subseteq checked

(* No group stays marked as being loaded: it can be asked for again after  *)
(* a failure, and searching stays possible (lines 79, 103-113, 147).       *)
LoadsEnd == \A x \in Slots : x \in loading ~> x \notin loading
===========================================================================
