---------------------- MODULE AddressSelectorProofs ----------------------
(***************************************************************************)
(* Theorems about AddressSelector, for any books, groups, words and        *)
(* numbers of clicks, searches and failures.                               *)
(***************************************************************************)
EXTENDS AddressSelector, TLAPS

Slot(c) == <<c.book, c.group>>

(* What the code relies on without saying so: a call under way is the only *)
(* one for its group, which is marked and not in the page.                 *)
SelectorTypes ==
  /\ loaded \in [Slots -> Nat] /\ DOMAIN results = Books
  /\ shown => book \in Books
  /\ \A c \in parses : c.book \in Books
  /\ \A c \in calls : Slot(c) \in Slots
CallsMarked == \A c \in calls : Slot(c) \in loading
CallsUnique == \A c, d \in calls : Slot(c) = Slot(d) => c = d
MarkedAbsent == \A x \in Slots : x \in loading => loaded[x] = 0
(* Only boxes that are in the page are checked.                            *)
CheckedShown == \A x \in checked : x \in BoxesOf(x.book, x.group) /\ <<x.book, x.group>> \in Slots

GroupInv == SelectorTypes /\ CallsMarked /\ CallsUnique /\ MarkedAbsent /\ NoGroupTwice

(* A group of a book has its place in the page.                            *)
LEMMA SlotOf == ASSUME NEW b \in Books, NEW g \in Groups[b] \cup {Found} PROVE <<b, g>> \in Slots
  BY DEF Slots

(* The page starts with no group loaded and no call under way.             *)
LEMMA GroupInvInit == Init => GroupInv
<1> SUFFICES ASSUME Init PROVE GroupInv
  OBVIOUS
<1>1. /\ loaded = [x \in Slots |-> 0] /\ DOMAIN results = Books
      /\ shown = FALSE /\ parses = {} /\ calls = {}
  BY DEF Init
<1>2. SelectorTypes
  BY <1>1 DEF SelectorTypes
<1> QED BY <1>1, <1>2 DEF GroupInv, CallsMarked, CallsUnique, MarkedAbsent, NoGroupTwice

(* Steps that leave the groups alone.                                      *)
LEMMA GroupInvQuiet ==
  ASSUME GroupInv, UNCHANGED <<loaded, calls, loading, results>>,
         shown' => book' \in Books, \A c \in parses' : c.book \in Books
  PROVE  GroupInv'
  BY DEF GroupInv, SelectorTypes, CallsMarked, CallsUnique, MarkedAbsent, NoGroupTwice, Slot

(* An answer fills a group that was marked when it was asked for.          *)
LEMMA GroupInvNext == GroupInv /\ [Next]_vars => GroupInv'
<1> SUFFICES ASSUME GroupInv, [Next]_vars PROVE GroupInv'
  OBVIOUS
<1> USE DEF form, lists, tree, ghost, count
<1>1. ASSUME NEW b \in Books, Click(b) PROVE GroupInv'
  <2>1. /\ UNCHANGED <<loaded, calls, loading, results>>
        /\ shown' => book' \in Books
        /\ \A c \in parses' : c.book \in Books
    BY <1>1 DEF Click, Finish, GroupInv, SelectorTypes
  <2> QED BY <2>1, GroupInvQuiet
<1>2. CASE Ok \/ Cancel
  BY <1>2, GroupInvQuiet DEF Ok, Cancel, Finish, GroupInv, SelectorTypes
<1>3. ASSUME NEW t \in Types, NEW E \in Filled, Edit(t, E) PROVE GroupInv'
  BY <1>3, GroupInvQuiet DEF Edit, GroupInv, SelectorTypes
<1>4. ASSUME NEW b \in Books, NEW g \in Groups[b], OpenGroup(g) PROVE GroupInv'
  <2> DEFINE c == [book |-> book, group |-> g, word |-> All]
  <2>1. /\ book \in Books /\ g \in Groups[book]
        /\ <<book, g>> \in Slots /\ <<book, g>> \notin loading /\ loaded[<<book, g>>] = 0
        /\ loading' = loading \cup {<<book, g>>} /\ calls' = calls \cup {c}
        /\ UNCHANGED <<shown, book, parses, loaded, results>>
    BY <1>4, SlotOf DEF OpenGroup, LoadItems, GroupInv, SelectorTypes
  <2>2. Slot(c) = <<book, g>>
    BY DEF Slot
  <2>3. SelectorTypes'
    BY <2>1, <2>2 DEF GroupInv, SelectorTypes, Slot
  <2>4. CallsMarked' /\ CallsUnique'
    BY <2>1, <2>2 DEF GroupInv, CallsMarked, CallsUnique, Slot
  <2> QED BY <2>1, <2>3, <2>4 DEF GroupInv, MarkedAbsent, NoGroupTwice
<1>5. ASSUME NEW w \in Words, Search(w) PROVE GroupInv'
  <2> DEFINE f == <<book, Found>>
             c == [book |-> book, group |-> Found, word |-> w]
  <2>1. /\ f \in Slots
        /\ loaded' = [loaded EXCEPT ![f] = IF @ = 0 THEN 0 ELSE @ - 1]
        /\ UNCHANGED <<shown, book, parses, results>>
    BY <1>5, SlotOf DEF Search, DropResults, GroupInv, SelectorTypes
  <2>2. loaded' \in [Slots -> Nat] /\ loaded'[f] = 0 /\ \A x \in Slots \ {f} : loaded'[x] = loaded[x]
    BY <2>1 DEF GroupInv, SelectorTypes, NoGroupTwice
  <2>3. CASE f \in loading
    <3>1. UNCHANGED <<calls, loading>>
      BY <1>5, <2>3 DEF Search
    <3> QED BY <2>1, <2>2, <3>1
            DEF GroupInv, SelectorTypes, CallsMarked, CallsUnique, MarkedAbsent, NoGroupTwice, Slot
  <2>4. CASE f \notin loading
    <3>1. calls' = calls \cup {c} /\ loading' = loading \cup {f} /\ Slot(c) = f
      BY <1>5, <2>4 DEF Search, Slot
    <3>2. SelectorTypes'
      BY <2>1, <2>2, <3>1 DEF GroupInv, SelectorTypes, Slot
    <3>3. CallsMarked' /\ CallsUnique'
      BY <2>4, <3>1 DEF GroupInv, CallsMarked, CallsUnique, Slot
    <3> QED BY <2>2, <3>1, <3>2, <3>3 DEF GroupInv, MarkedAbsent, NoGroupTwice
  <2> QED BY <2>3, <2>4
<1>6. CASE ResetSearchResult
  <2> DEFINE f == <<book, Found>>
  <2>1. /\ f \in Slots
        /\ loaded' = [loaded EXCEPT ![f] = IF @ = 0 THEN 0 ELSE @ - 1]
        /\ UNCHANGED <<shown, book, parses, calls, loading, results>>
    BY <1>6, SlotOf DEF ResetSearchResult, DropResults, GroupInv, SelectorTypes
  <2>2. loaded' \in [Slots -> Nat] /\ loaded'[f] = 0 /\ \A x \in Slots \ {f} : loaded'[x] = loaded[x]
    BY <2>1 DEF GroupInv, SelectorTypes, NoGroupTwice
  <2> QED BY <2>1, <2>2
          DEF GroupInv, SelectorTypes, CallsMarked, CallsUnique, MarkedAbsent, NoGroupTwice, Slot
<1>7. ASSUME NEW x, Toggle(x) PROVE GroupInv'
  BY <1>7, GroupInvQuiet DEF Toggle, GroupInv, SelectorTypes
<1>8. ASSUME NEW t \in Types, AddAddresses(t) PROVE GroupInv'
  BY <1>8, GroupInvQuiet DEF AddAddresses, GroupInv, SelectorTypes
<1>9. ASSUME NEW t \in Types, NEW e \in Emails, Remove(t, e) PROVE GroupInv'
  BY <1>9, GroupInvQuiet DEF Remove, GroupInv, SelectorTypes
<1>10. ASSUME NEW c \in parses, ParseEnds(c) PROVE GroupInv'
  BY <1>10, GroupInvQuiet DEF ParseEnds, ParseAnswer, ParseNothing, ParseError, Show, Fault, GroupInv, SelectorTypes
<1>11. ASSUME NEW c \in calls, LoadAnswer(c) PROVE GroupInv'
  <2> DEFINE s == <<c.book, c.group>>
  <2>1. s \in Slots /\ s \in loading /\ loaded[s] = 0
    BY DEF GroupInv, SelectorTypes, CallsMarked, MarkedAbsent, Slot
  <2>2. /\ calls' = calls \ {c} /\ loading' = loading \ {s}
        /\ loaded' = [loaded EXCEPT ![s] = @ + 1]
        /\ UNCHANGED <<shown, book, parses>> /\ DOMAIN results' = DOMAIN results
    BY <1>11 DEF LoadAnswer
  <2>3. loaded' \in [Slots -> Nat] /\ loaded'[s] = 1 /\ \A x \in Slots \ {s} : loaded'[x] = loaded[x]
    BY <2>1, <2>2 DEF GroupInv, SelectorTypes
  <2>4. \A d \in calls' : Slot(d) # s
    BY <2>2 DEF GroupInv, CallsUnique, Slot
  <2> QED BY <2>1, <2>2, <2>3, <2>4
          DEF GroupInv, SelectorTypes, CallsMarked, CallsUnique, MarkedAbsent, NoGroupTwice, Slot
<1>12. ASSUME NEW c \in calls, LoadError(c) PROVE GroupInv'
  <2> DEFINE s == <<c.book, c.group>>
  <2>1. /\ calls' = calls \ {c} /\ loading' = loading \ {s}
        /\ UNCHANGED <<shown, book, parses, loaded, results>>
    BY <1>12 DEF LoadError
  <2>2. \A d \in calls' : Slot(d) # s
    BY <2>1 DEF GroupInv, CallsUnique, Slot
  <2> QED BY <2>1, <2>2
          DEF GroupInv, SelectorTypes, CallsMarked, CallsUnique, MarkedAbsent, NoGroupTwice, Slot
<1>13. CASE UNCHANGED vars
  BY <1>13, GroupInvQuiet DEF vars, GroupInv, SelectorTypes
<1> QED
  BY <1>1, <1>2, <1>3, <1>4, <1>5, <1>6, <1>7, <1>8, <1>9, <1>10, <1>11, <1>12, <1>13
  DEF Next, User, Answer

(* No group and no results are twice in the page (NoGroupTwice): a call    *)
(* under way is the only one of its group, which is marked all that time   *)
(* and can only have been removed since.                                   *)
THEOREM GroupsOnce == Spec => []NoGroupTwice
<1>1. GroupInv => NoGroupTwice
  BY DEF GroupInv
<1> QED BY <1>1, GroupInvInit, GroupInvNext, PTL DEF Spec
---------------------------------------------------------------------------
(* Only boxes that are in the page are checked, and a box for all only     *)
(* with those of its group: adding a group or results to the page checks   *)
(* nothing, and removing results removes their boxes.                      *)
BoxInv == GroupInv /\ CheckedShown /\ AllBoxTrue

(* Steps that leave the boxes of the page alone.                           *)
LEMMA BoxInvQuiet ==
  ASSUME BoxInv, GroupInv', UNCHANGED <<loaded, results>>, checked' = checked \/ checked' = {}
  PROVE  BoxInv'
  BY DEF BoxInv, CheckedShown, AllBoxTrue, BoxesOf, Entries

(* Boxes are checked and taken away with the elements they belong to.      *)
LEMMA BoxInvNext == BoxInv /\ [Next]_vars => BoxInv'
<1> SUFFICES ASSUME BoxInv, [Next]_vars PROVE BoxInv'
  OBVIOUS
<1> USE DEF form, lists, tree, ghost, count
<1>0. GroupInv'
  BY GroupInvNext DEF BoxInv
<1>1. ASSUME NEW b \in Books, Click(b) PROVE BoxInv'
  BY <1>0, <1>1, BoxInvQuiet DEF Click, Finish, Clear
<1>2. CASE Ok \/ Cancel
  BY <1>0, <1>2, BoxInvQuiet DEF Ok, Cancel, Finish, Clear
<1>3. ASSUME NEW t \in Types, NEW E \in Filled, Edit(t, E) PROVE BoxInv'
  BY <1>0, <1>3, BoxInvQuiet DEF Edit
<1>4. ASSUME NEW b \in Books, NEW g \in Groups[b], OpenGroup(g) PROVE BoxInv'
  BY <1>0, <1>4, BoxInvQuiet DEF OpenGroup, LoadItems
(* The results of the book that is open go, with their boxes.              *)
<1>5. ASSUME DropResults(book), UNCHANGED <<book, results>>, shown PROVE BoxInv'
  <2>1. <<book, Found>> \in Slots
    BY <1>5, SlotOf DEF BoxInv, GroupInv, SelectorTypes
  <2>2. \A x \in Slots \ {<<book, Found>>} : loaded'[x] = loaded[x]
    BY <1>5, <2>1 DEF DropResults, BoxInv, GroupInv, SelectorTypes
  <2>3. \A x \in checked' : /\ x \in checked /\ <<x.book, x.group>> \in Slots \ {<<book, Found>>}
                            /\ BoxesOf(x.book, x.group)' = BoxesOf(x.book, x.group)
    BY <1>5, <2>2 DEF DropResults, BoxInv, CheckedShown, BoxesOf, Entries
  <2>4. CheckedShown'
    BY <2>3 DEF BoxInv, CheckedShown
  <2>5. ASSUME NEW x \in checked', x.email = All PROVE BoxesOf(x.book, x.group)' \subseteq checked'
    <3>1. x \in checked /\ BoxesOf(x.book, x.group) \subseteq checked
      BY <2>3, <2>5 DEF BoxInv, AllBoxTrue
    <3>2. \A y \in BoxesOf(x.book, x.group) : y.book = x.book /\ y.group = x.group
      BY DEF BoxesOf
    <3> QED BY <1>5, <2>3, <3>1, <3>2 DEF DropResults
  <2> QED BY <1>0, <2>4, <2>5 DEF BoxInv, AllBoxTrue
<1>6. ASSUME NEW w \in Words, Search(w) PROVE BoxInv'
  BY <1>5, <1>6 DEF Search
<1>7. CASE ResetSearchResult
  BY <1>5, <1>7 DEF ResetSearchResult
<1>8. ASSUME NEW x, Toggle(x), <<x.book, x.group>> \in Slots PROVE BoxInv'
  <2> DEFINE B == BoxesOf(x.book, x.group)
             all == [x EXCEPT !.email = All]
  <2>1. UNCHANGED <<loaded, results>> /\ x \in B /\ x \in [book : {x.book}, group : {x.group}, email : Entries(x.book, x.group) \cup {All}]
    BY <1>8 DEF Toggle, BoxesOf
  <2>2. \A b, g : BoxesOf(b, g)' = BoxesOf(b, g)
    BY <2>1 DEF BoxesOf, Entries
  <2>3. \A b, g : \A y \in BoxesOf(b, g) : /\ y.book = b /\ y.group = g
                                           /\ y = [book |-> b, group |-> g, email |-> y.email]
    BY DEF BoxesOf
  <2>4. all = [book |-> x.book, group |-> x.group, email |-> All]
    BY <2>1
  <2>5. checked' \subseteq checked \cup B
    BY <1>8, <2>1 DEF Toggle
  <2>6. CheckedShown'
    <3>1. SUFFICES ASSUME NEW y \in checked'
                   PROVE  y \in BoxesOf(y.book, y.group) /\ <<y.book, y.group>> \in Slots
      BY <2>2 DEF CheckedShown, Slots
    <3>2. CASE y \in checked
      BY <1>8, <3>2 DEF BoxInv, CheckedShown
    <3>3. CASE y \in BoxesOf(x.book, x.group)
      <4>1. y.book = x.book /\ y.group = x.group
        BY <2>3, <3>3
      <4> QED BY <1>8, <3>3, <4>1
    <3> QED BY <2>5, <3>1, <3>2, <3>3
  <2>7. ASSUME NEW y \in checked', y.email = All PROVE BoxesOf(y.book, y.group) \subseteq checked'
    <3>1. CASE y.book = x.book /\ y.group = x.group
      <4>1. y = all
        <5>1. y \in B
          BY <2>2, <2>6, <3>1 DEF CheckedShown
        <5>2. y = [book |-> x.book, group |-> x.group, email |-> y.email]
          BY <2>3, <5>1
        <5> QED BY <2>4, <2>7, <5>2
      <4>2. CASE x.email = All
        <5>1. x = all
          BY <2>1, <2>3, <2>4, <4>2
        <5>2. x \notin checked
          BY <1>8, <2>1, <2>7, <4>1, <4>2, <5>1 DEF Toggle
        <5> QED BY <1>8, <3>1, <4>2, <5>2 DEF Toggle
      <4>3. CASE x.email # All
        <5>1. x # all
          BY <2>1, <2>4, <4>3
        <5>2. x \notin checked /\ y \in checked
          BY <1>8, <2>7, <4>1, <4>3, <5>1 DEF Toggle
        <5> QED BY <2>1, <2>7, <3>1, <5>2 DEF BoxInv, AllBoxTrue
      <4> QED BY <4>2, <4>3
    <3>2. CASE ~(y.book = x.book /\ y.group = x.group)
      <4>1. y \in checked
        BY <2>3, <2>5, <3>2
      <4>2. BoxesOf(y.book, y.group) \subseteq checked
        BY <2>7, <4>1 DEF BoxInv, AllBoxTrue
      <4>3. \A z \in BoxesOf(y.book, y.group) : z \notin B /\ z # x /\ z # all
        BY <2>1, <2>3, <2>4, <3>2
      <4> QED BY <1>8, <4>2, <4>3 DEF Toggle
    <3> QED BY <3>1, <3>2
  <2> QED BY <1>0, <2>2, <2>6, <2>7 DEF BoxInv, AllBoxTrue
<1>9. ASSUME NEW t \in Types, AddAddresses(t) PROVE BoxInv'
  <2>1. UNCHANGED <<loaded, results, book>> /\ checked' = {x \in checked : x.book # book}
    BY <1>9 DEF AddAddresses
  <2>2. \A b, g : BoxesOf(b, g)' = BoxesOf(b, g)
    BY <2>1 DEF BoxesOf, Entries
  <2>3. \A b, g : \A y \in BoxesOf(b, g) : y.book = b
    BY DEF BoxesOf
  <2> QED BY <1>0, <2>1, <2>2, <2>3 DEF BoxInv, CheckedShown, AllBoxTrue
<1>10. ASSUME NEW t \in Types, NEW e \in Emails, Remove(t, e) PROVE BoxInv'
  BY <1>0, <1>10, BoxInvQuiet DEF Remove
<1>11. ASSUME NEW c \in parses, ParseEnds(c) PROVE BoxInv'
  BY <1>0, <1>11, BoxInvQuiet DEF ParseEnds, ParseAnswer, ParseNothing, ParseError
<1>12. ASSUME NEW c \in calls, LoadAnswer(c) PROVE BoxInv'
  <2> DEFINE s == <<c.book, c.group>>
  <2>1. s \in Slots /\ loaded[s] = 0 /\ loaded \in [Slots -> Nat]
    BY DEF BoxInv, GroupInv, SelectorTypes, CallsMarked, MarkedAbsent, Slot
  <2>2. /\ checked' = checked /\ \A x \in Slots \ {s} : loaded'[x] = loaded[x]
        /\ c.group # Found => results' = results
        /\ c.group = Found => results' = [results EXCEPT ![c.book] = Result[c.word]]
    BY <1>12, <2>1 DEF LoadAnswer
  <2>3. \A x \in checked : <<x.book, x.group>> # s
    BY <2>1 DEF BoxInv, CheckedShown, BoxesOf
  <2>4. \A x \in checked : Entries(x.book, x.group)' = Entries(x.book, x.group)
    <3>1. \A x \in checked : x.book \in Books /\ (c.group = Found /\ x.group = Found => x.book # c.book)
      BY <2>3 DEF BoxInv, CheckedShown, Slots
    <3> QED BY <2>2, <3>1 DEF Entries, BoxInv, GroupInv, SelectorTypes
  <2>5. \A x \in checked : BoxesOf(x.book, x.group)' = BoxesOf(x.book, x.group)
    BY <2>2, <2>3, <2>4 DEF BoxesOf, BoxInv, CheckedShown
  <2> QED BY <1>0, <2>2, <2>5 DEF BoxInv, CheckedShown, AllBoxTrue
<1>13. ASSUME NEW c \in calls, LoadError(c) PROVE BoxInv'
  BY <1>0, <1>13, BoxInvQuiet DEF LoadError
<1>14. CASE UNCHANGED vars
  BY <1>0, <1>14, BoxInvQuiet DEF vars
<1>15. ASSUME NEW s \in Slots, NEW x \in BoxesOf(s[1], s[2]), Toggle(x) PROVE BoxInv'
  <2>1. x.book = s[1] /\ x.group = s[2]
    BY DEF BoxesOf
  <2>2. <<x.book, x.group>> = s
    BY <2>1 DEF Slots
  <2> QED BY <1>8, <1>15, <2>2
<1>16. ASSUME NEW x \in UNION {BoxesOf(s[1], s[2]) : s \in Slots}, Toggle(x) PROVE BoxInv'
  BY <1>15, <1>16
<1> QED
  BY <1>1, <1>2, <1>3, <1>4, <1>6, <1>7, <1>9, <1>10, <1>11, <1>12, <1>13, <1>14, <1>16
  DEF Next, User, Answer

(* A checked box for all has all the boxes of its group checked            *)
(* (AllBoxTrue), whatever is loaded, searched and reset meanwhile.         *)
THEOREM AllBoxMeansAll == Spec => []AllBoxTrue
<1>1. Init => BoxInv
  BY GroupInvInit DEF Init, BoxInv, CheckedShown, AllBoxTrue
<1>2. BoxInv => AllBoxTrue
  BY DEF BoxInv
<1> QED BY <1>1, <1>2, BoxInvNext, PTL DEF Spec
---------------------------------------------------------------------------
(* The addresses of the form are never hidden for good (FormComesBack).    *)
THEOREM FormNeverLost == Spec => []FormComesBack
<1>1. Init => FormComesBack
  BY DEF Init, FormComesBack
<1>2. FormComesBack /\ [Next]_vars => FormComesBack'
  BY DEF FormComesBack, Next, User, Answer, vars, form, lists, tree, ghost, count, Click, Ok, Cancel,
         Finish, Edit, OpenGroup, LoadItems, Search, ResetSearchResult, Toggle, AddAddresses, Remove,
         ParseEnds, ParseAnswer, ParseNothing, ParseError, Show, Fault, LoadAnswer, LoadError
<1> QED BY <1>1, <1>2, PTL DEF Spec
---------------------------------------------------------------------------
(* The lists of the fields that have not gone astray: the addresses as the *)
(* user has left them when the selector is there, empty ones when it is    *)
(* not, and then there is at most the call that will bring those of the    *)
(* form.  While a call is under way, all the fields have gone astray or    *)
(* none.                                                                   *)
Field(x) == x = [t \in Types |-> x[t]]
ListInv ==
  /\ Field(fields) /\ Field(want) /\ Field(list) /\ Field(selected)
  /\ \A c \in parses : Field(c.to)
  /\ astray \subseteq Types
  /\ astray # Types =>
       /\ shown => /\ parses = {}
                   /\ \A t \in Types \ astray : list[t] = want[t] /\ selected[t] = want[t]
       /\ ~shown => /\ list = Nobody /\ selected = Nobody
                    /\ \A c \in parses : c.to = want
                    /\ \A c, d \in parses : c = d

(* Steps that leave the lists and the calls that fill them alone.          *)
LEMMA ListInvQuiet ==
  ASSUME ListInv, UNCHANGED <<shown, selected, list, parses, ghost>>, Field(fields')
  PROVE  ListInv'
  BY DEF ListInv, Field, Nobody, ghost

(* Closing the selector.                                                   *)
LEMMA ListInvFinish ==
  ASSUME ListInv, NEW ok, Finish(ok)
  PROVE  /\ ListInv'
         /\ ok => \A t \in Types \ astray : fields'[t] = want[t]
<1>1. /\ shown /\ ~shown' /\ list' = Nobody /\ selected' = Nobody /\ UNCHANGED <<parses, want, astray>>
      /\ fields' = IF ok THEN [t \in Types |-> list[t] \cap selected[t]] ELSE fields
  BY DEF Finish, Clear, ghost
<1>2. Field(Nobody)
  BY DEF Field, Nobody
<1>3. Field(fields')
  BY <1>1 DEF Field, ListInv
<1>4. ListInv'
  BY <1>1, <1>2, <1>3 DEF ListInv, Field, Nobody
<1>5. ASSUME ok, NEW t \in Types \ astray PROVE fields'[t] = want[t]
  <2>1. list[t] = want[t] /\ selected[t] = want[t]
    BY <1>1, <1>5 DEF ListInv
  <2> QED BY <1>1, <1>5, <2>1
<1> QED BY <1>4, <1>5

(* Opening, answers, adding and removing keep the lists and what the user  *)
(* wants together.                                                         *)
LEMMA ListInvNext == ListInv /\ [Next]_vars => ListInv'
<1> SUFFICES ASSUME ListInv, [Next]_vars PROVE ListInv'
  OBVIOUS
<1> USE DEF form, lists, tree, ghost, count
<1>0. Field(Nobody)
  BY DEF Field, Nobody
<1>1. ASSUME NEW b \in Books, Click(b) PROVE ListInv'
  <2>1. CASE shown /\ book = b /\ Finish(TRUE)
    BY <2>1, ListInvFinish
  <2>2. CASE shown /\ book # b /\ UNCHANGED <<fields, shown, selected, list, parses, tree, ghost>>
    BY <2>2, ListInvQuiet DEF ListInv
  <2>3. CASE /\ ~shown /\ Clear
             /\ IF fields = Nobody
                THEN shown' = TRUE /\ UNCHANGED parses
                ELSE /\ parses' = parses \cup {[id |-> opens, to |-> fields, book |-> b]}
                     /\ UNCHANGED shown
             /\ want' = fields /\ astray' = (IF parses = {} THEN {} ELSE Types) /\ UNCHANGED fields
    <3>1. list' = Nobody /\ selected' = Nobody
      BY <2>3 DEF Clear
    <3>2. Field(fields') /\ Field(want') /\ Field(list') /\ Field(selected') /\ astray' \subseteq Types
      BY <1>0, <2>3, <3>1 DEF ListInv
    <3>3. CASE fields = Nobody
      BY <2>3, <3>1, <3>2, <3>3 DEF ListInv
    <3>4. CASE fields # Nobody
      <4> DEFINE c == [id |-> opens, to |-> fields, book |-> b]
      <4>1. parses' = parses \cup {c} /\ c.to = fields /\ ~shown'
        BY <2>3, <3>4
      <4> HIDE DEF c
      <4>2. \A d \in parses' : Field(d.to)
        BY <4>1, <3>2, <2>3 DEF ListInv
      <4>3. astray' # Types => parses' = {c} /\ want' = c.to
        BY <2>3, <4>1
      <4> QED BY <2>3, <3>1, <3>2, <4>1, <4>2, <4>3 DEF ListInv
    <3> QED BY <3>3, <3>4
  <2> QED BY <1>1, <2>1, <2>2, <2>3 DEF Click
<1>2. CASE Ok \/ Cancel
  BY <1>2, ListInvFinish DEF Ok, Cancel
<1>3. ASSUME NEW t \in Types, NEW E \in Filled, Edit(t, E) PROVE ListInv'
  <2>1. Field(fields')
    BY <1>3 DEF Edit, ListInv, Field
  <2> QED BY <1>3, <2>1, ListInvQuiet DEF Edit
<1>4. ASSUME NEW t \in Types, AddAddresses(t) PROVE ListInv'
  <2>1. /\ shown /\ UNCHANGED <<fields, shown, parses, astray>>
        /\ want' = [want EXCEPT ![t] = @ \cup Picked]
        /\ selected' = [u \in Types |-> selected[u] \cup [Nobody EXCEPT ![t] = Picked][u]]
        /\ list' = [u \in Types |-> list[u] \cup [Nobody EXCEPT ![t] = Picked][u]]
    BY <1>4 DEF AddAddresses, AddAll
  <2>2. \A u \in Types : [Nobody EXCEPT ![t] = Picked][u] = IF u = t THEN Picked ELSE {}
    BY DEF Nobody
  <2>3. want' = [u \in Types |-> IF u = t THEN want[u] \cup Picked ELSE want[u]]
    BY <2>1 DEF ListInv, Field
  <2>4. /\ selected' = [u \in Types |-> IF u = t THEN selected[u] \cup Picked ELSE selected[u]]
        /\ list' = [u \in Types |-> IF u = t THEN list[u] \cup Picked ELSE list[u]]
    BY <2>1, <2>2
  <2>5. Field(want') /\ Field(selected') /\ Field(list')
    BY <2>3, <2>4 DEF Field
  <2>6. \A u \in Types : list[u] = want[u] /\ selected[u] = want[u]
                          => list'[u] = want'[u] /\ selected'[u] = want'[u]
    BY <2>3, <2>4
  <2> QED BY <2>1, <2>5, <2>6 DEF ListInv
<1>5. ASSUME NEW t \in Types, NEW e \in Emails, Remove(t, e) PROVE ListInv'
  <2>1. /\ shown /\ UNCHANGED <<fields, shown, parses, astray>>
        /\ want' = [want EXCEPT ![t] = @ \ {e}]
        /\ selected' = [selected EXCEPT ![t] = @ \ {e}]
        /\ list' = [list EXCEPT ![t] = @ \ {e}]
    BY <1>5 DEF Remove
  <2>2. Field(want') /\ Field(selected') /\ Field(list')
    BY <2>1 DEF ListInv, Field
  <2>3. \A u \in Types : list[u] = want[u] /\ selected[u] = want[u]
                          => list'[u] = want'[u] /\ selected'[u] = want'[u]
    BY <2>1 DEF ListInv, Field
  <2> QED BY <2>1, <2>2, <2>3 DEF ListInv
(* The answer of the only call fills empty lists, but for the fields of     *)
(* which nothing came back.                                                *)
<1>6. ASSUME NEW c \in parses, NEW D \in SUBSET Types,
             parses' = parses \ {c}, shown', astray' = astray \cup D, UNCHANGED <<fields, want>>,
             AddAll([t \in Types |-> IF t \in D THEN {} ELSE c.to[t]])
      PROVE  ListInv'
  <2> DEFINE got == [t \in Types |-> IF t \in D THEN {} ELSE c.to[t]]
  <2>1. /\ selected' = [t \in Types |-> selected[t] \cup got[t]]
        /\ list' = [t \in Types |-> list[t] \cup got[t]]
    BY <1>6 DEF AddAll
  <2>2. Field(list') /\ Field(selected')
    BY <2>1 DEF Field
  <2>3. ASSUME astray' # Types
        PROVE  parses' = {} /\ \A t \in Types \ astray' : list'[t] = want'[t] /\ selected'[t] = want'[t]
    <3>1. astray # Types
      BY <1>6, <2>3
    <3>2. ~shown /\ list = Nobody /\ selected = Nobody /\ c.to = want /\ \A d \in parses : d = c
      BY <3>1 DEF ListInv
    <3>3. \A t \in Types \ D : list'[t] = want[t] /\ selected'[t] = want[t]
      BY <2>1, <3>2 DEF Nobody
    <3> QED BY <1>6, <3>2, <3>3
  <2>4. /\ Field(fields') /\ Field(want') /\ astray' \subseteq Types
        /\ \A d \in parses' : Field(d.to)
    BY <1>6 DEF ListInv
  <2> QED BY <1>6, <2>2, <2>3, <2>4 DEF ListInv
<1>7. ASSUME NEW c \in parses, ParseEnds(c) PROVE ListInv'
  <2>1. CASE ParseAnswer(c)
    <3>1. c.to = [t \in Types |-> IF t \in {} THEN {} ELSE c.to[t]]
      BY DEF ListInv, Field
    <3>2. AddAll([t \in Types |-> IF t \in {} THEN {} ELSE c.to[t]])
      BY <2>1, <3>1 DEF ParseAnswer
    <3>3. parses' = parses \ {c} /\ shown' /\ astray' = astray \cup {} /\ UNCHANGED <<fields, want>>
      BY <2>1 DEF ParseAnswer, Show
    <3> QED BY <1>6, <3>2, <3>3
  <2>2. ASSUME NEW D \in SUBSET Types, ParseNothing(c, D) PROVE ListInv'
    BY <1>6, <2>2 DEF ParseNothing, Show
  <2>3. CASE ParseError(c)
    BY <2>3 DEF ParseError, ListInv
  <2> QED BY <1>7, <2>1, <2>2, <2>3 DEF ParseEnds
<1>8. CASE \/ \E b \in Books : \E g \in Groups[b] : OpenGroup(g)
           \/ \E w \in Words : Search(w)
           \/ ResetSearchResult
           \/ \E x : Toggle(x)
           \/ \E c \in calls : LoadAnswer(c) \/ LoadError(c)
           \/ UNCHANGED vars
  <2>1. UNCHANGED <<fields, shown, selected, list, parses, ghost>>
    BY <1>8 DEF OpenGroup, LoadItems, Search, ResetSearchResult, Toggle, LoadAnswer, LoadError, vars
  <2> QED BY <2>1, ListInvQuiet DEF ListInv
<1> QED BY <1>1, <1>2, <1>3, <1>4, <1>5, <1>6, <1>7, <1>8 DEF Next, User, Answer

(* OK writes back what was in each field, as the user has changed it       *)
(* (OkGivesBack), however answers, clicks on the books, changes of the     *)
(* form and failures follow each other.                                    *)
THEOREM OkReturnsForm == Spec => OkGivesBack
<1>1. Init => ListInv
  <2>1. Field(Nobody)
    BY DEF Field, Nobody
  <2> QED BY <2>1 DEF Init, ListInv, Field, Nobody
<1>2. ListInv /\ [Next]_vars =>
        [(Ok \/ \E b \in Books : Click(b)) /\ shown /\ ~shown'
         => \A t \in Types \ astray : fields'[t] = want[t]]_vars
  <2> SUFFICES ASSUME ListInv, Ok \/ \E b \in Books : Click(b), shown, ~shown'
               PROVE  \A t \in Types \ astray : fields'[t] = want[t]
    OBVIOUS
  <2>1. Finish(TRUE)
    BY DEF Ok, Click
  <2> QED BY <2>1, ListInvFinish
<1> QED BY <1>1, <1>2, ListInvNext, PTL DEF Spec, OkGivesBack
==========================================================================
