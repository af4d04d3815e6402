---------------------------- MODULE Mailboxes ----------------------------
(***************************************************************************)
(* The mailboxes of one user, kept twice: on the IMAP server and as rows   *)
(* of webmail_mailboxes, with the filters that name them as targets        *)
(* (app/models/webmail/mailbox.rb,                                         *)
(* app/models/concerns/webmail/mailboxes/imap.rb,                          *)
(* app/controllers/webmail/admin/mailboxes_controller.rb).                 *)
(*                                                                         *)
(* A request loads the rows, changes at most one mailbox in a database     *)
(* transaction that also holds the IMAP command, and synchronises the rows *)
(* with LIST under the named lock of the account.  A name is the sequence  *)
(* of its titles.  A mailbox on the server has, besides its name, a key    *)
(* that a RENAME keeps: it says which mailbox a name means.  What a sync   *)
(* writes into the other columns of a row (counts, sort_no) is left out,   *)
(* and so are the cached headers (webmail_mail_nodes) of a mailbox.        *)
(***************************************************************************)
EXTENDS Naturals, Sequences, FiniteSets

CONSTANTS Titles,       \* titles of mailboxes, one for each level of a name
          Requests,     \* concurrent requests of the user
          Changers,     \* those that may change a mailbox; the others only reload the list
          Filters,
          Inbox, Trash, \* mailbox names; Trash stands for the required special-use boxes
          Existing,     \* the names on the server at the start, a sequence
          Known,        \* those of them that have a row: none at the first login
          Typed,        \* the names the user enters in the form
          Foreign,      \* the names other mail clients use
          BadTitles,    \* titles with a character that validate_title refuses
          NoBox,        \* mailbox_name of a filter without one
          MaxCreates,   \* bound: mailboxes created by requests
          MaxChanges,   \* bound: mailboxes renamed or deleted by requests
          MaxSettings,  \* bound: filters saved by the user
          MaxOutside,   \* bound: mailboxes changed by other mail clients
          MaxTimeouts,  \* bound: GET_LOCK returning without the lock
          MaxCrashes    \* bound: requests killed

Name == Seq(Titles) \ {<<>>}

ASSUME MailboxesAssumption ==
  /\ Changers \subseteq Requests
  /\ {Inbox, Trash} \subseteq Name /\ Typed \subseteq Name /\ Foreign \subseteq Name
  /\ NoBox \notin Name
  /\ Existing \in Seq(Name)
  /\ \A i, j \in DOMAIN Existing : Existing[i] = Existing[j] => i = j
  /\ Len(Inbox) = 1 /\ Len(Trash) = 1 /\ Inbox # Trash
  /\ \A n \in Typed : n \notin {Inbox, Trash} /\ n[Len(n)] \notin BadTitles
  /\ {MaxCreates, MaxChanges, MaxSettings, MaxOutside, MaxTimeouts, MaxCrashes} \subseteq Nat

VARIABLES
  server, rows,     \* mailboxes on the server, [name, key]; rows, [id, name]
  target, enabled,  \* mailbox_name of each filter; the filters in state 'enabled'
  serial,           \* the next key of a mailbox or id of a row
  holder,           \* the holders of the named lock, at most one request
  pc, next,         \* where a request is, and where it goes after its sync
  seen, boxes,      \* the rows and the LIST a request has read
  todo,             \* the rows it still has to delete
  tx,               \* the open transaction of a request
  aim,              \* history: key of the mailbox the user gave a filter
  missed,           \* history: filters that did not follow a rename of their mailbox
  shown,            \* history: the names that were ever offered in a form
  doubled,          \* history: the names that two rows had at once
  count             \* history: how often the bounded events happened

data    == <<server, rows, target, enabled, serial>>
local   == <<next, seen, boxes, todo, tx>>
history == <<aim, missed, shown, doubled, count>>
vars    == <<data, holder, pc, local, history>>

(* What a transaction has written: rows inserted (names), renamed          *)
(* ([id, name]) and deleted (ids), filters that follow a rename            *)
(* ([filter, name]) and filters that are disabled.                         *)
NoTx == [ins |-> {}, ren |-> {}, del |-> {}, follow |-> {}, off |-> {}]
NoKey == 0

Names(S) == {x.name : x \in S}
Ids(S) == {x.id : x \in S}
Twice(S) == {r.name : r \in {r \in S : \E q \in S : q # r /\ q.name = r.name}}

Init ==
  /\ server = {[name |-> Existing[i], key |-> i] : i \in DOMAIN Existing}
  /\ rows = {[id |-> i, name |-> Existing[i]] : i \in {i \in DOMAIN Existing : Existing[i] \in Known}}
  /\ serial = Len(Existing) + 1
  /\ target = [f \in Filters |-> NoBox] /\ enabled = {}
  /\ holder = {}
  /\ pc = [p \in Requests |-> "idle"] /\ next = [p \in Requests |-> "idle"]
  /\ seen = [p \in Requests |-> {}] /\ boxes = [p \in Requests |-> {}]
  /\ todo = [p \in Requests |-> {}] /\ tx = [p \in Requests |-> NoTx]
  /\ aim = [f \in Filters |-> NoKey] /\ missed = {} /\ shown = {} /\ doubled = {}
  /\ count = [creates |-> 0, changes |-> 0, settings |-> 0, outside |-> 0,
              timeouts |-> 0, crashes |-> 0]
---------------------------------------------------------------------------
(* Names and trees of names                                                *)

Under(n, b) == Len(b) <= Len(n) /\ SubSeq(n, 1, Len(b)) = b

(* rename_path *)
RenamePath(n, old, new) == new \o SubSeq(n, Len(old) + 1, Len(n))

TitleOk(n) == n[Len(n)] \notin BadTitles

(* Of rows with the same name index_by keeps one. *)
Kept(r, S) == r \in S /\ \A q \in S : q.name = r.name => q.id <= r.id

(* descendants: r and the rows of the tree below it (make_tree); of rows   *)
(* with the same name one has all the children.                            *)
Descendants(r, S) ==
  {r} \cup {c \in S : /\ Kept(r, S) /\ c.name # r.name /\ Under(c.name, r.name)
                     /\ \A k \in Len(r.name) .. Len(c.name) : SubSeq(c.name, 1, k) \in Names(S)}

(* Those whose name is saved with the name of r: update_children saves     *)
(* each child, and one whose title is not valid is not saved, nor is what  *)
(* lies below it.                                                          *)
SavedWith(r, S) ==
  {c \in Descendants(r, S) :
     \A k \in Len(r.name) + 1 .. Len(c.name) : TitleOk(SubSeq(c.name, 1, k))}

(* What the server makes of a RENAME: inferiors are renamed too. *)
Renamed(S, old, new) ==
  {IF Under(b.name, old) THEN [b EXCEPT !.name = RenamePath(b.name, old, new)] ELSE b : b \in S}

(* It refuses one that leads to a name that is taken. *)
Taken(old, new) ==
  \E b, c \in server : Under(b.name, old) /\ ~Under(c.name, old) /\ RenamePath(b.name, old, new) = c.name

(* Rows and filters that the open transactions of other requests lock      *)
LockedRows(p) == UNION {Ids(tx[q].ren) \cup tx[q].del : q \in Requests \ {p}}
FiltersOf(q) == {x.filter : x \in tx[q].follow} \cup tx[q].off
LockedFilters(p) == UNION {FiltersOf(q) : q \in Requests \ {p}}

FiltersOn(names) == {f \in Filters : target[f] \in names}

Goto(p, label) == pc' = [pc EXCEPT ![p] = label]
Bump(field) == count' = [count EXCEPT ![field] = @ + 1]
---------------------------------------------------------------------------
(* The start of a request: load_mailboxes                                  *)

Load(p) ==
  /\ pc[p] = "idle"
  /\ seen' = [seen EXCEPT ![p] = rows]
  /\ shown' = shown \cup Names(rows)
  /\ IF Trash \in Names(rows) THEN Goto(p, "ready") /\ UNCHANGED next
     ELSE Goto(p, "lock") /\ next' = [next EXCEPT ![p] = "reread"]
  /\ UNCHANGED <<data, holder, boxes, todo, tx, aim, missed, doubled, count>>

Reread(p) ==
  /\ pc[p] = "reread"
  /\ seen' = [seen EXCEPT ![p] = rows]
  /\ shown' = shown \cup Names(rows)
  /\ Goto(p, "ready")
  /\ next' = [next EXCEPT ![p] = "idle"]
  /\ UNCHANGED <<data, holder, boxes, todo, tx, aim, missed, doubled, count>>

(* A request that changes no mailbox, with or without reload_mailboxes *)
Browse(p) ==
  /\ pc[p] = "ready"
  /\ Goto(p, "idle") \/ Goto(p, "lock")
  /\ UNCHANGED <<data, holder, local, history>>
---------------------------------------------------------------------------
(* MailboxesController: the changes of a mailbox                           *)

(* The IMAP command is refused: the transaction is rolled back, the error  *)
(* reported, and after_action synchronises.                                *)
Refused(p) ==
  /\ Goto(p, "lock")
  /\ todo' = [todo EXCEPT ![p] = {}]
  /\ UNCHANGED <<server, serial, tx>>

(* The forms offer a parent from the list: selectable_as_parent?           *)
ParentOffered(p, n) ==
  Len(n) > 1 => \E r \in seen[p] : r.name = SubSeq(n, 1, Len(n) - 1) /\ ~Under(r.name, Trash)

(* create_mailbox: INSERT, CREATE *)
CreateBox(p, n) ==
  /\ pc[p] = "ready"
  /\ ParentOffered(p, n)
  /\ count.creates < MaxCreates /\ Bump("creates")
  /\ IF n \in Names(server) THEN Refused(p)
     ELSE /\ server' = server \cup {[name |-> n, key |-> serial]}
          /\ serial' = serial + 1
          /\ tx' = [tx EXCEPT ![p] = [NoTx EXCEPT !.ins = {n}]]
          /\ Goto(p, "commit")
          /\ UNCHANGED todo
  /\ UNCHANGED <<rows, target, enabled, holder, next, seen, boxes, aim, missed, shown, doubled>>

(* The filters that a rename of r does not take along with their mailboxes *)
(* (history): below r, when r has a twin row that has the children or no   *)
(* tree leads there because a mailbox between is missing (make_tree), and  *)
(* where validate_title refuses a title.                                   *)
Misses(p, r, new, n) ==
  \/ ~TitleOk(new) \/ \E k \in Len(r.name) + 1 .. Len(n) : ~TitleOk(SubSeq(n, 1, k))
  \/ n # r.name /\ ~Kept(r, seen[p])
  \/ \E k \in Len(r.name) .. Len(n) - 1 : SubSeq(n, 1, k) \notin Names(server)
MissedBy(p, r, new) ==
  {f \in Filters : target[f] # NoBox /\ Under(target[f], r.name) /\ Misses(p, r, new, target[f])}

(* Faulty variant of RenameMailbox: update_filters is left out. *)
RenameNoFilters(p, r, new, saved) ==
  /\ pc[p] = "ready"
  /\ count.changes < MaxChanges /\ Bump("changes")
  /\ Ids(saved) \cap LockedRows(p) = {}
  /\ FiltersOn(Names(saved)) \cap LockedFilters(p) = {}
  /\ IF r.name \notin Names(server) \/ Taken(r.name, new) THEN Refused(p) /\ UNCHANGED missed
     ELSE /\ server' = Renamed(server, r.name, new)
          /\ tx' = [tx EXCEPT ![p] = [NoTx EXCEPT
                      !.ren = {[id |-> c.id, name |-> RenamePath(c.name, r.name, new)] : c \in saved}]]
          /\ missed' = missed \cup MissedBy(p, r, new)
          /\ Goto(p, "commit")
          /\ UNCHANGED <<serial, todo>>
  /\ UNCHANGED <<rows, target, enabled, holder, next, seen, boxes, aim, shown, doubled>>

(* rename_mailbox: UPDATE of the row, of the filters that name it and of   *)
(* its children, and theirs (before_update); RENAME                        *)
RenameMailbox(p, r, new, saved) ==
  /\ pc[p] = "ready"
  /\ count.changes < MaxChanges /\ Bump("changes")
  /\ Ids(saved) \cap LockedRows(p) = {}
  /\ FiltersOn(Names(saved)) \cap LockedFilters(p) = {}
  /\ IF r.name \notin Names(server) \/ Taken(r.name, new) THEN Refused(p) /\ UNCHANGED missed
     ELSE /\ server' = Renamed(server, r.name, new)
          /\ tx' = [tx EXCEPT ![p] = [NoTx EXCEPT
                      !.ren = {[id |-> c.id, name |-> RenamePath(c.name, r.name, new)] : c \in saved},
                      !.follow = {[filter |-> f, name |-> RenamePath(target[f], r.name, new)] :
                                    f \in FiltersOn(Names(saved))}]]
          /\ missed' = missed \cup MissedBy(p, r, new)
          /\ Goto(p, "commit")
          /\ UNCHANGED <<serial, todo>>
  /\ UNCHANGED <<rows, target, enabled, holder, next, seen, boxes, aim, shown, doubled>>

Editable(r) == r.name \notin {Inbox, Trash}

(* update *)
RenameBox(p, r, new) ==
  /\ Editable(r) /\ ~Under(new, r.name) /\ ParentOffered(p, new)
  /\ RenameMailbox(p, r, new, SavedWith(r, seen[p]))

(* destroy, of a mailbox outside the trash: it is renamed into the trash. *)
TrashBox(p, r) ==
  /\ Editable(r) /\ ~Under(r.name, Trash) /\ Trash \in Names(seen[p])
  /\ RenameMailbox(p, r, Trash \o <<r.name[Len(r.name)]>>,
                   IF TitleOk(r.name) THEN SavedWith(r, seen[p]) ELSE {})

(* Faulty variant of DeleteBox: a mailbox outside the trash is deleted too. *)
DeleteAnywhere(p, r) ==
  /\ pc[p] = "ready" /\ Editable(r)
  /\ count.changes < MaxChanges /\ Bump("changes")
  /\ todo' = [todo EXCEPT ![p] = Descendants(r, seen[p])]
  /\ Goto(p, "delete")
  /\ UNCHANGED <<data, holder, next, seen, boxes, tx, aim, missed, shown, doubled>>

(* destroy, of a mailbox in the trash: delete_mailbox of each descendant *)
DeleteBox(p, r) ==
  /\ pc[p] = "ready"
  /\ r.name # Trash /\ Under(r.name, Trash)
  /\ count.changes < MaxChanges /\ Bump("changes")
  /\ todo' = [todo EXCEPT ![p] = Descendants(r, seen[p])]
  /\ Goto(p, "delete")
  /\ UNCHANGED <<data, holder, next, seen, boxes, tx, aim, missed, shown, doubled>>

(* delete_mailbox: DELETE of the row and its children, the filters that    *)
(* name them disabled (before_destroy); DELETE on the server               *)
DeleteMailbox(p, d) ==
  LET gone == Descendants(d, seen[p]) IN
  /\ pc[p] = "delete"
  /\ \A c \in todo[p] : Under(d.name, c.name) => c.name = d.name
  /\ Ids(gone) \cap LockedRows(p) = {}
  /\ FiltersOn(Names(gone)) \cap LockedFilters(p) = {}
  /\ IF d.name \notin Names(server) THEN Refused(p)
     ELSE /\ server' = {b \in server : b.name # d.name}
          /\ tx' = [tx EXCEPT ![p] = [NoTx EXCEPT !.del = Ids(gone), !.off = FiltersOn(Names(gone))]]
          /\ todo' = [todo EXCEPT ![p] = @ \ {d}]
          /\ Goto(p, "commit")
          /\ UNCHANGED serial
  /\ UNCHANGED <<rows, target, enabled, holder, next, seen, boxes, history>>

Commit(p) ==
  LET t == tx[p]
      NewName(r) == IF r.id \in Ids(t.ren) THEN (CHOOSE x \in t.ren : x.id = r.id).name ELSE r.name
  IN /\ pc[p] = "commit"
     /\ rows' = {[r EXCEPT !.name = NewName(r)] : r \in {r \in rows : r.id \notin t.del}}
                  \cup {[id |-> serial, name |-> n] : n \in t.ins}
     /\ serial' = serial + Cardinality(t.ins)
     /\ target' = [f \in Filters |->
                     IF f \in t.off THEN NoBox
                     ELSE IF \E x \in t.follow : x.filter = f
                          THEN (CHOOSE x \in t.follow : x.filter = f).name ELSE target[f]]
     /\ enabled' = enabled \ t.off
     /\ doubled' = doubled \cup Twice(rows')
     /\ tx' = [tx EXCEPT ![p] = NoTx]
     /\ Goto(p, IF todo[p] # {} THEN "delete" ELSE "lock")
     /\ UNCHANGED <<server, holder, next, seen, boxes, todo, aim, missed, shown, count>>
---------------------------------------------------------------------------
(* load_mailboxes with a reload: sync_mailboxes under lock_by_name         *)

(* Faulty variant of GetLock: the lock is not waited for. *)
NoWait(p) ==
  /\ pc[p] = "lock"
  /\ holder' = {p}
  /\ Goto(p, "rows")
  /\ UNCHANGED <<data, local, history>>

GetLock(p) ==
  /\ pc[p] = "lock" /\ holder = {}
  /\ holder' = {p}
  /\ Goto(p, "rows")
  /\ UNCHANGED <<data, local, history>>

(* GET_LOCK returns 0 after its timeout, and nobody looks at the result. *)
LockTimeout(p) ==
  /\ pc[p] = "lock" /\ holder # {}
  /\ count.timeouts < MaxTimeouts /\ Bump("timeouts")
  /\ Goto(p, "rows")
  /\ UNCHANGED <<data, holder, local, aim, missed, shown, doubled>>

ReadRows(p) ==
  /\ pc[p] = "rows"
  /\ seen' = [seen EXCEPT ![p] = rows]
  /\ Goto(p, "list")
  /\ UNCHANGED <<data, holder, next, boxes, todo, tx, history>>

(* LIST.  The rows to delete are those whose name is not listed, of rows   *)
(* with the same name one only.                                            *)
ReadList(p) ==
  /\ pc[p] = "list"
  /\ IF Trash \notin Names(server) THEN Goto(p, "special") /\ UNCHANGED <<boxes, todo>>
     ELSE /\ boxes' = [boxes EXCEPT ![p] = Names(server)]
          /\ todo' = [todo EXCEPT ![p] =
                        {r \in seen[p] : r.name \notin Names(server) /\ Kept(r, seen[p])}]
          /\ Goto(p, "sweep")
  /\ UNCHANGED <<data, holder, next, seen, tx, history>>

(* Leaving, by the end of the request or an exception: lock_by_name        *)
(* releases the lock (a lock it does not hold is not released).            *)
Leave(p, label) ==
  /\ holder' = holder \ {p}
  /\ Goto(p, label)
  /\ seen' = [seen EXCEPT ![p] = {}] /\ boxes' = [boxes EXCEPT ![p] = {}]
  /\ todo' = [todo EXCEPT ![p] = {}] /\ tx' = [tx EXCEPT ![p] = NoTx]

(* A required mailbox is created; if it is there by now, the refusal ends  *)
(* the request.                                                            *)
CreateSpecial(p) ==
  /\ pc[p] = "special"
  /\ IF Trash \in Names(server) THEN
          /\ Leave(p, "idle")
          /\ next' = [next EXCEPT ![p] = "idle"]
          /\ UNCHANGED <<server, serial>>
     ELSE /\ server' = server \cup {[name |-> Trash, key |-> serial]}
          /\ serial' = serial + 1
          /\ Goto(p, "list")
          /\ UNCHANGED <<holder, local>>
  /\ UNCHANGED <<rows, target, enabled, history>>

(* Faulty variant of DestroyRow: the rows stay. *)
KeepRow(p, r) ==
  /\ pc[p] = "sweep" /\ r \in todo[p]
  /\ todo' = [todo EXCEPT ![p] = @ \ {r}]
  /\ UNCHANGED <<data, holder, pc, next, seen, boxes, tx, history>>

(* Faulty variant of DestroyRow: the filters lose their target only. *)
DestroyRowClearsName(p, r) ==
  /\ pc[p] = "sweep" /\ r \in todo[p]
  /\ r.id \notin LockedRows(p) /\ FiltersOn({r.name}) \cap LockedFilters(p) = {}
  /\ rows' = {q \in rows : q.id # r.id}
  /\ target' = [f \in Filters |-> IF target[f] = r.name THEN NoBox ELSE target[f]]
  /\ todo' = [todo EXCEPT ![p] = @ \ {r}]
  /\ UNCHANGED <<server, enabled, serial, holder, pc, next, seen, boxes, tx, history>>

(* destroy of a row whose mailbox is gone: the filters that name it are    *)
(* disabled.  (The rows read by a sync form no tree.)                      *)
DestroyRow(p, r) ==
  /\ pc[p] = "sweep" /\ r \in todo[p]
  /\ r.id \notin LockedRows(p) /\ FiltersOn({r.name}) \cap LockedFilters(p) = {}
  /\ rows' = {q \in rows : q.id # r.id}
  /\ target' = [f \in Filters |-> IF target[f] = r.name THEN NoBox ELSE target[f]]
  /\ enabled' = enabled \ FiltersOn({r.name})
  /\ todo' = [todo EXCEPT ![p] = @ \ {r}]
  /\ UNCHANGED <<server, serial, holder, pc, next, seen, boxes, tx, history>>

SweepDone(p) ==
  /\ pc[p] = "sweep" /\ todo[p] = {}
  /\ Goto(p, "save")
  /\ UNCHANGED <<data, holder, local, history>>

(* A listed mailbox that had no row when the rows were read gets one, in   *)
(* the order of the list, which has a parent before its children.          *)
InsertRow(p) ==
  LET missing == boxes[p] \ Names(seen[p])
      first   == CHOOSE n \in missing : \A m \in missing : Len(n) <= Len(m)
      row     == [id |-> serial, name |-> first]
  IN /\ pc[p] = "save" /\ missing # {}
     /\ rows' = rows \cup {row}
     /\ seen' = [seen EXCEPT ![p] = @ \cup {row}]
     /\ serial' = serial + 1
     /\ doubled' = doubled \cup Twice(rows')
     /\ UNCHANGED <<server, target, enabled, holder, pc, next, boxes, todo, tx, aim, missed, shown, count>>

(* Faulty variant of SyncDone: the lock is not released. *)
SyncDoneHolding(p) ==
  /\ pc[p] = "save" /\ boxes[p] \subseteq Names(seen[p])
  /\ Goto(p, next[p])
  /\ seen' = [seen EXCEPT ![p] = {}] /\ boxes' = [boxes EXCEPT ![p] = {}]
  /\ UNCHANGED <<data, holder, next, todo, tx, history>>

SyncDone(p) ==
  /\ pc[p] = "save" /\ boxes[p] \subseteq Names(seen[p])
  /\ Leave(p, next[p])
  /\ UNCHANGED <<data, next, history>>

Crash(p) ==
  /\ pc[p] # "idle"
  /\ count.crashes < MaxCrashes /\ Bump("crashes")
  /\ Leave(p, "idle")
  /\ next' = [next EXCEPT ![p] = "idle"]
  /\ UNCHANGED <<data, aim, missed, shown, doubled>>
---------------------------------------------------------------------------
(* The filter form, and other mail clients                                 *)

KeyOf(n) == IF n \in Names(server) THEN (CHOOSE b \in server : b.name = n).key ELSE NoKey

(* A filter is saved with a name of a list that may be out of date. *)
SaveFilter(f, n) ==
  /\ n # Inbox /\ ~Under(n, Trash)
  /\ \A p \in Requests : f \notin FiltersOf(p)
  /\ count.settings < MaxSettings /\ Bump("settings")
  /\ target' = [target EXCEPT ![f] = n] /\ enabled' = enabled \cup {f}
  /\ aim' = [aim EXCEPT ![f] = KeyOf(n)] /\ missed' = missed \ {f}
  /\ UNCHANGED <<server, rows, serial, holder, pc, local, shown, doubled>>

Outside ==
  /\ count.outside < MaxOutside /\ Bump("outside")
  /\ \/ \E n \in Foreign \ Names(server) :
          /\ server' = server \cup {[name |-> n, key |-> serial]}
          /\ serial' = serial + 1
     \/ \E b \in server, n \in Foreign :
          /\ b.name # Inbox /\ ~Under(n, b.name) /\ ~Taken(b.name, n)
          /\ server' = Renamed(server, b.name, n)
          /\ UNCHANGED serial
     \/ \E b \in server :
          /\ b.name # Inbox
          /\ server' = server \ {b}
          /\ UNCHANGED serial
  /\ UNCHANGED <<rows, target, enabled, holder, pc, local, aim, missed, shown, doubled>>
---------------------------------------------------------------------------
Change(p) ==
  \/ \E n \in Typed : CreateBox(p, n)
  \/ \E r \in seen[p], n \in Typed : RenameBox(p, r, n)
  \/ \E r \in seen[p] : TrashBox(p, r)
  \/ \E r \in seen[p] : DeleteBox(p, r)

SyncStep(p) ==
  \/ ReadRows(p) \/ ReadList(p) \/ CreateSpecial(p)
  \/ \E r \in todo[p] : DestroyRow(p, r)
  \/ SweepDone(p) \/ InsertRow(p) \/ SyncDone(p)

RequestStep(p) ==
  \/ Reread(p) \/ Browse(p)
  \/ p \in Changers /\ Change(p)
  \/ \E d \in todo[p] : DeleteMailbox(p, d)
  \/ Commit(p) \/ GetLock(p) \/ SyncStep(p)

Next ==
  \/ \E p \in Requests : Load(p) \/ RequestStep(p) \/ LockTimeout(p) \/ Crash(p)
  \/ \E f \in Filters, n \in shown : SaveFilter(f, n)
  \/ Outside

Spec == Init /\ [][Next]_vars

(* A request in progress runs on; the waiters of a MySQL named lock are    *)
(* served in turn, so that one is not passed over for ever.                *)
FairSpec ==
  /\ Spec
  /\ \A p \in Requests : WF_vars(RequestStep(p)) /\ SF_vars(GetLock(p))
---------------------------------------------------------------------------
TypeOK ==
  /\ \A b \in server : b.key \in 1 .. (serial - 1)
  /\ \A r \in rows : r.id \in 1 .. (serial - 1)
  /\ enabled \subseteq {f \in Filters : target[f] # NoBox}
  /\ holder \subseteq Requests /\ Cardinality(holder) <= 1
  /\ \A p \in Requests : pc[p] \in {"idle", "ready", "reread", "delete", "commit", "lock", "rows",
                                    "list", "special", "sweep", "save"}
  /\ \A p \in Requests : tx[p] # NoTx => pc[p] = "commit"

Idle == \A p \in Requests : pc[p] = "idle"

(* Two requests that find a mailbox without a row insert one row, not two, *)
(* as the first login must not (doc/CHANGES.txt:11): not after a request   *)
(* was killed either, nor when another client changes the list.  It takes  *)
(* a wait for the lock that timed out to break this, or a mailbox that is  *)
(* created or renamed in a transaction while a sync lists it.              *)
OneRowPerMailbox ==
  count.timeouts + count.creates + count.changes = 0
    => \A r, q \in rows : r.name = q.name => r = q

(* However the creations, renames, moves to the trash and deletions of     *)
(* overlapping requests mix, when all requests have ended the rows mirror  *)
(* the mailboxes of the server: every change is followed by a sync that    *)
(* reads what is there after it.  The exception is a name that two rows    *)
(* had: a sync deletes one row of a name.  What a killed request or        *)
(* another client has changed waits for the next sync, and without the     *)
(* lock a sync may write what is out of date.                              *)
QuietMirror ==
  Idle /\ rows # {} /\ count.crashes + count.outside + count.timeouts = 0
    => /\ Names(server) \subseteq Names(rows)
       /\ Names(rows) \ Names(server) \subseteq doubled

(* When one request at a time changes mailboxes and none is killed, a      *)
(* filter goes on naming the mailbox the user chose, through renames and   *)
(* moves to the trash, whatever other mailboxes take the old name and      *)
(* whatever syncs overlap, unless a rename missed it for one of the        *)
(* reasons that Misses has.                                                *)
FilterFollows ==
  Idle /\ count.crashes + count.outside + count.timeouts = 0
    => \A f \in enabled \ missed : aim[f] # NoKey
         => \E b \in server : b.name = target[f] /\ b.key = aim[f]

(* Under the same conditions no filter is disabled while the mailbox it    *)
(* was given still exists, unless that mailbox is in the trash, where it   *)
(* is being deleted, or its name is one that two rows had: a sync that     *)
(* overlaps a rename takes the old name for deleted, yet leaves the        *)
(* filters that followed the rename alone.                                 *)
DisabledOnlyWhenGone ==
  [][count.crashes + count.outside + count.timeouts = 0
       => \A f \in enabled \ (enabled' \cup missed) : target[f] \notin doubled
            => \A b \in server : b.key = aim[f] => Under(b.name, Trash)]_vars

(* Every request ends: neither the named lock nor the row locks block one  *)
(* for ever, and the creation of missing mailboxes comes to an end.        *)
RequestsEnd == \A p \in Requests : pc[p] # "idle" ~> pc[p] = "idle"
===========================================================================
