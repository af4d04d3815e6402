---------------------------- MODULE MailCache ----------------------------
(***************************************************************************)
(* What one user does with mails, over the cached headers in               *)
(* webmail_mail_nodes: lists, moves, copies, deletions, emptying the trash *)
(* (app/models/webmail/mail.rb, app/models/webmail/mail_node.rb,           *)
(* app/models/concerns/webmail/mailboxes/mail.rb,                          *)
(* app/models/concerns/webmail/mails/imap.rb,                              *)
(* app/controllers/webmail/admin/mails_controller.rb), with the folders    *)
(* that are renamed, created and deleted meanwhile.                        *)
(*                                                                         *)
(* A member of Boxes is the identity of a mailbox: named says which name   *)
(* it has, and a RENAME changes the name only.  Headers are cached under   *)
(* the name.  A session stays in the mailbox it has selected; SELECT is    *)
(* one step with the command that follows it.  The rows of                 *)
(* webmail_mailboxes (module Mailboxes) are taken to be up to date, but    *)
(* for a mailbox that another client has replaced.                         *)
(***************************************************************************)
EXTENDS ImapStore

CONSTANTS Names,       \* mailbox names
          NoName,      \* of a mailbox that does not exist
          Trash,       \* the name of the trash
          InTrash,     \* the names of the trash and of the mailboxes below it
          FirstNames,  \* [Boxes -> Names \cup {NoName}]: the mailboxes at the start
          FirstStore,  \* the messages at the start
          Requests,
          HasMove,     \* capability MOVE
          MaxAsked,    \* bound: what the user asks for: lists, moves, folders changed, ...
          MaxFaults    \* bound: requests cut short

ASSUME MailCacheAssumption ==
  /\ NoName \notin Names
  /\ InTrash \subseteq Names /\ Trash \in InTrash
  /\ FirstNames \in [Boxes -> Names \cup {NoName}]
  /\ FirstNames[Inbox] \in Names \ InTrash
  /\ \A a, b \in Boxes : FirstNames[a] = FirstNames[b] /\ FirstNames[a] # NoName => a = b
  /\ FirstStore \subseteq Message /\ IsFiniteSet(FirstStore)
  /\ \A r, q \in FirstStore : r.box = q.box /\ r.uid = q.uid => r = q
  /\ \A r \in FirstStore : /\ FirstNames[r.box] # NoName /\ ~r.deleted
                            /\ r.uid <= Cardinality({q \in FirstStore : q.box = r.box})
  /\ HasMove \in BOOLEAN

VARIABLES
  store, uidNext,   \* messages; UIDNEXT of each mailbox, 0 before it is created
  named,            \* the name of each mailbox
  nodes,            \* rows of webmail_mail_nodes: [name, uid, mail, by], by the request that wrote it
  pc, job,          \* where a request is, and its local variables
  shown,            \* the UIDs that the user's windows show under a name
  blurred,          \* history: names under which headers of another mailbox may be cached
  overlapped,       \* history: mailboxes listed by two requests at once, or during a rename
  discarded,        \* history: mails deleted from the trash, or by another client
  ahead,            \* history: whether a COPY named UIDs its mailbox had not given out yet
  asked, faults   \* history: how often the bounded events happened

count == <<asked, faults>>
vars == <<store, uidNext, named, nodes, pc, job, shown, blurred, overlapped, discarded, ahead, count>>
history == <<blurred, overlapped, discarded, ahead>>

Exists(n) == \E b \in Boxes : named[b] = n
BoxOf(n) == CHOOSE b \in Boxes : named[b] = n
InBox(S, b) == {r \in S : r.box = b}
Visible(b) == {r \in store : r.box = b /\ ~r.deleted}
MailsOf(S) == {r.mail : r \in S}

NoJob == [name |-> NoName, box |-> Inbox, uids |-> {}, want |-> {}, got |-> {}, dest |-> NoName, todo |-> {}]

Init ==
  /\ store = FirstStore
  /\ named = FirstNames
  /\ uidNext = [b \in Boxes |-> IF FirstNames[b] = NoName THEN 0 ELSE 1 + Cardinality(InBox(FirstStore, b))]
  /\ nodes = {}
  /\ pc = [p \in Requests |-> "idle"] /\ job = [p \in Requests |-> NoJob]
  /\ shown = [n \in Names |-> {}]
  /\ blurred = {} /\ overlapped = {} /\ discarded = {} /\ ahead = FALSE
  /\ asked = 0 /\ faults = 0

Goto(p, label) == pc' = [pc EXCEPT ![p] = label]
Counted == asked < MaxAsked /\ asked' = asked + 1 /\ UNCHANGED faults
Leave(p) == Goto(p, "idle") /\ job' = [job EXCEPT ![p] = NoJob]
Nodes(n, uids) == {x \in nodes : x.name = n /\ x.uid \in uids}
---------------------------------------------------------------------------
(* A list: paginate_mails, find_mails                                      *)

(* SEARCH or SORT UNDELETED *)
List(p, n) ==
  /\ pc[p] = "idle" /\ Exists(n)
  /\ UidsOf(Visible(BoxOf(n))) # {}
  /\ job' = [job EXCEPT ![p] = [NoJob EXCEPT !.name = n, !.box = BoxOf(n),
                                             !.uids = UidsOf(Visible(BoxOf(n)))]]
  /\ Goto(p, "select") /\ Counted
  /\ UNCHANGED <<store, uidNext, named, nodes, shown, history>>

Show(p) == shown' = [shown EXCEPT ![job[p].name] = @ \cup job[p].uids]

Filling(b) == {q \in Requests : pc[q] \in {"fetch", "import"} /\ job[q].box = b}

(* What is not in the cache has to be fetched. *)
Lookup(p, missing) ==
  /\ pc[p] = "select"
  /\ IF missing = {} THEN Leave(p) /\ Show(p) /\ UNCHANGED overlapped
     ELSE /\ job' = [job EXCEPT ![p].want = missing]
          /\ Goto(p, "fetch")
          /\ overlapped' = IF Filling(job[p].box) = {} /\ named[job[p].box] = job[p].name
                           THEN overlapped ELSE overlapped \cup {job[p].box}
          /\ UNCHANGED shown
  /\ UNCHANGED <<store, uidNext, named, nodes, blurred, discarded, ahead, count>>

(* Faulty variant of LoadFromCache: the UIDs found are fetched again. *)
LoadAndRefetch(p) == Lookup(p, job[p].uids)

LoadFromCache(p) == Lookup(p, job[p].uids \ UidsOf(Nodes(job[p].name, job[p].uids)))

(* FETCH of the headers, in the mailbox the session has selected *)
FetchHeaders(p) ==
  /\ pc[p] = "fetch"
  /\ IF named[job[p].box] = NoName THEN Leave(p)
     ELSE /\ job' = [job EXCEPT ![p].got = Named(store, job[p].box, job[p].want)]
          /\ Goto(p, "import")
  /\ UNCHANGED <<store, uidNext, named, nodes, shown, history, count>>

(* MailNode.import: INSERT without a look at what is there *)
Import(p) ==
  LET n == job[p].name IN
  /\ pc[p] = "import"
  /\ nodes' = nodes \cup {[name |-> n, uid |-> r.uid, mail |-> r.mail, by |-> p] : r \in job[p].got}
  /\ blurred' = IF named[job[p].box] = n THEN blurred ELSE blurred \cup {n}
  /\ Show(p) /\ Leave(p)
  /\ UNCHANGED <<store, uidNext, named, overlapped, discarded, ahead, count>>
---------------------------------------------------------------------------
(* The user's actions on mails shown under a name                          *)

(* MailNode.delete_nodes comes before the IMAP commands. *)
Begin(p, label, j) ==
  /\ pc[p] = "idle" /\ Exists(j.name)
  /\ j.uids # {}
  /\ Counted
  /\ nodes' = nodes \ Nodes(j.name, j.uids)
  /\ job' = [job EXCEPT ![p] = j]
  /\ Goto(p, label)
  /\ UNCHANGED <<store, uidNext, named, shown, history>>

(* move_mails *)
Move(p, n, dest, uids) ==
  Begin(p, "move", [NoJob EXCEPT !.name = n, !.uids = uids, !.dest = dest])

(* trash_mails: what is in the trash is deleted, the rest goes there. *)
TrashMails(p, n, uids) ==
  IF n \in InTrash THEN Begin(p, "delete", [NoJob EXCEPT !.name = n, !.uids = uids])
  ELSE Move(p, n, Trash, uids)

(* What the chosen messages become in mailbox d *)
Enter(S, d) ==
  /\ uidNext' = [uidNext EXCEPT ![d] = @ + Cardinality(S)]
  /\ store' = store \cup Arrivals(S, d, uidNext[d])

(* Faulty variant of MoveAll: without MOVE the messages are marked even    *)
(* when the COPY is refused.                                               *)
MoveAllUnchecked(p) ==
  LET j == job[p]
      from == BoxOf(j.name)
      S == Named(store, from, j.uids)
      d == BoxOf(j.dest)
  IN /\ pc[p] = "move"
     /\ IF j.name = j.dest \/ ~Exists(j.name) \/ (HasMove /\ ~Exists(j.dest))
        THEN Leave(p) /\ UNCHANGED <<store, uidNext, ahead>>
        ELSE IF HasMove
        THEN /\ store' = (store \ S) \cup Arrivals(S, d, uidNext[d])
             /\ uidNext' = [uidNext EXCEPT ![d] = @ + Cardinality(S)]
             /\ Leave(p) /\ UNCHANGED ahead
        ELSE /\ IF Exists(j.dest) THEN Enter(S, d) ELSE UNCHANGED <<store, uidNext>>
             /\ job' = [job EXCEPT ![p].box = from]
             /\ ahead' = (ahead \/ \E u \in j.uids : u >= uidNext[from])
             /\ Goto(p, "store")
     /\ UNCHANGED <<named, nodes, shown, blurred, overlapped, discarded, count>>

(* move_all: MOVE, or COPY and, when that is not refused, STORE + EXPUNGE *)
MoveAll(p) ==
  LET j == job[p]
      from == BoxOf(j.name)
      S == Named(store, from, j.uids)
      d == BoxOf(j.dest)
  IN /\ pc[p] = "move"
     /\ IF j.name = j.dest \/ ~Exists(j.name) \/ ~Exists(j.dest)
        THEN Leave(p) /\ UNCHANGED <<store, uidNext, ahead>>
        ELSE IF HasMove
        THEN /\ store' = (store \ S) \cup Arrivals(S, d, uidNext[d])
             /\ uidNext' = [uidNext EXCEPT ![d] = @ + Cardinality(S)]
             /\ Leave(p) /\ UNCHANGED ahead
        ELSE /\ Enter(S, d)
             /\ job' = [job EXCEPT ![p].box = from]
             /\ ahead' = (ahead \/ \E u \in j.uids : u >= uidNext[from])
             /\ Goto(p, "store")
     /\ UNCHANGED <<named, nodes, shown, blurred, overlapped, discarded, count>>

(* copy_mails *)
CopyMails(n, dest, uids) ==
  /\ Exists(n) /\ Exists(dest) /\ uids # {}
  /\ Counted
  /\ Enter(Named(store, BoxOf(n), uids), BoxOf(dest))
  /\ UNCHANGED <<named, nodes, pc, job, shown, history>>

(* STORE +FLAGS (\Deleted) of a move by COPY *)
StoreDeleted(p) ==
  /\ pc[p] = "store"
  /\ IF named[job[p].box] = NoName THEN Leave(p) /\ UNCHANGED store
     ELSE /\ store' = MarkDeleted(store, job[p].box, job[p].uids)
          /\ Goto(p, "expunge") /\ UNCHANGED job
  /\ UNCHANGED <<uidNext, named, nodes, shown, history, count>>

(* delete_all: the same after a SELECT *)
DeleteAll(p) ==
  LET b == BoxOf(job[p].name) IN
  /\ pc[p] = "delete"
  /\ IF ~Exists(job[p].name) THEN Leave(p) /\ UNCHANGED <<store, discarded>>
     ELSE /\ store' = MarkDeleted(store, b, job[p].uids)
          /\ discarded' = discarded \cup MailsOf({r \in Named(store, b, job[p].uids) : ~r.deleted})
          /\ job' = [job EXCEPT ![p].box = b]
          /\ Goto(p, "expunge")
  /\ UNCHANGED <<uidNext, named, nodes, shown, blurred, overlapped, ahead, count>>

ExpungeBox(p) ==
  /\ pc[p] = "expunge"
  /\ store' = Expunge(store, job[p].box)
  /\ Leave(p)
  /\ UNCHANGED <<uidNext, named, nodes, shown, history, count>>
---------------------------------------------------------------------------
(* Folders                                                                 *)

(* delete_mailbox: the cached headers, then the mailbox *)
Drop(n) ==
  /\ nodes' = {x \in nodes : x.name # n}
  /\ named' = [named EXCEPT ![BoxOf(n)] = NoName]
  /\ store' = store \ InBox(store, BoxOf(n))
  /\ discarded' = discarded \cup MailsOf(Visible(BoxOf(n)))

Renaming(n, new) ==
  /\ Exists(n) /\ ~Exists(new) /\ n \notin {named[Inbox], Trash}
  /\ Counted
  /\ named' = [named EXCEPT ![BoxOf(n)] = new]
  /\ blurred' = IF n \in blurred THEN blurred \cup {new} ELSE blurred
  /\ UNCHANGED <<store, uidNext, pc, job, shown, overlapped, discarded, ahead>>

(* Faulty variant of RenameFolder: update_mail_nodes is left out. *)
RenameFolderOnly(n, new) == Renaming(n, new) /\ UNCHANGED nodes

(* rename_mailbox and update_mail_nodes, one transaction *)
RenameFolder(n, new) ==
  /\ Renaming(n, new)
  /\ nodes' = {IF x.name = n THEN [x EXCEPT !.name = new] ELSE x : x \in nodes}

(* create_mailbox: a new mailbox, whose UIDs begin with 1 again *)
CreateFolder(n, b) ==
  /\ ~Exists(n) /\ uidNext[b] = 0
  /\ Counted
  /\ named' = [named EXCEPT ![b] = n]
  /\ uidNext' = [uidNext EXCEPT ![b] = 1]
  /\ UNCHANGED <<store, nodes, pc, job, shown, history>>

(* delete_mailbox, of a mailbox in the trash: its cached headers go too. *)
DeleteFolder(n) ==
  /\ Exists(n) /\ n \in InTrash \ {Trash}
  /\ Counted
  /\ Drop(n)
  /\ UNCHANGED <<uidNext, pc, job, shown, blurred, overlapped, ahead>>

(* Another client deletes a mailbox and makes a new one of that name       *)
(* between two synchronisations: the row and the cached headers stay.      *)
Replace(n, b) ==
  /\ Exists(n) /\ n \notin {named[Inbox], Trash} /\ uidNext[b] = 0
  /\ Counted
  /\ named' = [named EXCEPT ![BoxOf(n)] = NoName, ![b] = n]
  /\ uidNext' = [uidNext EXCEPT ![b] = 1]
  /\ store' = store \ InBox(store, BoxOf(n))
  /\ discarded' = discarded \cup MailsOf(Visible(BoxOf(n)))
  /\ blurred' = blurred \cup {n}
  /\ UNCHANGED <<nodes, pc, job, shown, overlapped, ahead>>
---------------------------------------------------------------------------
(* MailsController#empty                                                   *)

(* The mailboxes below the trash are those of the list loaded at the start *)
(* of the request.                                                         *)
Empty(p) ==
  /\ pc[p] = "idle"
  /\ Counted
  /\ job' = [job EXCEPT ![p] = [NoJob EXCEPT !.name = Trash,
                                             !.todo = {n \in InTrash \ {Trash} : Exists(n)}]]
  /\ Goto(p, "empty")
  /\ UNCHANGED <<store, uidNext, named, nodes, shown, history>>

EmptyFolder(p, n) ==
  /\ pc[p] = "empty" /\ n \in job[p].todo
  /\ IF Exists(n) THEN /\ Drop(n)
                       /\ job' = [job EXCEPT ![p].todo = @ \ {n}]
                       /\ UNCHANGED pc
     ELSE Leave(p) /\ UNCHANGED <<nodes, named, store, discarded>>
  /\ UNCHANGED <<uidNext, shown, blurred, overlapped, ahead, count>>

(* empty_mails: SEARCH UNDELETED, then delete_mails *)
EmptyMails(p) ==
  LET uids == UidsOf(Visible(BoxOf(Trash))) IN
  /\ pc[p] = "empty" /\ job[p].todo = {}
  /\ IF uids = {} THEN Leave(p) /\ UNCHANGED nodes
     ELSE /\ nodes' = nodes \ Nodes(Trash, uids)
          /\ job' = [job EXCEPT ![p].uids = uids]
          /\ Goto(p, "delete")
  /\ UNCHANGED <<store, uidNext, named, shown, history, count>>

(* A request is killed or its connection breaks. *)
Fault(p) ==
  /\ pc[p] # "idle"
  /\ faults < MaxFaults /\ faults' = faults + 1
  /\ Leave(p)
  /\ UNCHANGED <<store, uidNext, named, nodes, shown, history, asked>>
---------------------------------------------------------------------------
Acts(p) ==
  \E n \in Names : \E uids \in SUBSET shown[n] :
    TrashMails(p, n, uids) \/ \E dest \in Names : Move(p, n, dest, uids)

Folders ==
  \/ \E n, new \in Names : RenameFolder(n, new)
  \/ \E n \in Names, b \in Boxes : CreateFolder(n, b) \/ Replace(n, b)
  \/ \E n \in Names : DeleteFolder(n)

RequestStep(p) ==
  \/ LoadFromCache(p) \/ FetchHeaders(p) \/ Import(p)
  \/ MoveAll(p) \/ StoreDeleted(p) \/ DeleteAll(p) \/ ExpungeBox(p)
  \/ \E n \in job[p].todo : EmptyFolder(p, n)
  \/ EmptyMails(p)

Next ==
  \/ \E p \in Requests : (\E n \in Names : List(p, n)) \/ Acts(p) \/ Empty(p) \/ RequestStep(p) \/ Fault(p)
  \/ \E n, dest \in Names : \E uids \in SUBSET shown[n] : CopyMails(n, dest, uids)
  \/ Folders

Spec == Init /\ [][Next]_vars
---------------------------------------------------------------------------
TypeOK ==
  /\ store \subseteq Message /\ IsFiniteSet(store)
  /\ uidNext \in [Boxes -> Nat] /\ named \in [Boxes -> Names \cup {NoName}]
  /\ \A r \in store : r.uid < uidNext[r.box] /\ named[r.box] # NoName
  /\ \A r, q \in store : r.box = q.box /\ r.uid = q.uid => r = q
  /\ \A a, b \in Boxes : named[a] = named[b] /\ named[a] # NoName => a = b
  /\ \A p \in Requests : pc[p] \in {"idle", "select", "fetch", "import", "move", "store",
                                    "delete", "expunge", "empty"}

(* A cached header is never shown for another mail than its own, although  *)
(* nothing compares UIDVALIDITY: not after moves that overlap lists and    *)
(* leave headers of mails that are gone, nor after folders are renamed,    *)
(* deleted and made again.  The exceptions are exactly a list that fetches *)
(* from a folder while that folder loses its name, and a folder that       *)
(* another client has replaced.                                            *)
HeaderTrue ==
  \A x \in nodes : x.name \notin blurred =>
    \A r \in store : named[r.box] = x.name /\ r.uid = x.uid => r.mail = x.mail

(* A mail is listed twice (two rows of one header) only after two lists of *)
(* its mailbox were fetched at the same time, or one during a rename.      *)
NoRowTwice ==
  \A x, y \in nodes :
    x.name = y.name /\ x.uid = y.uid /\ x.name \notin blurred
      => x = y \/ \E b \in overlapped : named[b] = x.name

(* A mail leaves the account only by being deleted in the trash, whatever  *)
(* the user moves, trashes and empties in several windows, with or without *)
(* MOVE, and wherever a request is cut short.  The exception is a window   *)
(* of a mailbox that is gone: its UIDs are sent to the mailbox that has    *)
(* the name now, and without MOVE a UID that this one has not given out is *)
(* not copied, but is marked when a mail gets it in between.               *)
Held(m) == \E r \in store : r.mail = m /\ ~r.deleted
GoneOnlyFromTrash == ~ahead => \A m \in MailsOf(FirstStore) : Held(m) \/ m \in discarded
===========================================================================
