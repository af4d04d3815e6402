# Verification of Joruri Mail

TLA+ models, TLC configurations and TLAPS proofs about the webmail in `src/`
(Ruby on Rails, an IMAP server behind it, MySQL for rows and jobs, an LDAP
directory and Joruri Gw as sources of users). Paths below are relative to
`src/`.

## 1. The system

A browser talks to a Rails application. The application keeps almost nothing of
a mail: mails live on the IMAP server, named by mailbox and UID. MySQL holds
rows about them: mailboxes (a mirror of LIST), cached headers, filters, the
setting `last_uid`, temporary attachments, addresses, settings. `delayed_job`
workers run what requests leave behind; cron tasks copy users and groups from
a directory. Several requests of one user overlap all the time (windows, the
automatic refresh of the list, uploads), and other IMAP clients work on the same
account.

| Part | State | Operations | What makes it correct |
|---|---|---|---|
| Mail filters (`app/models/webmail/filter.rb`, `app/jobs/webmail/filter_job.rb`) | `webmail_filters`, conditions, setting `last_uid`, queued jobs | `apply_recents` on every list request, `apply` by hand, `FilterJob`, `register_spams` | each new mail is decided about once, by the first filter that matches; nothing is lost, doubled or skipped; only matching mails move |
| IMAP commands (`concerns/webmail/mails/imap.rb`, `concerns/webmail/mailboxes/mail.rb`) | messages, UIDs, flags on the server | search, fetch, move (MOVE, or COPY + STORE + EXPUNGE), copy, delete, empty | a mail leaves the account only from the trash |
| Mailboxes (`webmail/mailbox.rb`, `concerns/webmail/mailboxes/imap.rb`, `mailboxes_controller.rb`) | mailboxes on the server, `webmail_mailboxes` | create, rename, trash, delete, synchronise under a named lock | rows mirror the server, one row per mailbox, filters follow their mailbox |
| Header cache (`mail_node.rb`, `mail.rb`) | `webmail_mail_nodes` | fill, delete, rename | no header shown for another mail |
| Sending, drafts, attachments (`mails_controller.rb`, `mail_attachment.rb`, `mail_attachments_controller.rb`, `sys/file.rb`) | rows of `sys_files`, Sent, Drafts, flags of the mail referred to | upload, send, save as draft, answer, forward, garbage collection | sent once, with what the page listed; a draft is not lost; limits kept |
| Addresses and their history (`mail_address_history.rb`, `address.rb`, `address_group.rb`) | their tables | bounded history, forms | the limit is kept |
| Address selector (`public/_common/js/address_selector.js`) | the page: the form, lists, groups, results, calls under way | open, load, search, choose, OK, cancel | OK returns what was in the form; the form always comes back |
| Synchronisation (`sys/ldap_synchro.rb`, `system/product_synchro.rb`, their screens) | users and groups with a version, copies of the directory, backups, orders | copy, reset, walk, sweep; run from cron, from orders of Joruri Gw, by hand | nothing destroyed that is in the directory or the program's own; every order ends |
| Request context (`lib/core.rb`), signatures, templates, settings, quota, batch deletion, notifications, Net::IMAP extensions, MIME, other views and scripts | | | not modelled, see section 5 |

Interactions: the list request calls the filters, which issue IMAP commands
through `Core.imap`, read and write `last_uid`, and queue jobs for the excess;
the workers run the same code. Renaming a mailbox rewrites the filters that
target it and the cached headers; deleting one disables those filters; a
synchronisation of the list may do the latter on its own. Moving or deleting
mails deletes their cached headers first. Sending reads the rows of the
uploads, which other requests insert and delete meanwhile.

What is hard: overlapping requests between any two IMAP commands or database
statements; a move in three commands; requests and tasks killed in the middle;
values (UIDs, mailbox trees, `last_uid`, counts) used long after they were
read; errors that are swallowed; retries of jobs that had half succeeded; locks
whose result is ignored; answers to the browser out of order. The list, line by
line, is under `hazards` in `PROJECT.json`.

## 2. Modules

| Module | Models |
|---|---|
| `ImapStore` | the commands of the IMAP server as the code uses them (external) |
| `FilterRules` | `match?`, the choice of the first matching filter, the cut at the limit, slices |
| `FilterRecents` | `apply_recents`, `apply_uids`, `perform_action`, `FilterJob` under `delayed_job`, any number of requests and workers |
| `FilterPromise` | the abstract specification of the filters: where a mail is, and why it may leave the inbox |
| `FilterApply` | `Filter#apply` by hand, over subfolders, with its jobs and its report |
| `Mailboxes` | mailboxes and their rows, the transactions that change both, the synchronisation, filters that follow |
| `MailCache` | lists over cached headers; moving, trashing, copying, deleting, emptying; folders that come and go |
| `SendMail` | windows that write mails: uploads, sending, saving, what happens after the mail is out, the history of addresses |
| `Synchro` | copying the directory, walking over it, sweeping; orders of Joruri Gw; the screens |
| `AddressSelector` | the address book beside the mail form, in the browser |
| `ImapStoreTheorems`, `FilterRecentsProofs`, `FilterApplyProofs`, `MailboxesProofs`, `MailCacheProofs`, `SendMailProofs`, `SynchroProofs`, `AddressSelectorProofs` | lemmas and theorems |
| `MCFilterRecents`, `MCFilterApply`, `MCMailboxes`, `MCMailCache`, `MCSendMail`, `MCSynchro`, `MCAddressSelector` | instances for TLC |

`FilterRecents`, `FilterApply` (through `FilterRules`) and `MailCache` extend
`ImapStore`. `FilterRecents` instantiates `FilterPromise` under the refinement
mapping `place <- Place`.

In every module an IMAP command, a database statement or a call of the browser
is one step, and a process has a label `pc` and copies of the local variables
that live over steps. Operators whose comment begins with "Faulty variant" are
not part of the specification: each changes one definition the way a bug could,
and shows that the property named next to it in `PROJECT.json` notices it.
Variables marked "history" only record; no guard of the code's steps reads them.

### FilterRecents

A request goes `idle`, `status` (setting read), `search` (UIDNEXT read),
`fetch` (a slice to be fetched and matched), `act` (an action to run; `store`,
`expunge` on a server without MOVE), `handoff` (jobs), `save`. A worker starts
at `first` with the UIDs of its job and loads the filters when it walks over
them. The variables `cur`, `top`, `fresh`, `loaded`, `todo`, `rest`, `matched`,
`acts` are `curr_uid`, `last_uid`, whether the setting was built, `filters`,
`process_uids`, `delay_uids`, `matched_uids` and the part of the loop over the
filters that is still to come. `settled` is history: the UIDs about which a
decision was taken (already read, nobody's, action failed, job given up).
The target of a filter is never the inbox: the form does not offer it
(`filter_targetable_box?`) and Trash is another mailbox.

Left out: the texts of headers (a condition is the set of mails it hits), the
deletion of cached headers, more than one account. The UNSEEN search makes a
mail that was read meanwhile a decided one; this is what the code does.

### FilterApply

One application by hand. `matched` is kept over slices and over mailboxes, as
`matched_uids` is in the code, so the same UID means different mails in
different mailboxes. Trash is assumed not to lie below a mailbox the form
offers (the default `mailbox_map`); with another map `trash_mails` would delete
there instead of moving.

### Mailboxes

A name is the sequence of its titles. A mailbox on the server has a key that a
RENAME keeps; a row has an id. `tx` is what an open transaction has written and
others cannot see, `LockedRows` and `LockedFilters` what they must wait for (all
locks of a transaction are taken at once: a deadlock MySQL would detect and roll
back shows as a wait). `Trash` stands for the five required special-use
mailboxes. `aim` is history: the key of the mailbox the user chose for a filter;
so is `missed`: the filters below a renamed mailbox that the rename does not take
along (`Misses`: of two rows of a name the one without the children is renamed, a
mailbox on the way is missing from the list, or `validate_title` refuses a title).
Two rows may come to bear one name (a sync beside a creation or a rename);
`Kept` is the one that `index_by` leaves, in the sync and in `make_tree`, and
`doubled` records such names.
`load_mailbox` has no caller and is not modelled.

### MailCache

A mailbox has an identity (`Boxes`) and a name (`named`); headers are cached
under the name, commands go to the mailbox a session has selected. A list goes
`select` (UIDs searched), `fetch`, `import`; an action `move`, `store`,
`expunge` or `delete`, `expunge`; emptying the trash `empty`, then `delete`.
`shown` holds the UIDs that any window of the user still shows: an action may
come long after the list. The rows of `webmail_mailboxes` are taken to be up to
date (they are the subject of `Mailboxes`), except for a mailbox another client
has replaced by one of the same name.

The exceptions in the properties are the cases in which the code does go wrong,
each recorded by a variable of its own: `blurred` (a list imports headers while
the folder loses its name, or another client replaces the folder; nothing
compares UIDVALIDITY), `overlapped` (two lists of a mailbox import the same
headers; the table has no unique index), `ahead` (a window of a mailbox that is
gone sends its UIDs to the one that has the name now; without MOVE a UID not
given out yet is not copied, but is marked when a mail gets it in between).

### SendMail

A window's page is `closed`, `form`, `wait` (submitted) or `done`; its request
goes `put` (deliver, or append to Drafts), `clean` (temporary attachments
deleted), `history`, `count`, `cut` (the history of addresses), `yield` (the
draft deleted, the flag set), `copy` (append to Sent), back to `idle`. `rows`
are the rows of `sys_files`, `listed` the files the page shows: they differ
while uploads are under way, after the garbage collection and after errors. An
error after the mail is out shows the form again (`ShowForm`), a killed request
leaves the page as it was; either may happen while the attachments are being
destroyed, row by row (`BrokenOff`). Sizes are in one unit; the copies of the
attachments of a draft or forwarded mail that fit are chosen by their order, which is
abstracted to any choice to which none of the others could be added.

Exceptions in the properties: a killed request may have deleted the files of a
page that still lists them; files of a window open for two days are collected;
attachments beyond the limit, and those that could not be stored (a blank name, a
failed write), are left out without a word when a draft is opened
(`init_tmp_attachments_from_ref` ignores the answer of `save_file`, so editing
and saving such a draft does lose them: `leftOut`); an aborted upload runs on in
the server beside the next one (`crowded`).

### Synchro

A process is at `copy`, `backup` (orders only), `sync` (versions reset), `walk`,
`users`, `groups` (the sweep). The tables are functions from codes to what
decides over a row: parent, whether it is the directory's (`ldap`), whether it
bears a version (`current`), state, groups. The walk is the depth-first order
of the code (users of a group, then groups below it) over lists that are read
when they are come to, so that a version destroyed or still being copied gives
a shorter walk. Each row is saved by its own statement; there is no lock and no
transaction around anything. `Below` is the list of the children or users of a
row, `Subtree` what `dependent: :destroy` takes along with a group: the least set
closed under children, defined without recursion so that it can be reasoned
about. `destroy_all` has read its groups before it destroys the first, so it comes
to a group a second time that went with one above it; the rows of
`sys_users_groups` are deleted with neither (`left` has those whose group is gone),
and `disable_users` counts again what groups the users of such a group have left
(`Again`). `twice` and `unsaved` are history: the groups destroyed a second time,
and the users whose disabling could not be saved. A row is known by its code, so a
group made again under the code of a destroyed one is taken for it, where the
program would give it another id. The LDAP server holds one of `LdapTrees`, Joruri Gw has versions of
`GwTrees`; every tree hangs on the root (`TreesAssumption`: rows that do not are
never come to, neither in the directory nor among the rows of Joruri Gw, where
the walk starts below the root), and is listed in the order of the walk
(`OrderAssumption`). That takes nothing away: what a walk reads are the children
and the users of one row, in the order they have among themselves, so that every
tree can be listed so. What it does assume of a tree is that a group has one place
and that no row is there twice; `above` is a code, so that the model could not tell
two groups of one code apart. `Apart` are the groups of the tree that the program has had as its
own, which the walk does not save.

Exceptions in `LocalUsersKept`: a user of the program's own who has lost the last
group stays enabled when the save of the disabled row is refused (`unsaved`;
`group.rb:109` does not look at the answer), and one who still has a group is
disabled when another group of the user is destroyed a second time (`twice`).

Exception in `BackedUp`: a group that is not in the backup may go only along
with a group of the program's own that is destroyed above it. This does happen:
the tree names a group the program has as its own below one that vanishes; the
walk leaves that group where it is but saves what the tree holds below it, and
the sweep of the vanished group takes all of it.

### AddressSelector

The page as `address_selector.js` keeps it. `parses` and `calls` are the
requests under way; their answers come in any order, or fail. `loaded` counts
the elements in the page of each group: two elements of the same id are what
`removeSearchGroup` could never remove. `want` is history: the addresses as the
user left them; `astray` holds the fields the code does not get right: all of them
when the selector is opened again before the answer, when a call fails or when the
session has expired, and otherwise those whose addresses the server cannot parse.
Each of to, cc and bcc is parsed and rescued on its own, so that some may come
back empty beside others that do not (`ParseNothing`); OK then empties them in the
form.

## 3. Runs

| Run | Instance | Shows |
|---|---|---|
| `recents_slices` | 3 mails (the job gets 2, in slices of 1), 2 filters, 2 requests, 1 worker, MOVE, 1 fault | `TypeOK`, `NoMailDoubled`, `NoMailSkipped`, `ActsOnOwnMatches`, and `PromiseKept`: the detailed specification implements `FilterPromise` |
| `recents_live` | 2 mails, no MOVE, 1 request refreshed for ever, 1 worker, 2 attempts, 1 fault, 1 edit, the user files and reads mails | `NoMailLost`, `JobsDrain`, `EveryMailExamined` under `RefreshSpec` |
| `apply_pass` | 4 mails in the inbox and a subfolder, slices of 2, 3 at once, another client moves 2 | `OneFolderMovesOnlyMatching`, `ApplyComplete`, `ReportAddsUp` |
| `apply_subfolders` | all 4 at once | `MovesOnlyMatching` is violated (finding) |
| `mailboxes_mirror` | folders A, A/x with a title that is refused; 2 first requests, 2 renames, trashings or deletions | `QuietMirror`, `RequestsEnd` under `FairSpec` |
| `mailboxes_rename` | 1 request with 1 creation and 2 changes, 1 that reloads, 1 filter | `TypeOK`, `QuietMirror`, `FilterFollows`, `DisabledOnlyWhenGone` |
| `mailboxes_login` | an account with only an inbox, 2 first requests, another client, 1 kill, 1 lock not granted | `OneRowPerMailbox` |
| `cache_actions` | inbox and folder with a mail each, trash, a mailbox that may be created; 2 windows, 5 things asked, 1 fault, no MOVE | `HeaderTrue`, `NoRowTwice`, `GoneOnlyFromTrash` |
| `send_windows` | a draft with 2 attachments of which 1 fits, a mail to forward, 2 windows, 2 uploads, 1 fault (an attachment not stored, an error, a kill) | `AttachmentsTravel`, `OutOnce`, `DraftKept`, `LimitKept`, `HistoryBounded` |
| `synchro_orders` | 5 groups, 3 users (one of the program's own in two groups), three trees, the task of the orders beside an administrator, 1 order, 1 change, 1 fault | `LocalUsersKept`, `ListedAreSpared`, `BackedUp`, `SuccessMirrors`, `OrdersEnd` under `FairSpec` |
| `synchro_screen` | the screen of Joruri Gw alone | `VanishedGroupsGo` is violated (finding) |
| `address_selector` | 2 fields, 2 books, a group, an address, 2 openings, 2 searches, 1 edit, 1 failure | `FormComesBack`, `NoGroupTwice`, `AllBoxTrue`, `OkGivesBack`, `LoadsEnd` under `FairSpec` |

Symmetry: `recents_slices`, `mailboxes_login` and `cache_actions` over the
requests, `send_windows` over the files (of the same size, both in the draft):
there no action, constant or property tells them apart. Runs with a liveness
property use none.

Deadlock is not checked: when the bounded events are used up and everybody is
idle the system has nothing left to do.

Why the bounds are enough for the cases meant: one UID at once leaves the
second and third of three mails to a job of two slices, whose later slice acts
on the UIDs of the earlier one again; two filters that both match one mail need
the order of filters; two requests and a worker give three concurrent passes
over the same UIDs. A folder with a subfolder, a name that is given up and taken
again, and two requests are the smallest tree in which children, stale trees and
reuse of names occur. In `cache_actions` five events are a list, a deletion of
the folder, its creation anew, an arrival there and a second list, the shortest
way to a header under a UID that is given out again. In `send_windows` both
windows edit the same draft, so that one deletes what the other still shows, and
the second upload makes the limit matter. In `synchro_orders` a group moves up
while the one above it vanishes, a user of the directory moves with it, another
tree lacks the group below, and a group of the program's own with its user hangs
below the vanishing group: every kind of row the sweep treats differently. A third
tree, which only Joruri Gw has, names that group of the program's own with a new
group below it, and neither of the first two: the sweep comes to the lower one of
these a second time, and a user of the program's own is in it and in a group that
stays. In `address_selector` two fields are the fewest of which one can come back
empty beside another. Each bound is a constant and a guard on events from outside
(faults, edits, changes, clicks), with one exception: `JobSlots`, the number of
jobs that may be in the queue, is a guard of `EnqueueJob`, so that a request waits
for a free slot where the program would insert another row.

Fairness: a request in progress runs on (`WF` on its steps), a worker keeps
polling its queue (`WF`); `RefreshSpec` adds the browser's automatic refresh,
which keeps sending list requests. `Mailboxes` assumes `SF` for taking the named
lock: MySQL serves its waiters in turn. `Synchro`: cron runs the check over and
over, and a check that runs goes on (`WF` on the steps of the processes that run
checks; nothing is assumed of the administrator's). `AddressSelector`: each call is answered or
fails, as the browser's time limits guarantee. No fairness anywhere for the
user, faults or the start of other requests.

Findings:

- `apply_subfolders` (`filter.rb:231`): with subfolders included, UIDs matched
  in one folder move or delete other mails in the next.
- `synchro_screen` (`product_synchros_controller.rb:40`): the screen of Joruri
  Gw deletes no group that is gone, although `doc/CHANGES.txt:29` says that this
  is repaired; the condition in `ldap_synchro.rb:58` is the right one.

Stronger statements that the models refute, and why the properties and runs are
drawn as they are:

- Filters: the job that an application by hand leaves for the mails beyond the
  limit is not given the filter; it loads all that are enabled when it runs
  (`filter_job.rb:8`, `filters_controller.rb:63`), so other filters than the
  chosen one move those mails.
- `OneRowPerMailbox` when the lock is refused while another synchronisation
  holds it: `GET_LOCK` gives up after 30 seconds and its result is not looked at
  (`application_record.rb:15`), both requests insert. Also with `MaxCreates = 1`
  or with two renaming requests: CREATE and RENAME take effect on the server
  before the row is committed, and a sync in between inserts a row of its own.
- `QuietMirror` without its exception: of rows with the same name one sync
  deletes one, so a stale row of a name in `doubled` may last until the next
  sync.
- `FilterFollows` and `DisabledOnlyWhenGone` for the filters in `missed`. Of two
  rows of a name one has all the children (`make_tree`, imap.rb:174), and a rename
  through the other, which the list shows as well, renames the children on the
  server but not their rows and filters (it takes `MaxCreates = 2`). A mailbox that
  is listed while its parent is not is a child of nothing, so a rename of a
  mailbox above it does the same (from `Existing` = INBOX, Trash, B and B/x/y; the
  instances begin with a list that is closed under parents, as this program makes
  it). A child whose title `validate_title` refuses is not saved with its parent,
  and a mailbox with such a title takes no child along. In each case the filter
  keeps a name that is gone, and the next sync disables it.
- `DisabledOnlyWhenGone` without its exception for `doubled`: a sync has a row left
  over of a name that two rows had on its list of rows to delete; a mailbox is
  renamed to that name before it comes to it, with its filters, and they are
  disabled (with `MaxCreates = 2`, `MaxChanges = 2`, `Existing` = INBOX and Trash).
- both of them with two changing requests: a rename of the parent from a list read
  before a rename of the child saves the child's old path; the next sync deletes
  that row and disables the filters, or the filter keeps a name that is gone.
- both of them with a request killed between RENAME and commit, with another client
  or with a lock that was not granted: the filters keep the old name, and the next
  sync disables them.
- `HeaderTrue`, `NoRowTwice`, `GoneOnlyFromTrash`, `AttachmentsTravel`,
  `LimitKept`, `OkGivesBack` without their exceptions, see section 2.
- `ListedAreSpared` for overlapping synchronisations: each resets the versions
  the other has set, and sweeps what the other has not marked yet.
- the same for a version that lacks refused rows, that is still being copied or
  has been destroyed: `run` and the screen of the versions synchronise it all the
  same (an order of Joruri Gw stops when a row was refused).
- `ListedAreSpared` for groups when a group of the tree is the program's own
  (`ldap = 0`) and lies under a group that vanishes: it is destroyed with it
  (`dependent: :destroy`), with everything below it.
- `BackedUp` without its exception: what the walk has just saved below such a
  group is destroyed with it and in no backup.
- a disabled user who is listed again stays disabled.
- `LocalUsersKept` without its exceptions: B is below A, both vanish, and a user of
  the program's own is in B and in M, which stays. The sweep destroys A with B, then
  B again, and as the user has one group left the user is disabled
  (`ldap_synchro.rb:58`, `group.rb:106`). When the save of the disabled row is
  refused, the user stays enabled without a group.
- `DraftKept` without `leftOut`: an attachment that could not be stored when the
  draft was opened is lost when the draft is saved.
- `OkGivesBack` without `astray` for a field: one that could not be parsed is
  emptied, whatever the others hold.

Steps that are taken together, and what is abstracted, where the code is finer:

- `Backup` copies the three tables in one step when it succeeds, and `Reset` is two
  `update_all`; `MailCache.RenameFolder` is RENAME and the commit of the rows (they
  are apart in `Mailboxes`).
- In `Mailboxes` a synchronisation inserts the shortest names first, so that a
  parent comes before its children, as in `sort_list`, whose order among names of
  one length is not kept; of two rows of a name `Kept` is the one with the highest
  id, where `index_by` takes the last in the order of `sort_no`; what is below a
  mailbox (`Under`) goes by the name, where the program follows the parents of the
  tree it has made, whose gaps are in `Misses`.
- `FilterApply` counts the mails acted on (`applied`) as a set, the
  program as the length of a list in which a UID of two folders may be twice; the
  two agree when one folder is searched. `ReportAddsUp` speaks of the counts of
  mails found, processed and delayed, not of `applied`.
- `FilterRecents.PerformMove` into the trash takes the trash to exist: the required
  mailboxes are made whenever the mailboxes are loaded (`filter.rb:108` does nothing
  without).

## 4. Proofs

Every theorem holds for all values of the constants that satisfy the `ASSUME`s
of the modules; no bound is used.

`FilterRecentsProofs` (any sets of mails, mailboxes, requests and workers; a
finite set of filters; with or without MOVE):

- `TypeCorrect`: `Spec => []TypeOK`. Besides the types this says that a failing
  job is dropped before its attempts reach the maximum and that a worker that is
  running holds a job; finiteness of the store, which makes UID assignment
  meaningful, is part of it.
- `MailNeverLost`: `Spec => []NoMailLost`. `NoMailLost` alone is not inductive:
  a process that has copied its mails is about to mark the originals, and
  another may move or expunge the copies' originals first. The invariant
  `LossInv` adds that every UID a process has collected is below UIDNEXT of the
  inbox (`UidsBelowNext`: UIDs are not reused, so a UID collected earlier never
  comes to name a later copy), and that every delivered mail has a copy without
  \Deleted which no process between its COPY and its STORE is about to mark
  (`SafeCopy`). From there the proof has one lemma per kind of step: quiet steps,
  MOVE, COPY, STORE, EXPUNGE.

- `FiltersActOnOwnMatches`: `Spec => []ActsOnOwnMatches`. A UID noted slices
  ago must still name the mail it named: `StoreInv` adds that a UID names one
  message, and each step is shown to leave what is in the inbox where it was or
  to put it at or above UIDNEXT (`StoreGrows`). Processes that have not come to
  their slices have matched nothing (`MatchInv`).
- `NewMailsCovered`: `Spec => []NoMailSkipped`. The property speaks of
  `last_uid` only; what makes it true when a request stores `last_uid` is that
  the request answers for every mail up to the UIDNEXT it read: settled, queued,
  left to a job, still in its lists, or matched for an action that has not run
  (`RequestCovers`), and that a worker answers likewise for the job it holds
  (`WorkerCovers`). `PhaseInv` says at which point of the program which list is
  in use, and that what EXPUNGE removes is marked; `JobsApart` that two workers
  do not hold the same job. UIDs that leave the inbox do not come back
  (`NoneRevived`), so a stale list harms nobody.
- `OneCopyWithMove`: `HasMove /\ Spec => []NoMailDoubled`. The hypothesis is a
  constant of the instance, whether the server has MOVE; without it a second
  copy between COPY and EXPUNGE is what the code makes.
- `FiltersKeepPromise`: `HasMove /\ Spec => PromiseKept`, the refinement of
  `FilterPromise` under `place <- Place`: deliveries, moves of the user and moves
  of an action map to the promise's three steps, every other step changes no
  place. With `NoMailDoubled` the choice in `Place` is of one message.
  `OutsideAssumption` (the place of a mail not delivered is no mailbox) is used
  here only.

`FilterApplyProofs` (any filters, mails, mailboxes, subtrees, slices, limits,
moves and faults; a finite store at the start): `MovesWhatMatches`,
`NothingForgotten`, `CountsAddUp`, that is `OneFolderMovesOnlyMatching`,
`ApplyComplete` and `ReportAddsUp`. The inductive invariant is `Inv`:

- `Server` and `Search`: a UID names one message, and the mails found are below
  UIDNEXT of their mailboxes, so that no later arrival is taken for one of them
  (`FoundStay`).
- `Stage`: actions are left only while a slice is under way, and the request has
  loaded the chosen filter only.
- `Handled`: of the mails the request handles itself each one that is still where
  it was found is excused for the reasons of `ApplyComplete`, or still to be
  fetched, or matched for an action that has not run in this mailbox.
- `Counted`: what the report counts are the two parts of the mails found. That
  the first respects the limit is `ScheduledFacts`: the number of mails that come
  before a mail in the order of the schedule is a bijection onto 0 .. n - 1, so
  the cut keeps exactly the limit when it leaves one out.
- `InOneBox`: with the mails found in one mailbox, every collected UID is one
  found there and names a mail the filter matches. Over several mailboxes it is
  false, which is the finding of `apply_subfolders`.

`MailboxesProofs` (any titles, names, requests, filters and bounds):

- `TypeCorrect`: `Spec => []TypeOK`, from `Types`, which adds that rows and
  mailboxes bear names, ids and keys are below `serial`, and what a transaction
  has written fits the tables.
- `OneRowUnderLock`: `Spec => []OneRowPerMailbox`. `Locked`: a request between
  reading the rows and the end of its sync has the lock, if no wait timed out;
  `SingleRows`: what has a row was then seen by the request that may add rows.
- `RowsMirrorServer`: `(AllKnown \/ NoneKnown) /\ Spec => []QuietMirror`. The
  hypothesis is about the start: all mailboxes have their rows, or the account
  has none yet (a difference that was there before any request is one another
  client has made). `Mirroring` says, as long as no request has a change or the
  reading of the rows before it (`Settled`): with no sync under way the rows
  mirror the server, and a sync under way has read the true rows, then the true
  list, and lacks just the rows it still has to delete or insert (`Swept`).
  `Types`, `Locked`, `DoublesKnown` and `NoTrash` carry this through the steps of
  the sync; `ChangersWrite` says that none but `Changers` ever has a change.
- `FiltersFollow`: `OneChanger /\ AllKnown /\ Spec => []FilterFollows`, and
  `DisabledWithMailbox`: `OneChanger /\ AllKnown /\ Spec => DisabledOnlyWhenGone`,
  for one request that changes mailboxes beside any number that synchronise, and
  with all rows there at the start. Both from `FollowInv`: a filter names the
  mailbox it was given, or will with the commit of the transaction that is open
  (`Following`), unless that is going to disable it, and then the mailbox is in
  the trash. A rename keeps this because the request that renames has seen a row
  of each mailbox (`Prepared`), which is where its tree leads (`TreeReaches`); this
  in turn because while it rests no sync loses the row of a mailbox (`KeptUp`,
  on top of `Mirroring`). A sync keeps it because the rows it is to delete name
  no mailbox, and while the one request is not at rest none gets their name
  (`Doomed`). Two more parts are about what a deletion reaches (`TrashOnly`) and
  about keys (`Keyed`). Without `OneChanger` both properties are false (section 3).
  At a first login, without `AllKnown`, a request may begin with the rows another
  sync has inserted so far: `Prepared` is false, a child that has no row yet is not
  renamed with its parent, and the next sync disables its filters
  (`DisabledOnlyWhenGone` fails with `Known` empty and 1 change).

`MailCacheProofs` (any mailboxes, names, mails and requests; a finite store at
the start, with no message marked; with or without MOVE, of which the run has only
the second): `HeadersTrue` and `MailsKept`, that is `HeaderTrue` and
`GoneOnlyFromTrash`. The inductive invariant is `IndInv`:

- `Types`: UIDs are below UIDNEXT and name one message, no two mailboxes share a
  name, and a mailbox with a name has been created, so that a mailbox made anew is
  none of those that headers were fetched from.
- `Fetched` and `Cached`: a header that a request holds, or that is cached under a
  name that is not blurred, is below UIDNEXT of its mailbox, and the message there
  with its UID, if there still is one, is of its mail. Being below UIDNEXT is what
  `HeaderTrue` lacks: without it a header of a mail that is gone could meet a later
  arrival.
- `MailsSafe`: a mail is discarded, or has a message that is not marked and that no
  request between its COPY and its STORE aims at; `ThreatsKnown` says that those
  requests aim below UIDNEXT, so an arrival is never aimed at.

`RowsOnce` is `NoRowTwice`. Nothing in the table keeps two equal rows apart;
`RowsApart` says why they do not come: but for the mailboxes in `overlapped` one
list at a time fills a mailbox (`OneFiller`), it waits only for UIDs that are not
cached (`AwaitedNew`), and the headers it has got are of different UIDs
(`GotApart`).

What a step does to the store is stated once (`StoreGrows`: what is there was there
under the same UID, or is at or above UIDNEXT); the steps of the other parts use
that instead of the commands.

`SendMailProofs` (any windows, files, mails and sizes, any number of uploads and
faults; finitely many windows and files): `AttachmentsArrive`, `SentOnce`,
`DraftsSafe`, `HistoryWithinLimit`, that is `AttachmentsTravel`, `OutOnce`,
`DraftKept` and `HistoryBounded`, and `AttachmentsWithinLimit`, that is
`LimitKept`. The inductive invariant is `Hold`, on top of the types (`Shape`):

- `Turns`: a page waits exactly while its request runs, and until a request has
  let the mail out nothing is out, unless the user was told of an error, or
  nothing. `OutOnce` follows.
- `UploadsApart` and `ListedThere`: an upload that has not stored its file is the
  only one of it and the file is not there; therefore an answer lists a file
  that is there, removing it cannot be undone by a late upload, and what a
  request was given is there when it is delivered. `AttachmentsTravel` follows.
- `DraftThere`: what is left of the draft a window edits (but for `leftOut`) is in
  its list, then in its request, then out. When the draft is deleted, the request is past `put`,
  so it is out. `DraftKept` follows.
- `OwedOnly`: the history exceeds its limit by what `Owing` requests have added
  at most. `HistoryBounded` counts all requests between their insertion and
  their deletion and is not inductive: one that counted when there was nothing
  to delete keeps counting as such while others insert. `Owing` leaves it out:
  at that moment the history is within its limit, and each later insertion is
  owed by the request that made it.

`AttachmentsWithinLimit` adds `AllFit` to it: in a window that is not crowded all
uploads under way are of one file, and a file that was found to fit and is not
stored yet still fits beside what is stored. `LimitKept` alone is not inductive,
because the size is looked at before the file is stored. `Total` counts the bytes
of the files as the elements of a set, so that what it needs (`TotalLess`,
`TotalNone`, `TotalMore`) follows from the library's facts about cardinality, where
a sum over a set would need an induction.

What a single step can do to what is out, to drafts and to flags is stated once
(`Lasting`), with one case per action; the preservation of the properties
themselves is then proved without looking at the actions again.

`SynchroProofs`: `LocalUsersSafe`, that is `LocalUsersKept`, however many
processes overlap. The strengthening `Inv` adds that a process in its sweep of
users has no user of the program's own on its list (`DoomedForeign`: the list
was read when it got there, and no step turns a user of the program's own into
one of the directory). `DestroyGroup` is the step with work in it: who loses the
last group is disabled or in `unsaved`; who is disabled with a group left has the
destroyed one in `left`, and that group has just come into `twice`; both sets only
grow for such a user.

`SweepsOnlyBackedUp`, that is `BackedUp`. The invariant `BackInv` has three
parts. `Types`: the types of the tables, versions and jobs, among them that what
is left of a walk consists of rows whose groups are groups. `Sharing`: a process
that is not `mixed` is the only one at the tables, so that nothing but its own
steps changes them since its backup. `Backing`: for such a process of an order,
everything without a version is in the backup as it is; what it saves bears the
version; the rows its walk is at lie below groups that are not outdated, because
each was saved, or is the program's own, when the walk came to it. A group that
the sweep takes along is then outdated itself, so in the backup, or it hangs on a
chain of parents that passes a group of the program's own: `Subtree` is the least
closed set, and the set of the groups of which this is true is closed.

`ListedSpared`, that is `ListedAreSpared`. Two further invariants are needed.
`CopyInv`: a version that nobody is copying, of which no row was refused and
which was neither destroyed nor used too early nor copied from a directory that
changed, holds exactly the rows of its tree (`CopiesWhole`). `SpareInv`: the walk
of a clean process has been at a set of rows `S` such that whatever is below `S`
is in `S` or on its list (`Walks`, the invariant of the copy as well), and of `S`
no user and no group is outdated and no group of the directory hangs on a group
outside the tree (`Hung`). When the list is empty, `S` is closed under children
and holds what is below the root, so it is the whole tree: this is where
`TreesAssumption` is used. The lists of the sweep then name nothing of the tree,
and what a destroyed group takes along is outside it too, since the groups of
the tree hang on groups of the tree, the root or nothing. That other processes
do not spoil this is `Sharing` again.

`SuccessIsMirror`, that is `SuccessMirrors`, which says not only which rows are
there but where they are. A user who is in the tree twice ends where the walk
came last, so the proof has to know in which order the walk comes to the rows:
`Turn(T, n, todo)` says that the first `n` rows of the tree `T` have been come to
and that the list `todo` stands for the others below them, in the order of `T` (a
row for its place, a mark "next" for the places of the groups below it). Every
step of a walk takes the row at `n + 1` (`TurnGroup`, `TurnUser`, `TurnMark`); when
the list is empty, `n` is the length of `T` (`TurnEnds`). It is used twice:

- `OrderInv`: a version under way is the first `n` rows of its tree, and one that is
  whole is the tree itself (`CopyIsTree`), also in its order.
- `MirrorInv`: of an order that has the tables for itself and had nothing refused,
  the rows of the directory that bear the version are, while it walks, as the first
  `n` rows of the tree have them, each in the place of the last row for its code
  (`UsersAs`, `GroupsAs`); in the sweep the same holds of the whole tree and of all
  rows but those still to be destroyed.

`HeldInv` (an order under way has one process, a version, and is not yet in state
"success") shows that only `EndSync` ends such a step, and that it then found
nothing refused and nothing left to destroy (`SuccessEnds`).

`AddressSelectorProofs`: `GroupsOnce` (`NoGroupTwice`; a call under way is the
only one for its group, which is marked and not in the page), `AllBoxMeansAll`
(`AllBoxTrue`; only boxes that are in the page are checked, so that results
cannot come under a checked box for all), `FormNeverLost` (`FormComesBack`) and
`OkReturnsForm` (`OkGivesBack`, field by field: the list of a field that has not
gone astray is what the user wants while the selector is there, and empty while it
is not, when at most one call is under way, with the addresses of the form:
`ListInv`; that an answer empties one field says nothing of the others).

`ImapStoreTheorems` states once what the commands do: a new UID lies between
UIDNEXT and UIDNEXT plus the number of messages, arrivals keep mail and flags,
arrivals of one mailbox get different UIDs, marking and expunging touch only what
is named or marked.

Only model-checked: everything under fairness (`JobsDrain`, `EveryMailExamined`,
`RequestsEnd`, `OrdersEnd`, `LoadsEnd`), which the prover does not reach. Every
invariant and every action property of a run that passes has its theorem.

## 5. Not modelled

- Delivery notifications: two statements (send, then set `$MDNSent`). Two
  requests that show the same unseen mail send two; nothing promises otherwise.
- `register_spams`: writes one filter; what remains of its conditions when the
  limit is exceeded is not determined by the code (all have the same `sort_no`).
- Request context: `Core` keeps the user and the connection in class variables.
  The models take a process to serve one request at a time, as under the
  Passenger of `doc/INSTALL.txt`; with threads the models would not be faithful.
- Settings, signatures, templates, notices, quota, the address book: rows
  edited through forms, each in one transaction.
- Batch deletion: a loop over mailboxes with the commands `MailCache` has.
- Extensions of Net::IMAP, MIME, sanitising, views: parsing and formatting
  without state of their own.
- UIDVALIDITY: the code does not keep it anywhere. `MailCache` has mailboxes
  that are deleted and made anew under a name; a server that renumbers a mailbox
  in place is not modelled.
- The screen of Joruri Gw without a version, and two copies of the directory
  begun in the same second, which share a version.
- Scripts under `public` and `vendor` other than the address selector (editors,
  uploaders, jQuery): third-party code, or presentation without state. They are
  most of the repository's JavaScript; the program itself is Ruby.

## 6. What could come next

A composition of `MailCache` with `Mailboxes` in which the rows of the mailboxes
may be out of date; the filters of a first login, whose rows are inserted while
they are read.
