-------------------------- MODULE FilterRecents --------------------------
(***************************************************************************)
(* New mails and the user's filters: Filter.apply_recents, run by every    *)
(* MailsController#index, and the Webmail::FilterJob it leaves the excess  *)
(* to (app/models/webmail/filter.rb, app/jobs/webmail/filter_job.rb).      *)
(*                                                                         *)
(* The processes are the requests (browser tabs, auto refresh: several     *)
(* index requests of one user overlap) and the delayed_job workers.  Each  *)
(* IMAP command and each database statement is a step, so that the reads   *)
(* of the setting last_uid, of UIDNEXT, of the filters and of the headers  *)
(* are as old as they are in the code when their values are used.          *)
(* The rows of webmail_mail_nodes that move_mails deletes before it moves  *)
(* are a cache of headers that nothing here reads; they are left out.      *)
(***************************************************************************)
EXTENDS FilterRules

CONSTANTS Requests,    \* concurrent index requests of the user
          Workers,     \* delayed_job workers of the queue "filter"
          JobSlots,    \* bound: jobs in the queue at one time
          MaxAttempts, \* Delayed::Worker.max_attempts
          HasMove,     \* whether the server has the MOVE capability
          UserBoxes,   \* the mailboxes the user files mails in by hand
          MaxUid,      \* bound: the user moves nothing into the inbox beyond this UID
          MaxFaults,   \* bound: exceptions and killed processes
          MaxEdits     \* bound: filters enabled or disabled, \Seen flags flipped, by the user

(* The filter form offers neither the inbox nor a special mailbox as the   *)
(* target of a 'move' filter, and Trash is not the inbox, so that          *)
(* move_all's return for a move within one mailbox is not met here.        *)
ASSUME RecentsAssumption ==
  /\ \A f \in Filters : Target[f] # Inbox
  /\ Requests \cap Workers = {}
  /\ JobSlots \subseteq Nat \ {0}
  /\ MaxAttempts \in Nat \ {0}
  /\ HasMove \in BOOLEAN
  /\ UserBoxes \subseteq Boxes
  /\ MaxUid \in Nat /\ MaxFaults \in Nat /\ MaxEdits \in Nat

VARIABLES
  store,    \* the messages on the IMAP server
  uidnext,  \* UIDNEXT of each mailbox
  sent,     \* the mails delivered so far
  lastUid,  \* value of the visible Webmail::Setting row 'last_uid' (0: no row)
  rowSaved, \* whether such a row exists
  enabled,  \* the filters in state 'enabled'
  queue,    \* the UIDs of each queued job; {} is a free slot
  tries,    \* delayed_jobs.attempts of each queued job
  pc, cur, top, fresh, loaded, todo, rest, matched, acts, job,  \* locals of a process
  settled,  \* history: UIDs of the inbox a decision was taken about
  faults, edits  \* history: how often the bounded events happened

imap    == <<store, uidnext, sent>>
db      == <<lastUid, rowSaved, enabled, queue, tries>>
search  == <<cur, top, fresh, rest>>
work    == <<loaded, todo, matched, acts, job>>
history == <<settled, faults, edits>>
vars    == <<imap, db, pc, search, work, history>>

Procs == Requests \cup Workers
NoJob == 0
Nothing == [f \in Filters |-> {}]

Init ==
  /\ store = {} /\ uidnext = [b \in Boxes |-> 1] /\ sent = {}
  /\ lastUid = 0 /\ rowSaved = FALSE
  /\ enabled = Filters
  /\ queue = [j \in JobSlots |-> {}] /\ tries = [j \in JobSlots |-> 0]
  /\ pc = [p \in Procs |-> "idle"]
  /\ cur = [p \in Procs |-> 0] /\ top = [p \in Procs |-> 0]
  /\ fresh = [p \in Procs |-> FALSE]
  /\ loaded = [p \in Procs |-> {}]
  /\ todo = [p \in Procs |-> {}] /\ rest = [p \in Procs |-> {}]
  /\ matched = [p \in Procs |-> Nothing] /\ acts = [p \in Procs |-> {}]
  /\ job = [p \in Procs |-> NoJob]
  /\ settled = {} /\ faults = 0 /\ edits = 0
---------------------------------------------------------------------------
(* The mail server, other mail clients and the settings screen.            *)

Deliver(m) ==
  /\ m \notin sent
  /\ sent' = sent \cup {m}
  /\ store' = store \cup {[box |-> Inbox, uid |-> uidnext[Inbox], mail |-> m,
                           seen |-> FALSE, deleted |-> FALSE]}
  /\ uidnext' = [uidnext EXCEPT ![Inbox] = @ + 1]
  /\ UNCHANGED <<db, pc, search, work, history>>

(* Faulty variant of MoveTo: the originals stay. *)
CopyOnlyTo(S, dest) ==
  /\ store' = store \cup Arrivals(S, dest, uidnext[dest])
  /\ uidnext' = [uidnext EXCEPT ![dest] = @ + Cardinality(S)]
  /\ UNCHANGED sent

(* MOVE of the messages S to dest *)
MoveTo(S, dest) ==
  /\ store' = (store \ S) \cup Arrivals(S, dest, uidnext[dest])
  /\ uidnext' = [uidnext EXCEPT ![dest] = @ + Cardinality(S)]
  /\ UNCHANGED sent

(* The user files a message of the inbox, or puts one back.                *)
Refile(r, dest) ==
  /\ r.box # dest
  /\ \/ r.box = Inbox /\ dest \in UserBoxes
     \/ dest = Inbox  /\ uidnext[Inbox] <= MaxUid
  /\ MoveTo({r}, dest)
  /\ UNCHANGED <<db, pc, search, work, history>>

ToggleSeen(r) ==
  /\ r.box = Inbox
  /\ edits < MaxEdits /\ edits' = edits + 1
  /\ store' = (store \ {r}) \cup {[r EXCEPT !.seen = ~r.seen]}
  /\ UNCHANGED <<uidnext, sent, db, pc, search, work, settled, faults>>

ToggleFilter(f) ==
  /\ edits < MaxEdits /\ edits' = edits + 1
  /\ enabled' = IF f \in enabled THEN enabled \ {f} ELSE enabled \cup {f}
  /\ UNCHANGED <<imap, lastUid, rowSaved, queue, tries, pc, search, work, settled, faults>>
---------------------------------------------------------------------------
(* Filter.apply_recents                                                    *)

Goto(p, label) == pc' = [pc EXCEPT ![p] = label]

(* The end of a request or of a job: its local variables are gone.         *)
Leave(p) ==
  /\ Goto(p, "idle")
  /\ cur' = [cur EXCEPT ![p] = 0] /\ top' = [top EXCEPT ![p] = 0]
  /\ fresh' = [fresh EXCEPT ![p] = FALSE]
  /\ loaded' = [loaded EXCEPT ![p] = {}]
  /\ todo' = [todo EXCEPT ![p] = {}] /\ rest' = [rest EXCEPT ![p] = {}]
  /\ matched' = [matched EXCEPT ![p] = Nothing] /\ acts' = [acts EXCEPT ![p] = {}]
  /\ job' = [job EXCEPT ![p] = NoJob]

(* Setting.where(name: 'last_uid').first_or_initialize(value: 0)           *)
ReadSetting(p) ==
  /\ pc[p] = "idle"
  /\ cur' = [cur EXCEPT ![p] = lastUid]
  /\ fresh' = [fresh EXCEPT ![p] = ~rowSaved]
  /\ Goto(p, "status")
  /\ UNCHANGED <<imap, db, top, rest, work, history>>

(* STATUS (UIDNEXT): there are UIDs beyond the stored one *)
StatusRecent(p) ==
  LET t == uidnext[Inbox] - 1 IN
  /\ pc[p] = "status"
  /\ t > 0 /\ t # cur[p]
  /\ top' = [top EXCEPT ![p] = t]
  /\ Goto(p, "search")
  /\ UNCHANGED <<imap, db, cur, fresh, rest, work, history>>

StatusQuiet(p) ==
  /\ pc[p] = "status"
  /\ uidnext[Inbox] - 1 \in {0, cur[p]}
  /\ Leave(p)
  /\ UNCHANGED <<imap, db, history>>

(* Faulty variant of UidRange: one UID too far. *)
UidRangeOffByOne(p) == (cur[p] + 2) .. top[p]

UidRange(p) == (cur[p] + 1) .. top[p]

(* The enabled filters are loaded and UID SEARCH UID cur+1:top UNSEEN runs *)
(* (not at all when there is no filter); the result is split in two.       *)
SearchUids(p) ==
  IF enabled = {} THEN {}
  ELSE UidsOf({r \in Named(store, Inbox, UidRange(p)) : ~r.seen})

Search(p) ==
  LET uids == SearchUids(p) IN
  /\ pc[p] = "search"
  /\ loaded' = [loaded EXCEPT ![p] = enabled]
  /\ todo' = [todo EXCEPT ![p] = AtOnce(uids)]
  /\ rest' = [rest EXCEPT ![p] = Delayed(uids)]
  /\ settled' = settled \cup (UidRange(p) \ uids)
  /\ Goto(p, IF uids = {} THEN "save" ELSE IF AtOnce(uids) = {} THEN "handoff" ELSE "fetch")
  /\ UNCHANGED <<imap, db, cur, top, fresh, matched, acts, job, faults, edits>>

(* FilterJob.perform_later for what exceeds the limit; nothing when there is no excess *)
EnqueueJob(p) ==
  /\ pc[p] = "handoff"
  /\ IF rest[p] = {} THEN UNCHANGED queue
     ELSE \E j \in JobSlots : queue[j] = {} /\ queue' = [queue EXCEPT ![j] = rest[p]]
  /\ Goto(p, "save")
  /\ UNCHANGED <<imap, lastUid, rowSaved, enabled, tries, search, work, history>>

(* Faulty variant of SaveLastUid: UIDNEXT is read again when it is saved. *)
SaveCurrentUid(p) ==
  /\ pc[p] = "save"
  /\ lastUid' = IF fresh[p] /\ rowSaved THEN lastUid ELSE uidnext[Inbox] - 1
  /\ rowSaved' = TRUE
  /\ Leave(p)
  /\ UNCHANGED <<imap, enabled, queue, tries, history>>

(* st.value = last_uid; st.save: an UPDATE of the row that was read, or an *)
(* INSERT when there was none.  A second inserted row stays invisible:     *)
(* first_or_initialize goes on returning the first.                        *)
SaveLastUid(p) ==
  /\ pc[p] = "save"
  /\ lastUid' = IF fresh[p] /\ rowSaved THEN lastUid ELSE top[p]
  /\ rowSaved' = TRUE
  /\ Leave(p)
  /\ UNCHANGED <<imap, enabled, queue, tries, history>>

(* An exception outside perform_action, or a killed process; the job of a  *)
(* killed worker is unlocked again.                                        *)
Abort(p) ==
  /\ pc[p] # "idle"
  /\ faults < MaxFaults /\ faults' = faults + 1
  /\ Leave(p)
  /\ UNCHANGED <<imap, db, settled, edits>>
---------------------------------------------------------------------------
(* Filter.apply_uids, of a request and of a job alike                      *)

(* Where the loop over the slices goes after a slice *)
Continue(a, t) == IF a # {} THEN "act" ELSE IF t # {} THEN "fetch" ELSE "handoff"

(* A request has its filters in an array; a job holds a relation, which    *)
(* runs its query when the first slice walks over it.                      *)
FiltersOf(p) == IF pc[p] = "first" THEN enabled ELSE loaded[p]

(* UID FETCH of the headers of a slice: each mail still there goes to the  *)
(* first filter that matches it.  matched_uids is appended to and never    *)
(* reset, so that a later slice acts on the UIDs of the earlier ones too.  *)
FetchForFilter(p) ==
  LET slice == NextSlice(todo[p])
      fs    == FiltersOf(p)
      hits  == [f \in Filters |->
                 UidsOf({r \in Named(store, Inbox, slice) : Takes(f, fs, r.mail)})]
      now   == [f \in Filters |-> matched[p][f] \cup hits[f]]
      left  == todo[p] \ slice
      act   == {f \in fs : now[f] # {}}
  IN /\ pc[p] \in {"first", "fetch"}
     /\ loaded' = [loaded EXCEPT ![p] = fs]
     /\ matched' = [matched EXCEPT ![p] = now]
     /\ todo' = [todo EXCEPT ![p] = left]
     /\ acts' = [acts EXCEPT ![p] = act]
     /\ settled' = settled \cup {u \in slice : \A f \in Filters : u \notin hits[f]}
     /\ Goto(p, Continue(act, left))
     /\ UNCHANGED <<imap, db, search, job, faults, edits>>

(* The filter whose perform_action runs next *)
Acting(p, f) == f \in acts[p] /\ \A g \in acts[p] : f <= g

Acted(p, f) ==
  /\ acts' = [acts EXCEPT ![p] = @ \ {f}]
  /\ Goto(p, Continue(acts[p] \ {f}, todo[p]))

(* Faulty variant of PerformMove: one list of matched UIDs for all filters. *)
PerformMoveShared(p, f) ==
  /\ HasMove
  /\ pc[p] = "act" /\ Acting(p, f)
  /\ MoveTo(Named(store, Inbox, UNION {matched[p][g] : g \in Filters}), Target[f])
  /\ Acted(p, f)
  /\ UNCHANGED <<db, search, loaded, todo, matched, job, history>>

(* move_to_by_move *)
PerformMove(p, f) ==
  /\ HasMove
  /\ pc[p] = "act" /\ Acting(p, f)
  /\ MoveTo(Named(store, Inbox, matched[p][f]), Target[f])
  /\ Acted(p, f)
  /\ UNCHANGED <<db, search, loaded, todo, matched, job, history>>

(* Faulty variant of PerformCopy: the originals are marked before they are copied. *)
PerformMarkFirst(p, f) ==
  /\ ~HasMove
  /\ pc[p] = "act" /\ Acting(p, f)
  /\ store' = MarkDeleted(store, Inbox, matched[p][f])
  /\ Goto(p, "store")
  /\ UNCHANGED <<uidnext, sent, db, search, work, history>>

(* move_to_by_copy: COPY, STORE +FLAGS (\Deleted), EXPUNGE *)
PerformCopy(p, f) ==
  LET S == Named(store, Inbox, matched[p][f]) IN
  /\ ~HasMove
  /\ pc[p] = "act" /\ Acting(p, f)
  /\ store' = store \cup Arrivals(S, Target[f], uidnext[Target[f]])
  /\ uidnext' = [uidnext EXCEPT ![Target[f]] = @ + Cardinality(S)]
  /\ Goto(p, "store")
  /\ UNCHANGED <<sent, db, search, work, history>>

PerformStore(p, f) ==
  /\ pc[p] = "store" /\ Acting(p, f)
  /\ store' = MarkDeleted(store, Inbox, matched[p][f])
  /\ Goto(p, "expunge")
  /\ UNCHANGED <<uidnext, sent, db, search, work, history>>

PerformExpunge(p, f) ==
  /\ pc[p] = "expunge" /\ Acting(p, f)
  /\ store' = Expunge(store, Inbox)
  /\ Acted(p, f)
  /\ UNCHANGED <<uidnext, sent, db, search, loaded, todo, matched, job, history>>

(* perform_action rescues every error and the loop goes on with the next filter. *)
PerformFail(p, f) ==
  /\ pc[p] \in {"act", "store", "expunge"} /\ Acting(p, f)
  /\ faults < MaxFaults /\ faults' = faults + 1
  /\ settled' = settled \cup matched[p][f]
  /\ Acted(p, f)
  /\ UNCHANGED <<imap, db, search, loaded, todo, matched, job, edits>>

PerformAction(p) ==
  \E f \in Filters :
    \/ PerformMove(p, f) \/ PerformCopy(p, f)
    \/ PerformStore(p, f) \/ PerformExpunge(p, f)
---------------------------------------------------------------------------
(* Webmail::FilterJob under delayed_job (external: the queue)              *)

(* A worker locks a job and runs it. *)
TakeJob(w, j) ==
  /\ pc[w] = "idle" /\ queue[j] # {} /\ \A v \in Workers : job[v] # j
  /\ job' = [job EXCEPT ![w] = j]
  /\ todo' = [todo EXCEPT ![w] = queue[j]]
  /\ Goto(w, "first")
  /\ UNCHANGED <<imap, db, search, loaded, matched, acts, history>>

FinishJob(w) ==
  /\ pc[w] = "handoff"
  /\ queue' = [queue EXCEPT ![job[w]] = {}]
  /\ tries' = [tries EXCEPT ![job[w]] = 0]
  /\ Leave(w)
  /\ UNCHANGED <<imap, lastUid, rowSaved, enabled, history>>

(* Faulty variant of FailJob: one attempt too many. *)
FailJobLate(w) ==
  LET j == job[w]
      given_up == tries[j] + 1 > MaxAttempts
  IN /\ pc[w] # "idle"
     /\ faults < MaxFaults /\ faults' = faults + 1
     /\ queue' = [queue EXCEPT ![j] = IF given_up THEN {} ELSE @]
     /\ tries' = [tries EXCEPT ![j] = IF given_up THEN 0 ELSE @ + 1]
     /\ settled' = IF given_up THEN settled \cup queue[j] ELSE settled
     /\ Leave(w)
     /\ UNCHANGED <<imap, lastUid, rowSaved, enabled, edits>>

(* Faulty variant of FailJob: the job stays locked. *)
FailJobLocked(w) ==
  /\ pc[w] # "idle"
  /\ faults < MaxFaults /\ faults' = faults + 1
  /\ tries' = [tries EXCEPT ![job[w]] = @ + 1]
  /\ Goto(w, "idle")
  /\ UNCHANGED <<imap, lastUid, rowSaved, enabled, queue, search, work, settled, edits>>

(* The job raises: it is run again from its start, and given up after the  *)
(* last attempt.                                                           *)
FailJob(w) ==
  LET j == job[w]
      given_up == tries[j] + 1 >= MaxAttempts
  IN /\ pc[w] # "idle"
     /\ faults < MaxFaults /\ faults' = faults + 1
     /\ queue' = [queue EXCEPT ![j] = IF given_up THEN {} ELSE @]
     /\ tries' = [tries EXCEPT ![j] = IF given_up THEN 0 ELSE @ + 1]
     /\ settled' = IF given_up THEN settled \cup queue[j] ELSE settled
     /\ Leave(w)
     /\ UNCHANGED <<imap, lastUid, rowSaved, enabled, edits>>
---------------------------------------------------------------------------
RequestStep(p) ==
  \/ StatusRecent(p) \/ StatusQuiet(p) \/ Search(p) \/ FetchForFilter(p)
  \/ PerformAction(p) \/ EnqueueJob(p) \/ SaveLastUid(p)

WorkerStep(w) ==
  \/ \E j \in JobSlots : TakeJob(w, j)
  \/ FetchForFilter(w) \/ PerformAction(w) \/ FinishJob(w)

Fault(p) == Abort(p) \/ \E f \in Filters : PerformFail(p, f)

User ==
  \/ \E m \in Mails : Deliver(m)
  \/ \E r \in store, b \in Boxes : Refile(r, b)
  \/ \E r \in store : ToggleSeen(r)
  \/ \E f \in Filters : ToggleFilter(f)

Next ==
  \/ User
  \/ \E p \in Requests : ReadSetting(p) \/ RequestStep(p)
  \/ \E w \in Workers : WorkerStep(w) \/ FailJob(w)
  \/ \E p \in Procs : Fault(p)

Spec == Init /\ [][Next]_vars

(* A request in progress runs to its end, a delayed_job worker keeps       *)
(* polling its queue.  The user, the faults and the start of a request get *)
(* no fairness.                                                            *)
Progress ==
  /\ \A p \in Requests : WF_vars(RequestStep(p))
  /\ \A w \in Workers : WF_vars(WorkerStep(w))

FairSpec == Spec /\ Progress

(* With the automatic refresh of the mail list switched on the browser     *)
(* keeps sending index requests.                                           *)
RefreshSpec == FairSpec /\ \A p \in Requests : WF_vars(ReadSetting(p))
---------------------------------------------------------------------------
(* Types, and the ranges the counters stay in.                             *)
ImapTypeOK ==
  /\ store \subseteq Message /\ IsFiniteSet(store)
  /\ uidnext \in [Boxes -> Nat \ {0}]
  /\ sent \subseteq Mails

DbTypeOK ==
  /\ lastUid \in Nat /\ rowSaved \in BOOLEAN
  /\ enabled \subseteq Filters
  /\ queue \in [JobSlots -> SUBSET Nat]
  /\ tries \in [JobSlots -> 0 .. (MaxAttempts - 1)]

ProcTypeOK ==
  /\ pc \in [Procs -> {"idle", "status", "search", "first", "fetch", "act", "store",
                       "expunge", "handoff", "save"}]
  /\ cur \in [Procs -> Nat] /\ top \in [Procs -> Nat] /\ fresh \in [Procs -> BOOLEAN]
  /\ loaded \in [Procs -> SUBSET Filters]
  /\ todo \in [Procs -> SUBSET Nat] /\ rest \in [Procs -> SUBSET Nat]
  /\ matched \in [Procs -> [Filters -> SUBSET Nat]]
  /\ acts \in [Procs -> SUBSET Filters]
  /\ job \in [Procs -> JobSlots \cup {NoJob}]
  /\ \A w \in Workers : pc[w] # "idle" => job[w] # NoJob

HistoryTypeOK == settled \subseteq Nat /\ faults \in Nat /\ edits \in Nat

TypeOK == ImapTypeOK /\ DbTypeOK /\ ProcTypeOK /\ HistoryTypeOK

(* Whatever crashes and overlaps, a delivered mail keeps a copy that is    *)
(* not marked for deletion: move_to_by_copy marks only what was copied.    *)
NoMailLost == \A m \in sent : \E r \in store : r.mail = m /\ ~r.deleted

(* Why NoMailLost holds, as an inductive invariant: UIDs are not reused,   *)
(* and every delivered mail has a copy without \Deleted which no process   *)
(* between its COPY and its STORE is about to mark.                        *)
UidsBelowNext ==
  /\ \A r \in store : r.uid < uidnext[r.box]
  /\ \A p \in Procs, f \in Filters : \A u \in matched[p][f] : u < uidnext[Inbox]

AboutToMark(r) ==
  \E p \in Procs, f \in Filters :
    pc[p] = "store" /\ Acting(p, f) /\ r.box = Inbox /\ r.uid \in matched[p][f]

SafeCopy == \A m \in sent : \E r \in store : r.mail = m /\ ~r.deleted /\ ~AboutToMark(r)

LossInv == TypeOK /\ UidsBelowNext /\ SafeCopy

(* With MOVE two overlapping passes over the same mails never file a mail  *)
(* twice.                                                                  *)
NoMailDoubled == \A r, q \in store : r.mail = q.mail => r = q

(* Every mail of the inbox at or below the stored last_uid was decided     *)
(* about (already read, no filter takes it, the action failed, the job was *)
(* given up) or waits in a job: advancing last_uid skips no new mail,      *)
(* however requests overlap and wherever one is killed.                    *)
NoMailSkipped ==
  \A r \in store : r.box = Inbox /\ r.uid <= lastUid /\ ~r.deleted
                    => r.uid \in settled \cup UNION {queue[j] : j \in JobSlots}

(* The UIDs a filter is about to act on, kept over slices and IMAP round   *)
(* trips, still name mails that this filter, and no earlier one, matches.  *)
ActsOnOwnMatches ==
  \A p \in Procs, f \in Filters : \A r \in Named(store, Inbox, matched[p][f]) :
    /\ f \in loaded[p] /\ Match(f, r.mail)
    /\ \A g \in loaded[p] : Match(g, r.mail) => f <= g

(* Every job that was queued leaves the queue. *)
JobsDrain == \A j \in JobSlots : queue[j] # {} ~> queue[j] = {}

(* Under automatic refresh every mail of the inbox is, in the end, decided *)
(* about or filed.                                                         *)
EveryMailExamined ==
  \A u \in 1 .. MaxUid :
    (u < uidnext[Inbox]) ~> (u \in settled \/ \A r \in Named(store, Inbox, {u}) : r.deleted)

(* What the filters promise: see FilterPromise. *)
Outside == "outside"
ASSUME OutsideAssumption == Outside \notin Boxes

Place == [m \in Mails |-> IF \E r \in store : r.mail = m
                           THEN (CHOOSE r \in store : r.mail = m).box ELSE Outside]
Promise == INSTANCE FilterPromise WITH place <- Place
PromiseKept == Promise!Spec
===========================================================================
