--------------------------- MODULE FilterApply ---------------------------
(***************************************************************************)
(* The filter the user applies by hand to a mailbox, or to a mailbox and   *)
(* its subfolders: FiltersController#apply, Filter#apply and the           *)
(* Webmail::FilterJob for what exceeds the limit                           *)
(* (app/models/webmail/filter.rb:49-81, app/jobs/webmail/filter_job.rb).   *)
(* While it runs another client moves mails on the IMAP server.  MOVE is   *)
(* one step here; FilterRecents has the three commands that replace it on  *)
(* a server without MOVE.                                                  *)
(***************************************************************************)
EXTENDS FilterRules

CONSTANTS Subtree,   \* descendants of each mailbox, itself included
          ListOrder, \* the order the mailboxes of a subtree are gone through
          Trash,     \* the Trash mailbox
          Offered,   \* the mailboxes the form offers (filter_appliable_box?)
          Enabled,   \* the filters in state 'enabled'
          Content,   \* the messages there are when the user opens the form
          MaxMoves,  \* bound: mails moved by another client meanwhile
          MaxFaults  \* bound: actions that raise

ASSUME ApplyAssumption ==
  /\ Subtree \in [Boxes -> SUBSET Boxes]
  /\ ListOrder \in [Boxes -> Nat]
  /\ \A b, c \in Boxes : ListOrder[b] = ListOrder[c] => b = c
  /\ \A b \in Offered : Trash \notin Subtree[b]  \* a top-level mailbox in the default map
  /\ Offered \subseteq Boxes /\ Enabled \subseteq Filters
  /\ Content \subseteq Message /\ IsFiniteSet(Content)
  /\ \A r, q \in Content : r.box = q.box /\ r.uid = q.uid => r = q
  /\ \A r \in Content : r.uid <= Cardinality({q \in Content : q.box = r.box})
  /\ MaxMoves \in Nat /\ MaxFaults \in Nat

VARIABLES
  store, uidnext,
  pc, chosen,  \* the request; the filter it applies (0: none chosen)
  loaded,      \* the filters of the running request or job
  found,       \* the mails of the searched mailboxes, <<mailbox, uid>>
  todo,        \* what is left of the part processed at once
  box,         \* the mailbox the pass is in
  matched,     \* matched_uids of each filter: UIDs without their mailbox
  acts,        \* the filters whose perform_action is still to run
  jobs,        \* the queued jobs, [box, uids]
  applied, processed, delayed,  \* what the flash message reports
  filed,       \* history: [mail, filter] for each mail moved by an action
  missed,      \* history: <<mailbox, uid>> of actions that raised
  moves, faults

imap   == <<store, uidnext>>
form   == <<chosen, found>>
report == <<applied, processed, delayed>>
pass   == <<loaded, todo, box, matched>>
vars   == <<imap, pc, form, pass, acts, jobs, report, filed, missed, moves, faults>>

Nothing == [f \in Filters |-> {}]
NoFilter == 0

Init ==
  /\ store = Content
  /\ uidnext = [b \in Boxes |-> 1 + Cardinality({r \in Content : r.box = b})]
  /\ pc = "form" /\ chosen = NoFilter /\ loaded = {} /\ found = {} /\ todo = {}
  /\ box = Inbox /\ matched = Nothing /\ acts = {} /\ jobs = {}
  /\ applied = 0 /\ processed = 0 /\ delayed = 0
  /\ filed = {} /\ missed = {} /\ moves = 0 /\ faults = 0
---------------------------------------------------------------------------
(* The order schedule_mail_uids goes through the mails: mailbox by mailbox *)
(* in list order, newest UID first.                                        *)
Before(x, y) ==
  \/ ListOrder[x[1]] < ListOrder[y[1]]
  \/ x[1] = y[1] /\ x[2] > y[2]

(* Faulty variant of ScheduledFirst: one too many. *)
ScheduledUpTo(n, S) == {x \in S : Cardinality({y \in S : Before(y, x)}) <= n}

ScheduledFirst(n, S) == {x \in S : Cardinality({y \in S : Before(y, x)}) < n}

MoveTo(S, dest) ==
  /\ store' = (store \ S) \cup Arrivals(S, dest, uidnext[dest])
  /\ uidnext' = [uidnext EXCEPT ![dest] = @ + Cardinality(S)]

(* Another client moves a mail. *)
MoveElsewhere(r, dest) ==
  /\ r.box # dest
  /\ moves < MaxMoves /\ moves' = moves + 1
  /\ MoveTo({r}, dest)
  /\ UNCHANGED <<pc, form, pass, acts, jobs, report, filed, missed, faults>>

(* apply_mailboxes *)
ApplyMailboxes(b, include_sub) == IF include_sub THEN Subtree[b] ELSE {b}

(* schedule_mail_uids: UID SEARCH UNDELETED in each mailbox (one step: a   *)
(* mail that leaves between two searches is ignored by the FETCH like one  *)
(* that leaves after them), then the cut at the limit over all of them.    *)
Apply(f, b, include_sub) ==
  LET mails == {<<r.box, r.uid>> : r \in {r \in store :
                   r.box \in ApplyMailboxes(b, include_sub) /\ ~r.deleted}}
  IN /\ pc = "form"
     /\ b \in Offered /\ Conditions[f] # {}
     /\ chosen' = f /\ loaded' = {f}
     /\ found' = mails
     /\ todo' = ScheduledFirst(MaxAtOnce, mails)
     /\ processed' = Cardinality(todo')
     /\ pc' = "slice"
     /\ UNCHANGED <<imap, box, matched, acts, jobs, applied, delayed, filed, missed, moves, faults>>

(* Faulty variant of FetchSlice: matched_uids is assigned, not appended to. *)
FetchSliceLastOnly ==
  LET b     == CHOOSE c \in {x[1] : x \in todo} :
                 \A d \in {x[1] : x \in todo} : ListOrder[c] <= ListOrder[d]
      slice == NextSlice({x[2] : x \in {y \in todo : y[1] = b}})
      hits(f) == UidsOf({r \in Named(store, b, slice) : Takes(f, loaded, r.mail)})
      now   == [f \in Filters |-> IF hits(f) = {} THEN matched[f] ELSE Newest(1, hits(f))]
  IN /\ pc \in {"slice", "job"} /\ todo # {}
     /\ box' = b
     /\ matched' = now
     /\ acts' = {f \in loaded : now[f] # {}}
     /\ todo' = todo \ ({b} \X slice)
     /\ UNCHANGED <<imap, pc, form, loaded, jobs, report, filed, missed, moves, faults>>

(* apply_uids_for_each_slice up to the actions: the next slice of the      *)
(* first mailbox that has mails left is fetched and matched.               *)
FetchSlice ==
  LET b     == CHOOSE c \in {x[1] : x \in todo} :
                 \A d \in {x[1] : x \in todo} : ListOrder[c] <= ListOrder[d]
      slice == NextSlice({x[2] : x \in {y \in todo : y[1] = b}})
      hits(f) == UidsOf({r \in Named(store, b, slice) : Takes(f, loaded, r.mail)})
      now   == [f \in Filters |-> matched[f] \cup hits(f)]
  IN /\ pc \in {"slice", "job"} /\ todo # {}
     /\ box' = b
     /\ matched' = now
     /\ acts' = {f \in loaded : now[f] # {}}
     /\ todo' = todo \ ({b} \X slice)
     /\ UNCHANGED <<imap, pc, form, loaded, jobs, report, filed, missed, moves, faults>>

SliceDone == acts = {}
Acting(f) == f \in acts /\ \A g \in acts : f <= g

(* Faulty variant of PerformAction: the UIDs are looked up in the inbox. *)
PerformInInbox(f) ==
  LET S == IF Target[f] = box THEN {} ELSE Named(store, Inbox, matched[f]) IN
  /\ Acting(f)
  /\ MoveTo(S, Target[f])
  /\ filed' = filed \cup {[mail |-> r.mail, filter |-> f] : r \in S}
  /\ applied' = IF pc = "slice" THEN applied + Cardinality(matched[f]) ELSE applied
  /\ acts' = acts \ {f}
  /\ UNCHANGED <<pc, form, pass, jobs, processed, delayed, missed, moves, faults>>

(* perform_action: move_mails of every UID collected so far, in the        *)
(* mailbox of this slice; it returns (and the request counts) those UIDs.  *)
PerformAction(f) ==
  LET S == IF Target[f] = box THEN {} ELSE Named(store, box, matched[f]) IN
  /\ Acting(f)
  /\ MoveTo(S, Target[f])
  /\ filed' = filed \cup {[mail |-> r.mail, filter |-> f] : r \in S}
  /\ applied' = IF pc = "slice" THEN applied + Cardinality(matched[f]) ELSE applied
  /\ acts' = acts \ {f}
  /\ UNCHANGED <<pc, form, pass, jobs, processed, delayed, missed, moves, faults>>

(* An error is rescued, nothing is counted. *)
PerformFail(f) ==
  /\ Acting(f)
  /\ faults < MaxFaults /\ faults' = faults + 1
  /\ acts' = acts \ {f}
  /\ missed' = missed \cup ({box} \X matched[f])
  /\ UNCHANGED <<imap, pc, form, pass, jobs, report, filed, moves>>

(* After the part at once one job per mailbox is queued for the rest.      *)
EnqueueRest ==
  LET rest == found \ ScheduledFirst(MaxAtOnce, found) IN
  /\ pc = "slice" /\ todo = {} /\ SliceDone
  /\ jobs' = {[box |-> b, uids |-> {x[2] : x \in {y \in rest : y[1] = b}}] :
                b \in {x[1] : x \in rest}}
  /\ delayed' = Cardinality(rest)
  /\ pc' = "done"
  /\ matched' = Nothing /\ loaded' = {}
  /\ UNCHANGED <<imap, form, todo, box, acts, applied, processed, filed, missed, moves, faults>>

(* FilterJob.perform *)
StartJob(j) ==
  /\ pc = "done"
  /\ jobs' = jobs \ {j}
  /\ loaded' = Enabled
  /\ matched' = Nothing
  /\ todo' = {j.box} \X j.uids
  /\ pc' = "job"
  /\ UNCHANGED <<imap, form, box, acts, report, filed, missed, moves, faults>>

FinishJob ==
  /\ pc = "job" /\ todo = {} /\ SliceDone
  /\ pc' = "done"
  /\ UNCHANGED <<imap, form, pass, acts, jobs, report, filed, missed, moves, faults>>

Next ==
  \/ \E r \in store, b \in Boxes : MoveElsewhere(r, b)
  \/ \E f \in Filters, b \in Boxes, s \in BOOLEAN : Apply(f, b, s)
  \/ SliceDone /\ FetchSlice
  \/ \E f \in Filters : PerformAction(f) \/ PerformFail(f)
  \/ EnqueueRest
  \/ \E j \in jobs : StartJob(j)
  \/ FinishJob

Spec == Init /\ [][Next]_vars
---------------------------------------------------------------------------
(* A mail that an action moved is one its filter matches: the filter's     *)
(* conditions decide, in every folder the user applies it to.              *)
MovesOnlyMatching == \A x \in filed : Match(x.filter, x.mail)

(* That holds as long as the mails found are all in one mailbox, over      *)
(* several slices and jobs and with another client moving mails.           *)
OneFolderMovesOnlyMatching ==
  Cardinality({x[1] : x \in found}) <= 1 => MovesOnlyMatching

(* When the request is over, every mail it found and did not hand to a job *)
(* is gone from its mailbox, unless the filter does not match it, its      *)
(* target is that mailbox, or the action raised.                           *)
ApplyComplete ==
  pc = "done" => \A r \in store :
    \/ <<r.box, r.uid>> \notin ScheduledFirst(MaxAtOnce, found)
    \/ ~Match(chosen, r.mail) \/ Target[chosen] = r.box
    \/ <<r.box, r.uid>> \in missed

(* The counts of the flash message add up to the mails found, and the part *)
(* processed while the user waits respects the limit.                      *)
ReportAddsUp ==
  pc = "done" => /\ processed + delayed = Cardinality(found)
                 /\ processed <= MaxAtOnce
                 /\ delayed > 0 => processed = MaxAtOnce
===========================================================================
