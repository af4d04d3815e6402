---------------------------- MODULE SendMail ----------------------------
(***************************************************************************)
(* Writing and sending mails in several windows of one user                *)
(* (app/controllers/webmail/admin/mails_controller.rb, send_message and    *)
(* save_as_draft; app/models/webmail/mail.rb, mail_attachment.rb,          *)
(* mail_address_history.rb; mail_attachments_controller.rb).               *)
(*                                                                         *)
(* A window has a tmp_id of its own: the files of its mail are rows of     *)
(* sys_files with that tmp_id, and the page lists those it knows of        *)
(* (item[tmp_attachment_ids]).  A file is uploaded by a request of its own *)
(* and is listed when the answer arrives.  A mail is here the set of its   *)
(* attachments, with one address; a request deals with the draft or mail   *)
(* it refers to by flags and deletion only.                                *)
(***************************************************************************)
EXTENDS Naturals, Sequences, FiniteSets

CONSTANTS Windows, Files,
          Size,       \* [Files -> Nat]
          MaxSize,    \* webmail.attachment_file_max_size
          Refs,       \* the mails that are edited, answered or forwarded
          NoRef,      \* of a new mail
          Opened,     \* what the user opens: [win, kind, ref], kind "new", "edit", "answer" or "forward"
          RefFiles,   \* [Refs -> SUBSET Files]
          MaxHistory, \* webmail.mail_address_history_max_count
          FirstHistory, \* the number of history rows at the start
          MaxUploads, \* bound: [Windows -> Nat], uploads begun
          MaxFaults   \* bound: requests that fail, are refused or killed

ASSUME SendMailAssumption ==
  /\ IsFiniteSet(Windows) /\ IsFiniteSet(Files)
  /\ Size \in [Files -> Nat \ {0}] /\ RefFiles \in [Refs -> SUBSET Files]
  /\ NoRef \notin Refs
  /\ Opened \subseteq [win : Windows, kind : {"new"}, ref : {NoRef}]
                 \cup [win : Windows, kind : {"edit", "answer", "forward"}, ref : Refs]
  /\ {MaxSize, MaxHistory, FirstHistory, MaxFaults} \subseteq Nat /\ MaxUploads \in [Windows -> Nat]
  /\ FirstHistory <= MaxHistory

VARIABLES
  rows,      \* sys_files: [win, file]
  ups,       \* the uploads under way, [win, file, stored, lost]
  page,      \* of each window: "closed", "form", "wait" (submitted), "done"
  listed,    \* the files each page lists
  aim,       \* what each window was opened for, [kind, ref]
  pc, job,   \* the request a window has submitted
  refs,      \* the mails referred to that are still where they were
  flagged,   \* those flagged \Answered or $Forwarded
  histories, \* the number of rows of webmail_mail_address_histories
  out,       \* history: what each window has delivered or put into Drafts, in order
  unwanted,  \* history: [win, file] whose removal was asked for
  leftOut,   \* history: [win, file] of the mail referred to that the window did not get
  moved,     \* history: mails referred to that another window moved or deleted
  collected, \* history: windows open for more than two days
  crowded,   \* history: windows whose uploads overlapped
  failed,    \* history: windows that were shown again with an error
  killed,    \* history: windows whose request was killed
  strays,    \* history: requests that ended before they cut the history
  uploads, faults  \* history: how often the bounded events happened

server  == <<refs, flagged>>
client  == <<page, listed, ups, aim>>
history == <<unwanted, leftOut, moved, collected, crowded, failed, killed, strays>>
count   == <<uploads, faults>>
vars    == <<rows, client, pc, job, server, histories, out, history, count>>

RowsOf(w) == {x.file : x \in {x \in rows : x.win = w}}
(* The sum of the sizes of the files: they have so many bytes.             *)
Total(F) == Cardinality(UNION {{f} \X (1 .. Size[f]) : f \in F})
RefGone(w) == aim[w].ref \notin refs \cup {NoRef}
Copies(kind, r) == IF kind \in {"edit", "forward"} THEN RefFiles[r] ELSE {}
NoJob == [draft |-> FALSE, ids |-> {}, excess |-> 0]

Init ==
  /\ rows = {} /\ ups = {}
  /\ page = [w \in Windows |-> "closed"] /\ listed = [w \in Windows |-> {}]
  /\ aim = [w \in Windows |-> [kind |-> "new", ref |-> NoRef]]
  /\ pc = [w \in Windows |-> "idle"] /\ job = [w \in Windows |-> NoJob]
  /\ refs = Refs /\ flagged = {}
  /\ histories = FirstHistory
  /\ out = [w \in Windows |-> <<>>]
  /\ unwanted = {} /\ leftOut = {} /\ moved = {} /\ collected = {} /\ crowded = {}
  /\ failed = {} /\ killed = {} /\ strays = 0
  /\ uploads = [w \in Windows |-> 0] /\ faults = 0

Goto(w, label) == pc' = [pc EXCEPT ![w] = label]
Fault == faults < MaxFaults /\ faults' = faults + 1 /\ UNCHANGED uploads
Finish(w) == Goto(w, "idle") /\ job' = [job EXCEPT ![w] = NoJob]
---------------------------------------------------------------------------
(* The window                                                              *)

(* new, edit, answer, forward: the attachments of the mail referred to are *)
(* copied.  Those beyond the limit, and those that could not be stored,    *)
(* are left out without a word (init_tmp_attachments_from_ref takes no     *)
(* notice of save_file's answer).                                          *)
OpenFor(w, kind, r) ==
  /\ page[w] = "closed"
  /\ \E K, refused \in SUBSET Copies(kind, r) :
       /\ K \cap refused = {} /\ Total(K) <= MaxSize
       /\ \A f \in Copies(kind, r) \ (K \cup refused) : Total(K) + Size[f] > MaxSize
       /\ IF refused = {} THEN UNCHANGED count ELSE Fault
       /\ rows' = rows \cup {[win |-> w, file |-> f] : f \in K}
       /\ listed' = [listed EXCEPT ![w] = K]
       /\ leftOut' = leftOut \cup {[win |-> w, file |-> f] : f \in Copies(kind, r) \ K}
  /\ aim' = [aim EXCEPT ![w] = [kind |-> kind, ref |-> r]]
  /\ page' = [page EXCEPT ![w] = "form"]
  /\ UNCHANGED <<ups, pc, job, server, histories, out, unwanted, moved, collected, crowded,
                 failed, killed, strays>>

Open(w) ==
  \E o \in Opened : /\ o.win = w /\ o.ref \in refs \cup {NoRef}
                    /\ OpenFor(w, o.kind, o.ref)

(* Faulty variant of BeginUpload: what the window has already is not summed up. *)
BeginUploadAlone(w, f) ==
  /\ page[w] = "form" /\ [win |-> w, file |-> f] \notin rows \cup unwanted
  /\ uploads[w] < MaxUploads[w]
  /\ \A u \in ups : u.win = w => u.lost
  /\ Size[f] <= MaxSize
  /\ ups' = ups \cup {[win |-> w, file |-> f, stored |-> FALSE, lost |-> FALSE]}
  /\ crowded' = IF \E u \in ups : u.win = w THEN crowded \cup {w} ELSE crowded
  /\ uploads' = [uploads EXCEPT ![w] = @ + 1]
  /\ UNCHANGED <<rows, page, listed, aim, pc, job, server, histories, out,
                 unwanted, leftOut, moved, collected, failed, killed, strays, faults>>

(* MailAttachmentsController#create and save_file up to the INSERT.  A     *)
(* page sends its files one after the other, but an upload that it has     *)
(* aborted goes on in the server.                                          *)
BeginUpload(w, f) ==
  /\ page[w] = "form" /\ [win |-> w, file |-> f] \notin rows \cup unwanted
  /\ uploads[w] < MaxUploads[w]
  /\ \A u \in ups : u.win = w => u.lost /\ u.file # f
  /\ Total(RowsOf(w)) + Size[f] <= MaxSize
  /\ ups' = ups \cup {[win |-> w, file |-> f, stored |-> FALSE, lost |-> FALSE]}
  /\ crowded' = IF \E u \in ups : u.win = w THEN crowded \cup {w} ELSE crowded
  /\ uploads' = [uploads EXCEPT ![w] = @ + 1]
  /\ UNCHANGED <<rows, page, listed, aim, pc, job, server, histories, out,
                 unwanted, leftOut, moved, collected, failed, killed, strays, faults>>

Store(u) ==
  /\ u \in ups /\ ~u.stored
  /\ rows' = rows \cup {[win |-> u.win, file |-> u.file]}
  /\ ups' = IF u.lost THEN ups \ {u} ELSE (ups \ {u}) \cup {[u EXCEPT !.stored = TRUE]}
  /\ UNCHANGED <<page, listed, aim, pc, job, server, histories, out, history, count>>

(* The file is not written: its row is deleted again. *)
StoreFails(u) ==
  /\ u \in ups /\ ~u.stored /\ Fault
  /\ ups' = ups \ {u}
  /\ UNCHANGED <<rows, page, listed, aim, pc, job, server, histories, out, history>>

UploadAnswer(u) ==
  /\ u \in ups /\ u.stored
  /\ ups' = ups \ {u}
  /\ listed' = IF page[u.win] = "form" /\ ~u.lost THEN [listed EXCEPT ![u.win] = @ \cup {u.file}]
               ELSE listed
  /\ UNCHANGED <<rows, page, aim, pc, job, server, histories, out, history, count>>

(* What is left when a page no longer waits for its uploads *)
Abandoned(w) ==
  {u \in ups : u.win # w} \cup {[u EXCEPT !.lost = TRUE] : u \in {u \in ups : u.win = w /\ ~u.stored}}

CancelUploads(w) ==
  /\ page[w] = "form" /\ \E u \in ups : u.win = w /\ ~u.lost
  /\ ups' = Abandoned(w)
  /\ UNCHANGED <<rows, page, listed, aim, pc, job, server, histories, out, history, count>>

(* MailAttachmentsController#destroy, and the page that drops the file *)
RemoveFile(w, f) ==
  /\ page[w] = "form" /\ f \in listed[w]
  /\ rows' = rows \ {[win |-> w, file |-> f]}
  /\ listed' = [listed EXCEPT ![w] = @ \ {f}]
  /\ unwanted' = unwanted \cup {[win |-> w, file |-> f]}
  /\ UNCHANGED <<page, ups, aim, pc, job, server, histories, out,
                 leftOut, moved, collected, crowded, failed, killed, strays, count>>

(* Sys::File.garbage_collect, when the window has been open for two days *)
GarbageCollect(w) ==
  /\ RowsOf(w) # {} /\ page[w] # "done" /\ Fault
  /\ rows' = {x \in rows : x.win # w}
  /\ collected' = collected \cup {w}
  /\ UNCHANGED <<client, pc, job, server, histories, out,
                 unwanted, leftOut, moved, crowded, failed, killed, strays>>

(* The mail referred to is moved or deleted in another window. *)
LoseRef(r) ==
  /\ r \in refs /\ Fault
  /\ refs' = refs \ {r} /\ moved' = moved \cup {r}
  /\ UNCHANGED <<rows, client, pc, job, flagged, histories, out,
                 unwanted, leftOut, collected, crowded, failed, killed, strays>>
---------------------------------------------------------------------------
(* send_message, save_as_draft                                             *)

(* The window closes.  What its uploads still store is not looked at any more. *)
Close(w) ==
  /\ page' = [page EXCEPT ![w] = "done"]
  /\ listed' = [listed EXCEPT ![w] = {}]
  /\ ups' = {u \in ups : u.win # w}

(* commit_destroy *)
Discard(w) ==
  /\ page[w] = "form"
  /\ rows' = {x \in rows : x.win # w}
  /\ Close(w)
  /\ UNCHANGED <<aim, pc, job, server, histories, out, history, count>>

Submitted(w, draft) ==
  /\ page[w] = "form" /\ pc[w] = "idle"
  /\ ~RefGone(w)
  /\ job' = [job EXCEPT ![w] = [draft |-> draft, ids |-> listed[w], excess |-> 0]]
  /\ page' = [page EXCEPT ![w] = "wait"]
  /\ Goto(w, "put")
  /\ UNCHANGED <<rows, listed, ups, aim, flagged, histories, out, history, count>>

(* Faulty variant of Submit: the draft is deleted before the mail is out. *)
SubmitDeleting(w, draft) ==
  /\ Submitted(w, draft)
  /\ refs' = IF aim[w].kind = "edit" THEN refs \ {aim[w].ref} ELSE refs

(* commit_send, commit_draft: update, answer and forward find the mail     *)
(* they refer to first (404: the user goes back to the form).              *)
Submit(w, draft) == Submitted(w, draft) /\ UNCHANGED refs

Carried(w) == job[w].ids \cap RowsOf(w)

(* delete_tmp_attachments destroys row by row: an exception or a kill may  *)
(* find it between two of them.                                            *)
BrokenOff(w) ==
  \E D \in SUBSET RowsOf(w) : /\ D # {} => pc[w] = "clean"
                              /\ rows' = {x \in rows : x.win # w \/ x.file \notin D}

(* Faulty variant of ShowForm: the attachments submitted are listed again. *)
ShowFormAsSent(w) ==
  /\ page' = [page EXCEPT ![w] = "form"]
  /\ ups' = Abandoned(w)
  /\ Finish(w)
  /\ failed' = failed \cup {w}
  /\ UNCHANGED <<listed, aim>>

(* The form is shown again, with the attachments that are left. *)
ShowForm(w) ==
  /\ page' = [page EXCEPT ![w] = "form"]
  /\ listed' = [listed EXCEPT ![w] = {f \in Carried(w) : [win |-> w, file |-> f] \in rows'}]
  /\ ups' = Abandoned(w)
  /\ Finish(w)
  /\ failed' = failed \cup {w}
  /\ UNCHANGED aim

Put(w) ==
  out' = [out EXCEPT ![w] = Append(@,
           [wanted |-> job[w].ids, carried |-> Carried(w)])]

(* prepare_mail and deliver, or append to Drafts *)
Deliver(w) ==
  /\ pc[w] = "put"
  /\ Put(w)
  /\ Goto(w, "clean")
  /\ UNCHANGED <<rows, client, job, refs, flagged, histories, history, count>>

(* The server refuses, or its answer is lost after it has accepted. *)
DeliverFails(w) ==
  /\ pc[w] = "put" /\ Fault
  /\ Put(w) \/ UNCHANGED out
  /\ UNCHANGED rows /\ ShowForm(w)
  /\ UNCHANGED <<refs, flagged, histories,
                 unwanted, leftOut, moved, collected, crowded, killed, strays>>

(* delete_tmp_attachments *)
DeleteAttachments(w) ==
  /\ pc[w] = "clean"
  /\ rows' = {x \in rows : x.win # w}
  /\ Goto(w, IF job[w].draft THEN "yield" ELSE "history")
  /\ UNCHANGED <<client, job, server, histories, out, history, count>>

CreateHistory(w) ==
  /\ pc[w] = "history"
  /\ histories' = histories + 1
  /\ Goto(w, "count")
  /\ UNCHANGED <<rows, client, job, server, out, history, count>>

(* Faulty variant of CountHistories: the limit is overstepped by one. *)
CountOneLess(w) ==
  /\ pc[w] = "count"
  /\ job' = [job EXCEPT ![w].excess = IF histories > MaxHistory + 1 THEN histories - MaxHistory - 1 ELSE 0]
  /\ Goto(w, "cut")
  /\ UNCHANGED <<rows, client, server, histories, out, history, count>>

CountHistories(w) ==
  /\ pc[w] = "count"
  /\ job' = [job EXCEPT ![w].excess = IF histories > MaxHistory THEN histories - MaxHistory ELSE 0]
  /\ Goto(w, "cut")
  /\ UNCHANGED <<rows, client, server, histories, out, history, count>>

(* DELETE ... LIMIT excess *)
DeleteExceeded(w) ==
  /\ pc[w] = "cut"
  /\ histories' = IF histories > job[w].excess THEN histories - job[w].excess ELSE 0
  /\ Goto(w, "yield")
  /\ UNCHANGED <<rows, client, job, server, out, history, count>>

(* The block of update (remain_draft: the draft is kept), answer, forward *)
Yield(w) ==
  /\ pc[w] = "yield"
  /\ \/ UNCHANGED refs
     \/ aim[w].kind = "edit" /\ refs' = refs \ {aim[w].ref}
  /\ flagged' = IF aim[w].kind \in {"answer", "forward"} THEN flagged \cup {aim[w].ref} ELSE flagged
  /\ IF job[w].draft
     THEN Close(w) /\ Finish(w)
     ELSE Goto(w, "copy") /\ UNCHANGED <<page, listed, ups, job>>
  /\ UNCHANGED <<rows, aim, histories, out, history, count>>

(* append to Sent; a failure is only reported *)
SaveToSent(w) ==
  /\ pc[w] = "copy"
  /\ Close(w) /\ Finish(w)
  /\ UNCHANGED <<rows, aim, server, histories, out, history, count>>

(* Faulty variant of SaveToSentFails: the form is shown again. *)
SaveToSentFailsLoud(w) ==
  /\ pc[w] = "copy" /\ Fault
  /\ page' = [page EXCEPT ![w] = "form"]
  /\ Finish(w)
  /\ UNCHANGED <<rows, listed, ups, aim, server, histories, out, history>>

SaveToSentFails(w) ==
  /\ pc[w] = "copy" /\ Fault
  /\ Close(w) /\ Finish(w)
  /\ UNCHANGED <<rows, aim, server, histories, out, history>>

Stray(w) == strays' = IF pc[w] \in {"count", "cut"} THEN strays + 1 ELSE strays

(* An exception after the mail is out: rescue_exception shows the form     *)
(* again, with what is left of the attachments.                            *)
Fails(w) ==
  /\ pc[w] \in {"clean", "history", "count", "cut", "yield"} /\ Fault
  /\ BrokenOff(w) /\ ShowForm(w) /\ Stray(w)
  /\ UNCHANGED <<server, histories, out,
                 unwanted, leftOut, moved, collected, crowded, killed>>

(* The request is killed: the user goes back to the page, as it was.       *)
Killed(w) ==
  /\ pc[w] # "idle" /\ Fault
  /\ BrokenOff(w)
  /\ page' = [page EXCEPT ![w] = "form"]
  /\ Finish(w) /\ Stray(w)
  /\ killed' = killed \cup {w}
  /\ UNCHANGED <<listed, ups, aim, server, histories, out,
                 unwanted, leftOut, moved, collected, crowded, failed>>

(* reset_address_history *)
ResetHistories ==
  /\ histories > 0 /\ Fault
  /\ histories' = 0
  /\ UNCHANGED <<rows, client, pc, job, server, out, history>>
---------------------------------------------------------------------------
Sending(w) ==
  \/ Deliver(w) \/ DeliverFails(w) \/ DeleteAttachments(w)
  \/ CreateHistory(w) \/ CountHistories(w) \/ DeleteExceeded(w)
  \/ Yield(w) \/ SaveToSent(w) \/ SaveToSentFails(w)
  \/ Fails(w) \/ Killed(w)

Editing(w) ==
  \/ Open(w) \/ Discard(w) \/ GarbageCollect(w) \/ CancelUploads(w)
  \/ \E f \in Files : BeginUpload(w, f) \/ RemoveFile(w, f)
  \/ \E draft \in BOOLEAN : Submit(w, draft)

Next ==
  \/ \E w \in Windows : Editing(w) \/ Sending(w)
  \/ \E u \in ups : Store(u) \/ StoreFails(u) \/ UploadAnswer(u)
  \/ \E r \in Refs : LoseRef(r)
  \/ ResetHistories

Spec == Init /\ [][Next]_vars
---------------------------------------------------------------------------
(* Every attachment that the page listed when the user sent or saved the   *)
(* mail, and did not remove, is in what was delivered or saved, also from  *)
(* a form that was shown again after an error.  The exceptions: the files  *)
(* were collected as garbage, or the request was killed after it had       *)
(* deleted the files and the user sends the page again as it was.          *)
AttachmentsTravel ==
  \A w \in Windows \ (collected \cup killed) : \A i \in DOMAIN out[w] :
    out[w][i].wanted \subseteq out[w][i].carried

(* A window delivers or saves its mail once, unless the user was shown an  *)
(* error before, or nothing.                                               *)
OutOnce == \A w \in Windows \ (failed \cup killed) : Len(out[w]) <= 1

(* A draft that was edited is deleted only after a window that edited it   *)
(* has delivered it or saved it anew, with all its attachments but those   *)
(* the user removed and those that the window was opened without (beyond   *)
(* the limit, or not stored: mail.rb 174-181); and a mail is flagged as    *)
(* answered or forwarded only after that happened.  The other exceptions   *)
(* are those of AttachmentsTravel.                                         *)
OutFor(r, kinds) == {w \in Windows : aim[w].ref = r /\ aim[w].kind \in kinds /\ out[w] # <<>>}
Complete(w, r) ==
  \/ w \in collected \cup killed
  \/ \E i \in DOMAIN out[w] : \A f \in RefFiles[r] :
       f \in out[w][i].carried \/ [win |-> w, file |-> f] \in unwanted \cup leftOut
DraftKept ==
  /\ \A r \in Refs \ (refs \cup moved) : \E w \in OutFor(r, {"edit"}) : Complete(w, r)
  /\ \A r \in flagged : OutFor(r, {"answer", "forward"}) # {}

(* The attachments of a window stay within the limit, unless an upload     *)
(* that the page had given up was still running when the next one began.   *)
LimitKept == \A w \in Windows \ crowded : Total(RowsOf(w)) <= MaxSize

(* The history of addresses exceeds its limit by what unfinished requests  *)
(* have added only, however they overlap.                                  *)
HistoryBounded ==
  histories <= MaxHistory + strays + Cardinality({w \in Windows : pc[w] \in {"count", "cut"}})
===========================================================================
