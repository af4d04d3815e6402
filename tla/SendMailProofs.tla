-------------------------- MODULE SendMailProofs --------------------------
(***************************************************************************)
(* Theorems about SendMail: what reaches the recipients or the drafts, the *)
(* limit of the attachments, and what happens to drafts and the history of *)
(* addresses, for any windows, files and mails, and any number of uploads, *)
(* errors and killed requests.                                             *)
(***************************************************************************)
EXTENDS SendMail, FiniteSetTheorems, TLAPS

Late == {"clean", "history", "count", "cut", "yield", "copy"}
Kinds == {"new", "edit", "answer", "forward"}
Mail == [wanted : SUBSET Files, carried : SUBSET Files]

Pages == /\ DOMAIN page = Windows
         /\ listed \in [Windows -> SUBSET Files]
         /\ aim \in [Windows -> [kind : Kinds, ref : Refs \cup {NoRef}]]
Tasks == /\ pc \in [Windows -> {"idle", "put"} \cup Late]
         /\ DOMAIN job = Windows
         /\ \A w \in Windows : /\ DOMAIN job[w] = {"draft", "ids", "excess"}
                             /\ job[w].ids \subseteq Files /\ job[w].excess \in Nat
Uploads == /\ rows \subseteq [win : Windows, file : Files]
           /\ \A u \in ups : /\ DOMAIN u = {"win", "file", "stored", "lost"}
                            /\ u.win \in Windows /\ u.file \in Files
Counters == histories \in Nat /\ strays \in Nat
Results == out \in [Windows -> Seq(Mail)]
Shape == Pages /\ Tasks /\ Uploads /\ Counters /\ Results

(* A page waits exactly while its request runs; a request past "put" has   *)
(* let the mail out, and one that has not is the first, unless the user    *)
(* was told of an error, or nothing.                                       *)
Turns ==
  \A w \in Windows :
    /\ pc[w] # "idle" <=> page[w] = "wait"
    /\ page[w] = "closed" => out[w] = <<>> /\ \A u \in ups : u.win # w
    /\ pc[w] \in Late => out[w] # <<>>
    /\ page[w] \in {"closed", "form"} \/ pc[w] = "put" => w \in failed \cup killed \/ out[w] = <<>>

(* An upload that has not stored its file is the only one of it, and the   *)
(* file is not there yet.                                                  *)
UploadsApart ==
  /\ \A u, v \in ups : u.win = v.win /\ u.file = v.file => u = v
  /\ \A u \in ups : ~u.stored => [win |-> u.win, file |-> u.file] \notin rows

(* What a page lists, and what its request was given, is there.            *)
There(w, f) == [win |-> w, file |-> f] \in rows
Here(w) ==
  /\ page[w] = "form" =>
       /\ \A f \in listed[w] : There(w, f)
       /\ \A u \in ups : u.win = w /\ u.stored => There(w, u.file) /\ u.file \notin listed[w]
  /\ pc[w] = "put" => \A f \in job[w].ids : There(w, f)
ListedThere == \A w \in Windows \ (collected \cup killed) : Here(w)

(* The attachments of the draft a window edits are with the window until   *)
(* they are out.                                                           *)
Missing(w) == {f \in RefFiles[aim[w].ref] : [win |-> w, file |-> f] \notin unwanted \cup leftOut}
DraftHere(w) ==
  aim[w].kind = "edit" =>
    \/ Complete(w, aim[w].ref)
    \/ page[w] = "form" /\ Missing(w) \subseteq listed[w]
    \/ pc[w] = "put" /\ Missing(w) \subseteq job[w].ids
    \/ page[w] = "done"
DraftThere == \A w \in Windows \ (collected \cup killed) : DraftHere(w)

(* The requests that have added to the history and not cut it yet, but for *)
(* those that counted when there was nothing to be cut.                    *)
Owing == {w \in Windows : pc[w] = "count" \/ (pc[w] = "cut" /\ job[w].excess > 0)}
OwedOnly == histories <= MaxHistory + strays + Cardinality(Owing)
---------------------------------------------------------------------------
(* The history starts within its limit.                                    *)
LEMMA HistoryConstants == MaxHistory \in Nat /\ FirstHistory \in Nat /\ FirstHistory <= MaxHistory
  BY SendMailAssumption

(* What a window is opened with says what it needs.                        *)
LEMMA OpenedTyped ==
  ASSUME NEW o \in Opened
  PROVE  /\ o.kind \in Kinds /\ o.ref \in Refs \cup {NoRef}
         /\ o.kind \in {"edit", "forward"} => o.ref \in Refs /\ RefFiles[o.ref] \subseteq Files
  BY SendMailAssumption DEF Kinds

(* What a mail carries are files.                                          *)
LEMMA CarriedTyped == ASSUME Shape, NEW w \in Windows PROVE Carried(w) \subseteq Files
  BY DEF Shape, Tasks, Carried

(* What is broken off has taken files of its own window only, and none     *)
(* while the mail is not out.                                              *)
LEMMA BrokenOffTakes ==
  ASSUME NEW w \in Windows, BrokenOff(w)
  PROVE  /\ rows' \subseteq rows /\ \A x \in rows : x.win # w => x \in rows'
         /\ pc[w] # "clean" => rows' = rows
  BY DEF BrokenOff

(* What is out stays a sequence of mails when one more is let out.         *)
LEMMA PutTyped == ASSUME Shape, NEW w \in Windows, Put(w) PROVE Results'
<1> DEFINE mail == [wanted |-> job[w].ids, carried |-> Carried(w)]
<1>1. mail \in Mail
  BY CarriedTyped DEF Shape, Tasks, Mail
<1>2. out' = [out EXCEPT ![w] = Append(@, mail)]
  BY DEF Put
<1> QED BY <1>1, <1>2 DEF Shape, Results

(* The variables start with values of their types.                         *)
LEMMA ShapeInit == Init => Shape
<1> SUFFICES ASSUME Init PROVE Shape
  OBVIOUS
<1>1. Pages
  BY DEF Init, Pages, Kinds
<1>2. Tasks
  BY DEF Init, Tasks, NoJob
<1>3. Uploads /\ Counters /\ Results
  BY HistoryConstants DEF Init, Uploads, Counters, Results
<1> QED BY <1>1, <1>2, <1>3 DEF Shape

(* Every step keeps the types.                                             *)
LEMMA ShapeNext == Shape /\ [Next]_vars => Shape'
<1> SUFFICES ASSUME Shape, [Next]_vars PROVE Shape'
  OBVIOUS
<1> USE DEF Shape, Late, Kinds, Mail, server, client, history, count, Goto, NoJob
<1>1. ASSUME NEW w \in Windows, Open(w) PROVE Shape'
  <2>1. PICK o \in Opened : o.win = w /\ OpenFor(w, o.kind, o.ref)
    BY <1>1 DEF Open
  <2>2. Copies(o.kind, o.ref) \subseteq Files /\ o.kind \in Kinds /\ o.ref \in Refs \cup {NoRef}
    BY OpenedTyped DEF Copies
  <2>3. Pages'
    BY <2>1, <2>2 DEF Pages, OpenFor
  <2>4. Tasks'
    BY <2>1, <2>2 DEF Tasks, OpenFor
  <2>5. Uploads'
    BY <2>1, <2>2 DEF Uploads, OpenFor
  <2>6. Counters'
    BY <2>1, <2>2 DEF Counters, OpenFor
  <2>7. Results'
    BY <2>1, <2>2 DEF Results, OpenFor
  <2> QED BY <2>3, <2>4, <2>5, <2>6, <2>7
<1>2. ASSUME NEW w \in Windows, Discard(w) PROVE Shape'
  <2>1. Pages'
    BY <1>2 DEF Pages, Discard, Close
  <2>2. Tasks'
    BY <1>2 DEF Tasks, Discard, Close
  <2>3. Uploads'
    BY <1>2 DEF Uploads, Discard, Close
  <2>4. Counters'
    BY <1>2 DEF Counters, Discard, Close
  <2>5. Results'
    BY <1>2 DEF Results, Discard, Close
  <2> QED BY <2>1, <2>2, <2>3, <2>4, <2>5
<1>3. ASSUME NEW w \in Windows, GarbageCollect(w) PROVE Shape'
  <2>1. Pages'
    BY <1>3 DEF Pages, GarbageCollect
  <2>2. Tasks'
    BY <1>3 DEF Tasks, GarbageCollect
  <2>3. Uploads'
    BY <1>3 DEF Uploads, GarbageCollect
  <2>4. Counters'
    BY <1>3 DEF Counters, GarbageCollect
  <2>5. Results'
    BY <1>3 DEF Results, GarbageCollect
  <2> QED BY <2>1, <2>2, <2>3, <2>4, <2>5
<1>4. ASSUME NEW w \in Windows, CancelUploads(w) PROVE Shape'
  <2>1. Pages'
    BY <1>4 DEF Pages, CancelUploads, Abandoned
  <2>2. Tasks'
    BY <1>4 DEF Tasks, CancelUploads, Abandoned
  <2>3. Uploads'
    BY <1>4 DEF Uploads, CancelUploads, Abandoned
  <2>4. Counters'
    BY <1>4 DEF Counters, CancelUploads, Abandoned
  <2>5. Results'
    BY <1>4 DEF Results, CancelUploads, Abandoned
  <2> QED BY <2>1, <2>2, <2>3, <2>4, <2>5
<1>5. ASSUME NEW w \in Windows, NEW f \in Files, BeginUpload(w, f) PROVE Shape'
  <2>1. Pages'
    BY <1>5 DEF Pages, BeginUpload
  <2>2. Tasks'
    BY <1>5 DEF Tasks, BeginUpload
  <2>3. Uploads'
    <3>1. rows' = rows /\ ups' = ups \cup {[win |-> w, file |-> f, stored |-> FALSE, lost |-> FALSE]}
      BY <1>5 DEF BeginUpload
    <3> QED BY <3>1 DEF Uploads
  <2>4. Counters'
    BY <1>5 DEF Counters, BeginUpload
  <2>5. Results'
    BY <1>5 DEF Results, BeginUpload
  <2> QED BY <2>1, <2>2, <2>3, <2>4, <2>5
<1>6. ASSUME NEW w \in Windows, NEW f \in Files, RemoveFile(w, f) PROVE Shape'
  <2>1. Pages'
    BY <1>6 DEF Pages, RemoveFile
  <2>2. Tasks'
    BY <1>6 DEF Tasks, RemoveFile
  <2>3. Uploads'
    BY <1>6 DEF Uploads, RemoveFile
  <2>4. Counters'
    BY <1>6 DEF Counters, RemoveFile
  <2>5. Results'
    BY <1>6 DEF Results, RemoveFile
  <2> QED BY <2>1, <2>2, <2>3, <2>4, <2>5
<1>7. ASSUME NEW w \in Windows, NEW draft \in BOOLEAN, Submit(w, draft) PROVE Shape'
  <2>1. Pages'
    BY <1>7 DEF Pages, Submit, Submitted
  <2>2. Tasks'
    <3>1. pc' = [pc EXCEPT ![w] = "put"]
          /\ job' = [job EXCEPT ![w] = [draft |-> draft, ids |-> listed[w], excess |-> 0]]
      BY <1>7 DEF Submit, Submitted
    <3> QED BY <3>1 DEF Tasks, Pages
  <2>3. Uploads'
    BY <1>7 DEF Uploads, Submit, Submitted
  <2>4. Counters'
    BY <1>7 DEF Counters, Submit, Submitted
  <2>5. Results'
    BY <1>7 DEF Results, Submit, Submitted
  <2> QED BY <2>1, <2>2, <2>3, <2>4, <2>5
<1>8. ASSUME NEW w \in Windows, Deliver(w) PROVE Shape'
  <2>1. Pages'
    BY <1>8 DEF Pages, Deliver, Put, Carried, RowsOf
  <2>2. Tasks'
    BY <1>8 DEF Tasks, Deliver, Put, Carried, RowsOf
  <2>3. Uploads'
    BY <1>8 DEF Uploads, Deliver, Put, Carried, RowsOf
  <2>4. Counters'
    BY <1>8 DEF Counters, Deliver, Put, Carried, RowsOf
  <2>5. Results'
    BY <1>8, PutTyped DEF Results, Deliver
  <2> QED BY <2>1, <2>2, <2>3, <2>4, <2>5
<1>9. ASSUME NEW w \in Windows, DeliverFails(w) PROVE Shape'
  <2>1. Pages'
    BY <1>9, CarriedTyped DEF Pages, DeliverFails, ShowForm
  <2>2. Tasks'
    BY <1>9 DEF Tasks, DeliverFails, Put, Carried, ShowForm, Abandoned, Finish, RowsOf
  <2>3. Uploads'
    BY <1>9 DEF Uploads, DeliverFails, Put, Carried, ShowForm, Abandoned, Finish, RowsOf
  <2>4. Counters'
    BY <1>9 DEF Counters, DeliverFails, Put, Carried, ShowForm, Abandoned, Finish, RowsOf
  <2>5. Results'
    BY <1>9, PutTyped DEF Results, DeliverFails
  <2> QED BY <2>1, <2>2, <2>3, <2>4, <2>5
<1>10. ASSUME NEW w \in Windows, DeleteAttachments(w) PROVE Shape'
  <2>1. Pages'
    BY <1>10 DEF Pages, DeleteAttachments
  <2>2. Tasks'
    BY <1>10 DEF Tasks, DeleteAttachments
  <2>3. Uploads'
    BY <1>10 DEF Uploads, DeleteAttachments
  <2>4. Counters'
    BY <1>10 DEF Counters, DeleteAttachments
  <2>5. Results'
    BY <1>10 DEF Results, DeleteAttachments
  <2> QED BY <2>1, <2>2, <2>3, <2>4, <2>5
<1>11. ASSUME NEW w \in Windows, CreateHistory(w) PROVE Shape'
  <2>1. Pages'
    BY <1>11 DEF Pages, CreateHistory
  <2>2. Tasks'
    BY <1>11 DEF Tasks, CreateHistory
  <2>3. Uploads'
    BY <1>11 DEF Uploads, CreateHistory
  <2>4. Counters'
    <3>1. histories' = histories + 1 /\ strays' = strays
      BY <1>11 DEF CreateHistory
    <3> QED BY <3>1 DEF Counters
  <2>5. Results'
    BY <1>11 DEF Results, CreateHistory
  <2> QED BY <2>1, <2>2, <2>3, <2>4, <2>5
<1>12. ASSUME NEW w \in Windows, CountHistories(w) PROVE Shape'
  <2>1. Pages'
    BY <1>12, HistoryConstants DEF Pages, CountHistories
  <2>2. Tasks'
    BY <1>12, HistoryConstants DEF Tasks, Counters, CountHistories
  <2>3. Uploads'
    BY <1>12, HistoryConstants DEF Uploads, CountHistories
  <2>4. Counters'
    BY <1>12, HistoryConstants DEF Counters, CountHistories
  <2>5. Results'
    BY <1>12, HistoryConstants DEF Results, CountHistories
  <2> QED BY <2>1, <2>2, <2>3, <2>4, <2>5
<1>13. ASSUME NEW w \in Windows, DeleteExceeded(w) PROVE Shape'
  <2>1. Pages'
    BY <1>13 DEF Pages, DeleteExceeded
  <2>2. Tasks'
    BY <1>13 DEF Tasks, DeleteExceeded
  <2>3. Uploads'
    BY <1>13 DEF Uploads, DeleteExceeded
  <2>4. Counters'
    BY <1>13 DEF Counters, Tasks, DeleteExceeded
  <2>5. Results'
    BY <1>13 DEF Results, DeleteExceeded
  <2> QED BY <2>1, <2>2, <2>3, <2>4, <2>5
<1>14. ASSUME NEW w \in Windows, Yield(w) PROVE Shape'
  <2>1. Pages'
    BY <1>14 DEF Pages, Yield, Close, Finish
  <2>2. Tasks'
    BY <1>14 DEF Tasks, Yield, Close, Finish
  <2>3. Uploads'
    BY <1>14 DEF Uploads, Yield, Close, Finish
  <2>4. Counters'
    BY <1>14 DEF Counters, Yield, Close, Finish
  <2>5. Results'
    BY <1>14 DEF Results, Yield, Close, Finish
  <2> QED BY <2>1, <2>2, <2>3, <2>4, <2>5
<1>15. ASSUME NEW w \in Windows, SaveToSent(w) \/ SaveToSentFails(w) PROVE Shape'
  <2>1. Pages'
    BY <1>15 DEF Pages, SaveToSent, SaveToSentFails, Close, Finish
  <2>2. Tasks'
    BY <1>15 DEF Tasks, SaveToSent, SaveToSentFails, Close, Finish
  <2>3. Uploads'
    BY <1>15 DEF Uploads, SaveToSent, SaveToSentFails, Close, Finish
  <2>4. Counters'
    BY <1>15 DEF Counters, SaveToSent, SaveToSentFails, Close, Finish
  <2>5. Results'
    BY <1>15 DEF Results, SaveToSent, SaveToSentFails, Close, Finish
  <2> QED BY <2>1, <2>2, <2>3, <2>4, <2>5
<1>16. ASSUME NEW w \in Windows, Fails(w) PROVE Shape'
  <2>1. Pages'
    BY <1>16, CarriedTyped DEF Pages, Fails, ShowForm
  <2>2. Tasks'
    BY <1>16 DEF Tasks, Fails, Carried, ShowForm, Abandoned, Finish, Stray, RowsOf
  <2>3. Uploads'
    BY <1>16, BrokenOffTakes DEF Uploads, Fails, ShowForm, Abandoned, Finish, Stray
  <2>4. Counters'
    BY <1>16 DEF Counters, Fails, Carried, ShowForm, Abandoned, Finish, Stray, RowsOf
  <2>5. Results'
    BY <1>16 DEF Results, Fails, Carried, ShowForm, Abandoned, Finish, Stray, RowsOf
  <2> QED BY <2>1, <2>2, <2>3, <2>4, <2>5
<1>17. ASSUME NEW w \in Windows, Killed(w) PROVE Shape'
  <2>1. Pages'
    BY <1>17 DEF Pages, Killed, Finish, Stray
  <2>2. Tasks'
    BY <1>17 DEF Tasks, Killed, Finish, Stray
  <2>3. Uploads'
    BY <1>17, BrokenOffTakes DEF Uploads, Killed, Finish, Stray
  <2>4. Counters'
    BY <1>17 DEF Counters, Killed, Finish, Stray
  <2>5. Results'
    BY <1>17 DEF Results, Killed, Finish, Stray
  <2> QED BY <2>1, <2>2, <2>3, <2>4, <2>5
<1>18. ASSUME NEW u \in ups, Store(u) PROVE Shape'
  <2>1. Pages'
    BY <1>18 DEF Pages, Store
  <2>2. Tasks'
    BY <1>18 DEF Tasks, Store
  <2>3. Uploads'
    BY <1>18 DEF Uploads, Store
  <2>4. Counters'
    BY <1>18 DEF Counters, Store
  <2>5. Results'
    BY <1>18 DEF Results, Store
  <2> QED BY <2>1, <2>2, <2>3, <2>4, <2>5
<1>19. ASSUME NEW u \in ups, StoreFails(u) \/ UploadAnswer(u) PROVE Shape'
  <2>1. Pages'
    BY <1>19 DEF Pages, Uploads, StoreFails, UploadAnswer
  <2>2. Tasks'
    BY <1>19 DEF Tasks, StoreFails, UploadAnswer
  <2>3. Uploads'
    BY <1>19 DEF Uploads, StoreFails, UploadAnswer
  <2>4. Counters'
    BY <1>19 DEF Counters, StoreFails, UploadAnswer
  <2>5. Results'
    BY <1>19 DEF Results, StoreFails, UploadAnswer
  <2> QED BY <2>1, <2>2, <2>3, <2>4, <2>5
<1>20. ASSUME NEW r \in Refs, LoseRef(r) PROVE Shape'
  <2>1. Pages'
    BY <1>20 DEF Pages, LoseRef
  <2>2. Tasks'
    BY <1>20 DEF Tasks, LoseRef
  <2>3. Uploads'
    BY <1>20 DEF Uploads, LoseRef
  <2>4. Counters'
    BY <1>20 DEF Counters, LoseRef
  <2>5. Results'
    BY <1>20 DEF Results, LoseRef
  <2> QED BY <2>1, <2>2, <2>3, <2>4, <2>5
<1>21. CASE ResetHistories \/ UNCHANGED vars
  <2>1. Pages'
    BY <1>21 DEF Pages, ResetHistories, vars
  <2>2. Tasks'
    BY <1>21 DEF Tasks, ResetHistories, vars
  <2>3. Uploads'
    BY <1>21 DEF Uploads, ResetHistories, vars
  <2>4. Counters'
    BY <1>21 DEF Counters, ResetHistories, vars
  <2>5. Results'
    BY <1>21 DEF Results, ResetHistories, vars
  <2> QED BY <2>1, <2>2, <2>3, <2>4, <2>5
<1> QED
  BY <1>1, <1>2, <1>3, <1>4, <1>5, <1>6, <1>7, <1>8, <1>9, <1>10, <1>11, <1>12, <1>13, <1>14, <1>15,
     <1>16, <1>17, <1>18, <1>19, <1>20, <1>21 DEF Next, Editing, Sending
---------------------------------------------------------------------------
(* A page waits exactly while its request runs, before and after every     *)
(* step.                                                                   *)
LEMMA TurnsNext == (Shape /\ Turns) /\ [Next]_vars => Turns'
<1> SUFFICES ASSUME (Shape /\ Turns), [Next]_vars PROVE Turns'
  OBVIOUS
<1> USE DEF Shape, Turns, Pages, Tasks, Uploads, Results, Late, Mail, server, client, history, count, Goto
<1>1. ASSUME NEW w \in Windows, Open(w) PROVE Turns'
  BY <1>1 DEF Open, OpenFor
<1>2. ASSUME NEW w \in Windows, Discard(w) PROVE Turns'
  BY <1>2 DEF Discard, Close
<1>3. ASSUME NEW w \in Windows, GarbageCollect(w) PROVE Turns'
  BY <1>3 DEF GarbageCollect
<1>4. ASSUME NEW w \in Windows, CancelUploads(w) PROVE Turns'
  BY <1>4 DEF CancelUploads, Abandoned
<1>5. ASSUME NEW w \in Windows, NEW f \in Files, BeginUpload(w, f) PROVE Turns'
  BY <1>5 DEF BeginUpload
<1>6. ASSUME NEW w \in Windows, NEW f \in Files, RemoveFile(w, f) PROVE Turns'
  BY <1>6 DEF RemoveFile
<1>7. ASSUME NEW w \in Windows, NEW draft \in BOOLEAN, Submit(w, draft) PROVE Turns'
  BY <1>7 DEF Submit, Submitted
<1>8. ASSUME NEW w \in Windows, Deliver(w) PROVE Turns'
  BY <1>8 DEF Deliver, Put
<1>9. ASSUME NEW w \in Windows, DeliverFails(w) PROVE Turns'
  BY <1>9 DEF DeliverFails, Put, ShowForm, Abandoned, Finish
<1>10. ASSUME NEW w \in Windows, DeleteAttachments(w) PROVE Turns'
  BY <1>10 DEF DeleteAttachments
<1>11. ASSUME NEW w \in Windows, CreateHistory(w) PROVE Turns'
  BY <1>11 DEF CreateHistory
<1>12. ASSUME NEW w \in Windows, CountHistories(w) PROVE Turns'
  BY <1>12 DEF CountHistories
<1>13. ASSUME NEW w \in Windows, DeleteExceeded(w) PROVE Turns'
  BY <1>13 DEF DeleteExceeded
<1>14. ASSUME NEW w \in Windows, Yield(w) PROVE Turns'
  BY <1>14 DEF Yield, Close, Finish
<1>15. ASSUME NEW w \in Windows, SaveToSent(w) \/ SaveToSentFails(w) PROVE Turns'
  BY <1>15 DEF SaveToSent, SaveToSentFails, Close, Finish
<1>16. ASSUME NEW w \in Windows, Fails(w) PROVE Turns'
  BY <1>16 DEF Fails, ShowForm, Abandoned, Finish
<1>17. ASSUME NEW w \in Windows, Killed(w) PROVE Turns'
  BY <1>17 DEF Killed, Finish
<1>18. ASSUME NEW u \in ups, Store(u) PROVE Turns'
  BY <1>18 DEF Store
<1>19. ASSUME NEW u \in ups, StoreFails(u) \/ UploadAnswer(u) PROVE Turns'
  BY <1>19 DEF StoreFails, UploadAnswer
<1>20. ASSUME NEW r \in Refs, LoseRef(r) PROVE Turns'
  BY <1>20 DEF LoseRef
<1>21. CASE ResetHistories \/ UNCHANGED vars
  BY <1>21 DEF ResetHistories, vars
<1> QED
  BY <1>1, <1>2, <1>3, <1>4, <1>5, <1>6, <1>7, <1>8, <1>9, <1>10, <1>11, <1>12, <1>13, <1>14, <1>15,
     <1>16, <1>17, <1>18, <1>19, <1>20, <1>21 DEF Next, Editing, Sending
---------------------------------------------------------------------------
(* What a page that no longer waits for its uploads leaves of them.        *)
LEMMA AbandonedFrom ==
  ASSUME Uploads, NEW w \in Windows, NEW v \in Abandoned(w)
  PROVE  \/ v \in ups /\ v.win # w
         \/ \E u \in ups : /\ u.win = w /\ ~u.stored /\ v = [u EXCEPT !.lost = TRUE]
                          /\ v.win = w /\ v.file = u.file /\ v.stored = u.stored
  BY DEF Uploads, Abandoned

(* An upload that is given up leaves the others apart.                     *)
LEMMA ApartAbandoned ==
  ASSUME Uploads, UploadsApart, NEW w \in Windows, ups' = Abandoned(w), rows' \subseteq rows
  PROVE  UploadsApart'
<1>1. ASSUME NEW u \in ups', NEW v \in ups', u.win = v.win, u.file = v.file PROVE u = v
  <2>1. CASE u.win # w
    BY <1>1, <2>1, AbandonedFrom DEF UploadsApart
  <2>2. CASE u.win = w
    <3>1. PICK a \in ups : a.win = w /\ u = [a EXCEPT !.lost = TRUE] /\ u.file = a.file
      BY <1>1, <2>2, AbandonedFrom
    <3>2. PICK b \in ups : b.win = w /\ v = [b EXCEPT !.lost = TRUE] /\ v.file = b.file
      <4>1. v \in Abandoned(w) /\ v.win = w
        BY <1>1, <2>2
      <4> QED BY <4>1, AbandonedFrom
    <3>3. a = b
      BY <1>1, <3>1, <3>2 DEF UploadsApart
    <3> QED BY <3>1, <3>2, <3>3
  <2> QED BY <2>1, <2>2
<1>2. ASSUME NEW u \in ups', ~u.stored PROVE [win |-> u.win, file |-> u.file] \notin rows'
  BY <1>2, AbandonedFrom DEF UploadsApart
<1> QED BY <1>1, <1>2 DEF UploadsApart

(* Every step leaves the uploads under way apart.                          *)
LEMMA ApartNext == Shape /\ Turns /\ UploadsApart /\ [Next]_vars => UploadsApart'
<1> SUFFICES ASSUME Shape, Turns, UploadsApart, [Next]_vars PROVE UploadsApart'
  OBVIOUS
<1> USE DEF Shape, UploadsApart, Pages, Uploads, server, client, history, count, Goto
<1>1. ASSUME NEW w \in Windows, Open(w) PROVE UploadsApart'
  <2>1. PICK K : /\ rows' = rows \cup {[win |-> w, file |-> f] : f \in K}
                  /\ page[w] = "closed" /\ ups' = ups
    BY <1>1 DEF Open, OpenFor
  <2>2. \A u \in ups : u.win # w
    BY <2>1 DEF Turns
  <2> QED BY <2>1, <2>2
<1>2. ASSUME NEW w \in Windows, Discard(w) PROVE UploadsApart'
  BY <1>2 DEF Discard, Close
<1>3. ASSUME NEW w \in Windows, GarbageCollect(w) PROVE UploadsApart'
  BY <1>3 DEF GarbageCollect
<1>4. ASSUME NEW w \in Windows, CancelUploads(w) PROVE UploadsApart'
  BY <1>4, ApartAbandoned DEF CancelUploads
<1>5. ASSUME NEW w \in Windows, NEW f \in Files, BeginUpload(w, f) PROVE UploadsApart'
  <2> DEFINE new == [win |-> w, file |-> f, stored |-> FALSE, lost |-> FALSE]
  <2>1. /\ rows' = rows /\ ups' = ups \cup {new}
        /\ [win |-> w, file |-> f] \notin rows /\ \A u \in ups : u.win = w => u.file # f
    BY <1>5 DEF BeginUpload
  <2>2. new.win = w /\ new.file = f
    OBVIOUS
  <2> HIDE DEF new
  <2>3. \A a, b \in ups' : a.win = b.win /\ a.file = b.file => a = b
    BY <2>1, <2>2
  <2>4. \A a \in ups' : ~a.stored => [win |-> a.win, file |-> a.file] \notin rows'
    BY <2>1, <2>2
  <2> QED BY <2>3, <2>4
<1>6. ASSUME NEW w \in Windows, NEW f \in Files, RemoveFile(w, f) PROVE UploadsApart'
  BY <1>6 DEF RemoveFile
<1>7. ASSUME NEW w \in Windows, NEW draft \in BOOLEAN, Submit(w, draft) PROVE UploadsApart'
  BY <1>7 DEF Submit, Submitted
<1>8. ASSUME NEW w \in Windows, Deliver(w) PROVE UploadsApart'
  BY <1>8 DEF Deliver, Put
<1>9. ASSUME NEW w \in Windows, DeliverFails(w) PROVE UploadsApart'
  BY <1>9, ApartAbandoned DEF DeliverFails, ShowForm
<1>10. ASSUME NEW w \in Windows, DeleteAttachments(w) PROVE UploadsApart'
  BY <1>10 DEF DeleteAttachments
<1>11. ASSUME NEW w \in Windows, CreateHistory(w) PROVE UploadsApart'
  BY <1>11 DEF CreateHistory
<1>12. ASSUME NEW w \in Windows, CountHistories(w) PROVE UploadsApart'
  BY <1>12 DEF CountHistories
<1>13. ASSUME NEW w \in Windows, DeleteExceeded(w) PROVE UploadsApart'
  BY <1>13 DEF DeleteExceeded
<1>14. ASSUME NEW w \in Windows, Yield(w) PROVE UploadsApart'
  BY <1>14 DEF Yield, Close, Finish
<1>15. ASSUME NEW w \in Windows, SaveToSent(w) \/ SaveToSentFails(w) PROVE UploadsApart'
  BY <1>15 DEF SaveToSent, SaveToSentFails, Close, Finish
<1>16. ASSUME NEW w \in Windows, Fails(w) PROVE UploadsApart'
  <2>1. ups' = Abandoned(w) /\ rows' \subseteq rows
    BY <1>16, BrokenOffTakes DEF Fails, ShowForm
  <2> QED BY <2>1, ApartAbandoned
<1>17. ASSUME NEW w \in Windows, Killed(w) PROVE UploadsApart'
  BY <1>17, BrokenOffTakes DEF Killed, Finish
<1>18. ASSUME NEW u \in ups, Store(u) PROVE UploadsApart'
  <2> DEFINE t == [u EXCEPT !.stored = TRUE]
  <2>1. /\ rows' = rows \cup {[win |-> u.win, file |-> u.file]} /\ ~u.stored
        /\ ups' = ups \ {u} \/ ups' = (ups \ {u}) \cup {t}
    BY <1>18 DEF Store
  <2>2. t.win = u.win /\ t.file = u.file /\ t.stored = TRUE
    OBVIOUS
  <2> HIDE DEF t
  <2>3. \A v \in ups \ {u} : v.win # u.win \/ v.file # u.file
    OBVIOUS
  <2>4. \A a, b \in ups' : a.win = b.win /\ a.file = b.file => a = b
    BY <2>1, <2>2, <2>3
  <2>5. \A a \in ups' : ~a.stored => [win |-> a.win, file |-> a.file] \notin rows'
    BY <2>1, <2>2, <2>3
  <2> QED BY <2>4, <2>5
<1>19. ASSUME NEW u \in ups, StoreFails(u) \/ UploadAnswer(u) PROVE UploadsApart'
  BY <1>19 DEF StoreFails, UploadAnswer
<1>20. ASSUME NEW r \in Refs, LoseRef(r) PROVE UploadsApart'
  BY <1>20 DEF LoseRef
<1>21. CASE ResetHistories \/ UNCHANGED vars
  BY <1>21 DEF ResetHistories, vars
<1> QED
  BY <1>1, <1>2, <1>3, <1>4, <1>5, <1>6, <1>7, <1>8, <1>9, <1>10, <1>11, <1>12, <1>13, <1>14, <1>15,
     <1>16, <1>17, <1>18, <1>19, <1>20, <1>21 DEF Next, Editing, Sending
---------------------------------------------------------------------------
(* What a mail carries is listed and has a row.                            *)
LEMMA CarriedThere == ASSUME Uploads, NEW w \in Windows, NEW f \in Carried(w) PROVE f \in job[w].ids /\ There(w, f)
  BY DEF Uploads, Carried, RowsOf, There

(* A step of one window, or of an upload of its.                           *)
LEMMA ListedStep ==
  ASSUME ListedThere, NEW w \in Windows,
         \A q \in Windows \ {w} : /\ page'[q] = page[q] /\ pc'[q] = pc[q]
                                  /\ listed'[q] = listed[q] /\ job'[q] = job[q]
                                  /\ \A f : There(q, f) => There(q, f)',
         \A u \in ups' : u.win # w => u \in ups,
         collected \subseteq collected', killed \subseteq killed',
         w \notin collected' \cup killed' => Here(w)'
  PROVE  ListedThere'
<1> SUFFICES ASSUME NEW q \in Windows \ {w}, Here(q) PROVE Here(q)'
  BY DEF ListedThere
<1> QED BY DEF Here

(* The form is shown again.                                                *)
LEMMA ListedShown ==
  ASSUME Shape, ListedThere, NEW w \in Windows, ShowForm(w), UNCHANGED <<collected, killed>>,
         rows' \subseteq rows, \A x \in rows : x.win # w => x \in rows'
  PROVE  ListedThere'
<1> DEFINE left == {f \in Carried(w) : [win |-> w, file |-> f] \in rows'}
<1>1. /\ page' = [page EXCEPT ![w] = "form"] /\ listed' = [listed EXCEPT ![w] = left]
      /\ ups' = Abandoned(w) /\ pc' = [pc EXCEPT ![w] = "idle"] /\ job' = [job EXCEPT ![w] = NoJob]
  BY DEF ShowForm, Finish, Goto
<1>2. \A u \in ups' : (u.win # w => u \in ups) /\ (u.win = w => ~u.stored)
  BY <1>1, AbandonedFrom DEF Shape
<1>3. \A f \in left : There(w, f)'
  BY DEF There
<1> HIDE DEF left
<1>4. Here(w)'
  BY <1>1, <1>2, <1>3 DEF Here, Shape, Pages, Tasks
<1> QED BY <1>1, <1>2, <1>4, ListedStep DEF There, Shape, Pages, Tasks

(* A step of a request that has let the mail out.                          *)
LEMMA ListedLate ==
  ASSUME Shape, Turns, ListedThere, NEW w \in Windows, pc[w] \in {"put"} \cup Late, pc'[w] \in Late,
         \A q \in Windows \ {w} : pc'[q] = pc[q] /\ job'[q] = job[q],
         rows' \in {rows, {x \in rows : x.win # w}},
         UNCHANGED <<ups, page, listed, collected, killed>>
  PROVE  ListedThere'
<1>1. page'[w] # "form" /\ pc'[w] # "put"
  BY DEF Turns, Late
<1>2. \A q \in Windows \ {w} : \A f : There(q, f) => There(q, f)'
  BY DEF There
<1> QED BY <1>1, <1>2, ListedStep DEF Here

(* Every step leaves the files of a page there.                            *)
LEMMA ListedNext == Shape /\ Turns /\ UploadsApart /\ ListedThere /\ [Next]_vars => ListedThere'
<1> SUFFICES ASSUME Shape, Turns, UploadsApart, ListedThere, [Next]_vars PROVE ListedThere'
  OBVIOUS
<1> USE DEF Shape, Pages, Tasks, Uploads, There, server, client, history, count, Goto
<1>1. ASSUME NEW w \in Windows, Open(w) PROVE ListedThere'
  <2>1. PICK K : /\ rows' = rows \cup {[win |-> w, file |-> f] : f \in K}
                  /\ page[w] = "closed" /\ listed' = [listed EXCEPT ![w] = K]
                  /\ page' = [page EXCEPT ![w] = "form"]
    BY <1>1 DEF Open, OpenFor
  <2>2. UNCHANGED <<ups, pc, job, collected, killed>>
    BY <1>1 DEF Open, OpenFor
  <2>3. (\A u \in ups : u.win # w) /\ pc[w] = "idle"
    BY <2>1 DEF Turns
  <2>4. Here(w)'
    BY <2>1, <2>2, <2>3 DEF Here
  <2> QED BY <2>1, <2>2, <2>4, ListedStep
<1>2. ASSUME NEW w \in Windows, Discard(w) PROVE ListedThere'
  <2>1. /\ rows' = {x \in rows : x.win # w} /\ ups' = {u \in ups : u.win # w}
        /\ page[w] = "form" /\ page' = [page EXCEPT ![w] = "done"] /\ listed' = [listed EXCEPT ![w] = {}]
        /\ UNCHANGED <<pc, job, collected, killed>>
    BY <1>2 DEF Discard, Close
  <2>2. Here(w)'
    BY <2>1 DEF Here, Turns
  <2> QED BY <2>1, <2>2, ListedStep
<1>3. ASSUME NEW w \in Windows, GarbageCollect(w) PROVE ListedThere'
  <2>1. /\ rows' = {x \in rows : x.win # w} /\ collected' = collected \cup {w}
        /\ UNCHANGED <<ups, page, listed, pc, job, killed>>
    BY <1>3 DEF GarbageCollect
  <2> QED BY <2>1, ListedStep
<1>4. ASSUME NEW w \in Windows, CancelUploads(w) PROVE ListedThere'
  <2>1. ups' = Abandoned(w) /\ UNCHANGED <<rows, page, listed, pc, job, collected, killed>>
    BY <1>4 DEF CancelUploads
  <2>2. w \notin collected \cup killed => Here(w)'
    BY <2>1, AbandonedFrom DEF Here, ListedThere
  <2> QED BY <2>1, <2>2, AbandonedFrom, ListedStep
<1>5. ASSUME NEW w \in Windows, NEW f \in Files, BeginUpload(w, f) PROVE ListedThere'
  <2> DEFINE new == [win |-> w, file |-> f, stored |-> FALSE, lost |-> FALSE]
  <2>1. ups' = ups \cup {new} /\ UNCHANGED <<rows, page, listed, pc, job, collected, killed>>
    BY <1>5 DEF BeginUpload
  <2>2. new.win = w /\ ~new.stored
    OBVIOUS
  <2> HIDE DEF new
  <2>3. w \notin collected \cup killed => Here(w)'
    BY <2>1, <2>2 DEF Here, ListedThere
  <2> QED BY <2>1, <2>2, <2>3, ListedStep
<1>6. ASSUME NEW w \in Windows, NEW f \in Files, RemoveFile(w, f) PROVE ListedThere'
  <2>1. /\ page[w] = "form" /\ rows' = rows \ {[win |-> w, file |-> f]}
        /\ listed' = [listed EXCEPT ![w] = @ \ {f}] /\ f \in listed[w]
        /\ UNCHANGED <<ups, page, pc, job, collected, killed>>
    BY <1>6 DEF RemoveFile
  <2>2. w \notin collected \cup killed => Here(w)'
    BY <2>1 DEF Here, ListedThere, Turns
  <2> QED BY <2>1, <2>2, ListedStep
<1>7. ASSUME NEW w \in Windows, NEW draft \in BOOLEAN, Submit(w, draft) PROVE ListedThere'
  <2>1. /\ page[w] = "form" /\ page' = [page EXCEPT ![w] = "wait"]
        /\ job' = [job EXCEPT ![w] = [draft |-> draft, ids |-> listed[w], excess |-> 0]]
        /\ pc' = [pc EXCEPT ![w] = "put"]
        /\ UNCHANGED <<rows, ups, listed, collected, killed>>
    BY <1>7 DEF Submit, Submitted
  <2>2. w \notin collected \cup killed => Here(w)'
    BY <2>1 DEF Here, ListedThere
  <2> QED BY <2>1, <2>2, ListedStep
<1>8. ASSUME NEW w \in Windows, Deliver(w) PROVE ListedThere'
  <2>1. /\ pc[w] \in {"put"} \cup Late /\ pc'[w] \in Late
        /\ \A q \in Windows \ {w} : pc'[q] = pc[q] /\ job'[q] = job[q]
        /\ rows' \in {rows, {x \in rows : x.win # w}}
        /\ UNCHANGED <<ups, page, listed, collected, killed>>
    BY <1>8 DEF Deliver, Late
  <2> QED BY <2>1, ListedLate
<1>9. ASSUME NEW w \in Windows, DeliverFails(w) PROVE ListedThere'
  <2>1. ShowForm(w) /\ UNCHANGED <<rows, collected, killed>>
    BY <1>9 DEF DeliverFails
  <2> QED BY <2>1, ListedShown
<1>10. ASSUME NEW w \in Windows, DeleteAttachments(w) PROVE ListedThere'
  <2>1. /\ pc[w] \in {"put"} \cup Late /\ pc'[w] \in Late
        /\ \A q \in Windows \ {w} : pc'[q] = pc[q] /\ job'[q] = job[q]
        /\ rows' \in {rows, {x \in rows : x.win # w}}
        /\ UNCHANGED <<ups, page, listed, collected, killed>>
    BY <1>10 DEF DeleteAttachments, Late
  <2> QED BY <2>1, ListedLate
<1>11. ASSUME NEW w \in Windows, CreateHistory(w) PROVE ListedThere'
  <2>1. /\ pc[w] \in {"put"} \cup Late /\ pc'[w] \in Late
        /\ \A q \in Windows \ {w} : pc'[q] = pc[q] /\ job'[q] = job[q]
        /\ rows' \in {rows, {x \in rows : x.win # w}}
        /\ UNCHANGED <<ups, page, listed, collected, killed>>
    BY <1>11 DEF CreateHistory, Late
  <2> QED BY <2>1, ListedLate
<1>12. ASSUME NEW w \in Windows, CountHistories(w) PROVE ListedThere'
  <2>1. /\ pc[w] \in {"put"} \cup Late /\ pc'[w] \in Late
        /\ \A q \in Windows \ {w} : pc'[q] = pc[q] /\ job'[q] = job[q]
        /\ rows' \in {rows, {x \in rows : x.win # w}}
        /\ UNCHANGED <<ups, page, listed, collected, killed>>
    BY <1>12 DEF CountHistories, Late
  <2> QED BY <2>1, ListedLate
<1>13. ASSUME NEW w \in Windows, DeleteExceeded(w) PROVE ListedThere'
  <2>1. /\ pc[w] \in {"put"} \cup Late /\ pc'[w] \in Late
        /\ \A q \in Windows \ {w} : pc'[q] = pc[q] /\ job'[q] = job[q]
        /\ rows' \in {rows, {x \in rows : x.win # w}}
        /\ UNCHANGED <<ups, page, listed, collected, killed>>
    BY <1>13 DEF DeleteExceeded, Late
  <2> QED BY <2>1, ListedLate
<1>14. ASSUME NEW w \in Windows, Yield(w) PROVE ListedThere'
  <2>1. /\ pc[w] \in Late /\ pc'[w] # "put" /\ page'[w] # "form"
        /\ \A q \in Windows \ {w} : /\ pc'[q] = pc[q] /\ job'[q] = job[q]
                                      /\ page'[q] = page[q] /\ listed'[q] = listed[q]
        /\ rows' = rows /\ ups' \subseteq ups /\ UNCHANGED <<collected, killed>>
    BY <1>14 DEF Yield, Close, Finish, Late, Turns
  <2> QED BY <2>1, ListedStep DEF Here
<1>15. ASSUME NEW w \in Windows, SaveToSent(w) \/ SaveToSentFails(w) PROVE ListedThere'
  <2>1. /\ pc[w] \in Late /\ pc'[w] # "put" /\ page'[w] # "form"
        /\ \A q \in Windows \ {w} : /\ pc'[q] = pc[q] /\ job'[q] = job[q]
                                      /\ page'[q] = page[q] /\ listed'[q] = listed[q]
        /\ rows' = rows /\ ups' \subseteq ups /\ UNCHANGED <<collected, killed>>
    BY <1>15 DEF SaveToSent, SaveToSentFails, Close, Finish, Late, Turns
  <2> QED BY <2>1, ListedStep DEF Here
<1>16. ASSUME NEW w \in Windows, Fails(w) PROVE ListedThere'
  <2>1. /\ ShowForm(w) /\ UNCHANGED <<collected, killed>>
        /\ rows' \subseteq rows /\ \A x \in rows : x.win # w => x \in rows'
    BY <1>16, BrokenOffTakes DEF Fails
  <2> QED BY <2>1, ListedShown
<1>17. ASSUME NEW w \in Windows, Killed(w) PROVE ListedThere'
  <2>1. /\ killed' = killed \cup {w} /\ page' = [page EXCEPT ![w] = "form"]
        /\ pc' = [pc EXCEPT ![w] = "idle"] /\ job' = [job EXCEPT ![w] = NoJob]
        /\ \A x \in rows : x.win # w => x \in rows'
        /\ UNCHANGED <<ups, listed, collected>>
    BY <1>17, BrokenOffTakes DEF Killed, Finish
  <2> QED BY <2>1, ListedStep
<1>18. ASSUME NEW u \in ups, Store(u) PROVE ListedThere'
  <2> DEFINE t == [u EXCEPT !.stored = TRUE]
             w == u.win
  <2>1. /\ rows' = rows \cup {[win |-> w, file |-> u.file]} /\ ~u.stored
        /\ ups' \subseteq (ups \ {u}) \cup {t}
        /\ UNCHANGED <<page, listed, pc, job, collected, killed>>
    BY <1>18 DEF Store
  <2>2. t.win = w /\ t.file = u.file /\ w \in Windows
    OBVIOUS
  <2> HIDE DEF t, w
  <2>3. ~There(w, u.file)
    BY <2>1 DEF UploadsApart, There, w
  <2>4. w \notin collected \cup killed => Here(w)'
    BY <2>1, <2>2, <2>3 DEF Here, ListedThere
  <2> QED BY <2>1, <2>2, <2>4, ListedStep
<1>19. ASSUME NEW u \in ups, StoreFails(u) \/ UploadAnswer(u) PROVE ListedThere'
  <2>1. ups' = ups \ {u} /\ UNCHANGED <<rows, page, pc, job, collected, killed>>
    BY <1>19 DEF StoreFails, UploadAnswer
  <2>2. /\ u.win \in Windows /\ \A q \in Windows \ {u.win} : listed'[q] = listed[q]
        /\ listed'[u.win] = listed[u.win] \/ (u.stored /\ page[u.win] = "form"
                                               /\ listed'[u.win] = listed[u.win] \cup {u.file})
    BY <1>19 DEF StoreFails, UploadAnswer
  <2>3. \A v \in ups \ {u} : v.win # u.win \/ v.file # u.file
    BY DEF UploadsApart
  <2>4. u.win \notin collected \cup killed => Here(u.win)'
    BY <2>1, <2>2, <2>3 DEF Here, ListedThere
  <2> QED BY <2>1, <2>2, <2>4, ListedStep
<1>20. ASSUME NEW r \in Refs, LoseRef(r) PROVE ListedThere'
  BY <1>20 DEF LoseRef, ListedThere, Here
<1>21. CASE ResetHistories \/ UNCHANGED vars
  BY <1>21 DEF ResetHistories, vars, ListedThere, Here
<1> QED
  BY <1>1, <1>2, <1>3, <1>4, <1>5, <1>6, <1>7, <1>8, <1>9, <1>10, <1>11, <1>12, <1>13, <1>14, <1>15,
     <1>16, <1>17, <1>18, <1>19, <1>20, <1>21 DEF Next, Editing, Sending
---------------------------------------------------------------------------
(* A mail that is out with all its files stays so.                         *)
LEMMA CompleteStays ==
  ASSUME NEW w \in Windows, NEW r, Complete(w, r), out[w] \in Seq(Mail),
         out'[w] = out[w] \/ \E m \in Mail : out'[w] = Append(out[w], m),
         unwanted \subseteq unwanted', leftOut \subseteq leftOut',
         collected \subseteq collected', killed \subseteq killed'
  PROVE  Complete(w, r)'
<1>1. CASE w \in collected \cup killed
  BY <1>1 DEF Complete
<1>2. CASE w \notin collected \cup killed
  <2>1. PICK i \in DOMAIN out[w] : \A f \in RefFiles[r] :
          f \in out[w][i].carried \/ [win |-> w, file |-> f] \in unwanted \cup leftOut
    BY <1>2 DEF Complete
  <2>2. i \in DOMAIN out'[w] /\ out'[w][i] = out[w][i]
    OBVIOUS
  <2> QED BY <2>1, <2>2 DEF Complete
<1> QED BY <1>1, <1>2

(* A step of one window concerns the draft of that window only.            *)
LEMMA DraftStep ==
  ASSUME Shape, DraftThere, NEW w \in Windows,
         \A q \in Windows \ {w} : /\ page'[q] = page[q] /\ pc'[q] = pc[q] /\ out'[q] = out[q]
                                  /\ listed'[q] = listed[q] /\ job'[q] = job[q] /\ aim'[q] = aim[q],
         unwanted \subseteq unwanted', leftOut \subseteq leftOut',
         collected \subseteq collected', killed \subseteq killed',
         w \notin collected' \cup killed' => DraftHere(w)'
  PROVE  DraftThere'
<1> SUFFICES ASSUME NEW q \in Windows \ {w}, DraftHere(q) PROVE DraftHere(q)'
  BY DEF DraftThere
<1>1. Complete(q, aim[q].ref) => Complete(q, aim[q].ref)'
  BY CompleteStays DEF Shape, Results
<1>2. Missing(q)' \subseteq Missing(q)
  BY DEF Missing
<1>3. aim'[q] = aim[q]
  OBVIOUS
<1> QED BY <1>1, <1>2, <1>3 DEF DraftHere

(* What a request was given is there when it lets the mail out.            *)
LEMMA CarriedAll ==
  ASSUME Shape, ListedThere, NEW w \in Windows \ (collected \cup killed), pc[w] = "put"
  PROVE  Carried(w) = job[w].ids
<1>1. SUFFICES ASSUME NEW f \in job[w].ids PROVE f \in RowsOf(w)
  BY DEF Carried
<1>2. [win |-> w, file |-> f] \in rows
  BY DEF ListedThere, Here, There
<1> QED BY <1>2 DEF RowsOf

(* When the mail is out, it has what there was of the draft.               *)
LEMMA DraftOut ==
  ASSUME Shape, Turns, ListedThere, DraftThere, NEW w \in Windows \ (collected \cup killed),
         pc[w] = "put", Put(w), UNCHANGED <<aim, unwanted, leftOut, collected, killed>>,
         aim[w].kind = "edit"
  PROVE  Complete(w, aim[w].ref)'
<1> DEFINE mail == [wanted |-> job[w].ids, carried |-> Carried(w)]
<1>1. mail \in Mail /\ mail.carried = job[w].ids
  BY CarriedTyped, CarriedAll DEF Shape, Tasks, Mail
<1>2. out[w] \in Seq(Mail) /\ out'[w] = Append(out[w], mail)
  BY DEF Put, Shape, Results
<1> HIDE DEF mail
<1>3. CASE Complete(w, aim[w].ref)
  BY <1>1, <1>2, <1>3, CompleteStays
<1>4. CASE Missing(w) \subseteq job[w].ids
  <2>1. LET i == Len(out'[w]) IN i \in DOMAIN out'[w] /\ out'[w][i] = mail
    BY <1>1, <1>2
  <2> QED BY <1>1, <1>4, <2>1 DEF Complete, Missing
<1>5. page[w] = "wait"
  BY DEF Turns
<1> QED BY <1>3, <1>4, <1>5 DEF DraftThere, DraftHere

(* A step of a request that has let the mail out.                          *)
LEMMA DraftLate ==
  ASSUME Shape, Turns, DraftThere, NEW w \in Windows, pc[w] \in Late, UNCHANGED <<aim, out>>,
         \A q \in Windows \ {w} : /\ page'[q] = page[q] /\ pc'[q] = pc[q]
                                  /\ listed'[q] = listed[q] /\ job'[q] = job[q],
         UNCHANGED <<unwanted, leftOut, collected, killed>>
  PROVE  DraftThere'
<1>1. page[w] = "wait" /\ pc[w] # "put"
  BY DEF Turns, Late
<1>2. ASSUME w \notin collected \cup killed, aim[w].kind = "edit" PROVE Complete(w, aim[w].ref)'
  BY <1>1, <1>2 DEF DraftThere, DraftHere, Complete
<1>3. w \notin collected' \cup killed' => DraftHere(w)'
  BY <1>2 DEF DraftHere
<1> QED BY <1>3, DraftStep

(* Every step leaves the files of a draft with its window.                 *)
LEMMA DraftNext == Shape /\ Turns /\ ListedThere /\ DraftThere /\ [Next]_vars => DraftThere'
<1> SUFFICES ASSUME Shape, Turns, ListedThere, DraftThere, [Next]_vars PROVE DraftThere'
  OBVIOUS
<1> USE DEF server, client, history, count, Goto
<1>1. ASSUME NEW w \in Windows, Open(w) PROVE DraftThere'
  <2>1. PICK o \in Opened : o.win = w /\ OpenFor(w, o.kind, o.ref)
    BY <1>1 DEF Open
  <2>2. PICK K : /\ listed' = [listed EXCEPT ![w] = K]
                  /\ leftOut' = leftOut \cup {[win |-> w, file |-> f] : f \in Copies(o.kind, o.ref) \ K}
    BY <2>1 DEF OpenFor
  <2>3. /\ page' = [page EXCEPT ![w] = "form"] /\ aim' = [aim EXCEPT ![w] = [kind |-> o.kind, ref |-> o.ref]]
        /\ UNCHANGED <<pc, job, out, unwanted, collected, killed>>
    BY <2>1 DEF OpenFor
  <2>4. aim'[w].kind = o.kind /\ aim'[w].ref = o.ref /\ page'[w] = "form" /\ listed'[w] = K
    BY <2>2, <2>3 DEF Shape, Pages
  <2>5. DraftHere(w)'
    BY <2>2, <2>4 DEF DraftHere, Missing, Copies
  <2> QED BY <2>2, <2>3, <2>5, DraftStep
<1>2. ASSUME NEW w \in Windows, Discard(w) PROVE DraftThere'
  <2>1. /\ page' = [page EXCEPT ![w] = "done"] /\ listed' = [listed EXCEPT ![w] = {}]
        /\ UNCHANGED <<pc, job, aim, out, unwanted, leftOut, collected, killed>>
    BY <1>2 DEF Discard, Close
  <2>2. DraftHere(w)'
    BY <2>1 DEF DraftHere, Shape, Pages
  <2> QED BY <2>1, <2>2, DraftStep
<1>3. ASSUME NEW w \in Windows, GarbageCollect(w) PROVE DraftThere'
  <2>1. collected' = collected \cup {w} /\ UNCHANGED <<page, listed, pc, job, aim, out, unwanted, leftOut, killed>>
    BY <1>3 DEF GarbageCollect
  <2> QED BY <2>1, DraftStep
<1>4. ASSUME NEW w \in Windows, CancelUploads(w) PROVE DraftThere'
  <2>1. UNCHANGED <<page, pc, listed, job, aim, out, unwanted, leftOut, collected, killed>>
    BY <1>4 DEF CancelUploads
  <2> QED BY <2>1 DEF DraftThere, DraftHere, Missing, Complete
<1>5. ASSUME NEW w \in Windows, NEW f \in Files, BeginUpload(w, f) PROVE DraftThere'
  <2>1. UNCHANGED <<page, pc, listed, job, aim, out, unwanted, leftOut, collected, killed>>
    BY <1>5 DEF BeginUpload
  <2> QED BY <2>1 DEF DraftThere, DraftHere, Missing, Complete
<1>6. ASSUME NEW w \in Windows, NEW f \in Files, RemoveFile(w, f) PROVE DraftThere'
  <2>1. /\ page[w] = "form" /\ listed' = [listed EXCEPT ![w] = @ \ {f}]
        /\ unwanted' = unwanted \cup {[win |-> w, file |-> f]}
        /\ UNCHANGED <<page, pc, job, aim, out, leftOut, collected, killed>>
    BY <1>6 DEF RemoveFile
  <2>2. Missing(w)' \subseteq Missing(w) \ {f}
    BY <2>1 DEF Missing
  <2>3. Complete(w, aim[w].ref) => Complete(w, aim[w].ref)'
    BY <2>1, CompleteStays DEF Shape, Results
  <2>4. pc[w] # "put" /\ listed'[w] = listed[w] \ {f}
    BY <2>1 DEF Turns, Shape, Pages
  <2>5. DraftHere(w) => DraftHere(w)'
    BY <2>1, <2>2, <2>3, <2>4 DEF DraftHere
  <2> QED BY <2>1, <2>5, DraftStep DEF DraftThere
<1>7. ASSUME NEW w \in Windows, NEW draft \in BOOLEAN, Submit(w, draft) PROVE DraftThere'
  <2>1. /\ page[w] = "form" /\ page' = [page EXCEPT ![w] = "wait"]
        /\ job' = [job EXCEPT ![w] = [draft |-> draft, ids |-> listed[w], excess |-> 0]]
        /\ pc' = [pc EXCEPT ![w] = "put"]
        /\ UNCHANGED <<listed, aim, out, unwanted, leftOut, collected, killed>>
    BY <1>7 DEF Submit, Submitted
  <2>2. Missing(w)' = Missing(w) /\ (Complete(w, aim[w].ref) => Complete(w, aim[w].ref)')
    BY <2>1 DEF Missing, Complete
  <2>3. pc[w] # "put" /\ pc'[w] = "put" /\ job'[w].ids = listed[w]
    BY <2>1 DEF Turns, Shape, Pages, Tasks
  <2>4. DraftHere(w) => DraftHere(w)'
    BY <2>1, <2>2, <2>3 DEF DraftHere
  <2> QED BY <2>1, <2>4, DraftStep DEF DraftThere
<1>8. ASSUME NEW w \in Windows, Deliver(w) PROVE DraftThere'
  <2>1. /\ pc[w] = "put" /\ Put(w) /\ pc' = [pc EXCEPT ![w] = "clean"]
        /\ UNCHANGED <<page, listed, job, aim, unwanted, leftOut, collected, killed>>
    BY <1>8 DEF Deliver
  <2>2. w \notin collected \cup killed => DraftHere(w)'
    BY <2>1, DraftOut DEF DraftHere
  <2> QED BY <2>1, <2>2, DraftStep DEF Put, Shape, Results
<1>9. ASSUME NEW w \in Windows, DeliverFails(w) PROVE DraftThere'
  <2>1. /\ pc[w] = "put" /\ ShowForm(w) /\ (Put(w) \/ UNCHANGED out)
        /\ UNCHANGED <<rows, unwanted, leftOut, collected, killed>>
    BY <1>9 DEF DeliverFails
  <2>0. \A f \in Carried(w) : [win |-> w, file |-> f] \in rows
    BY CarriedThere DEF There, Shape
  <2>2. /\ page' = [page EXCEPT ![w] = "form"] /\ listed' = [listed EXCEPT ![w] = Carried(w)]
        /\ pc' = [pc EXCEPT ![w] = "idle"] /\ job' = [job EXCEPT ![w] = NoJob] /\ aim' = aim
    BY <2>0, <2>1 DEF ShowForm, Finish
  <2>3. ASSUME w \notin collected \cup killed, UNCHANGED out PROVE DraftHere(w)'
    <3>1. Missing(w)' = Missing(w) /\ (Complete(w, aim[w].ref) => Complete(w, aim[w].ref)')
      BY <2>1, <2>2, <2>3 DEF Missing, Complete
    <3>2. Carried(w) = job[w].ids /\ page[w] = "wait"
      BY <2>1, <2>3, CarriedAll DEF Turns
    <3>3. page'[w] = "form" /\ listed'[w] = job[w].ids
      BY <2>2, <3>2 DEF Shape, Pages
    <3> QED BY <2>2, <2>3, <3>1, <3>2, <3>3 DEF DraftHere, DraftThere
  <2>4. w \notin collected \cup killed => DraftHere(w)'
    BY <2>1, <2>2, <2>3, DraftOut DEF DraftHere
  <2>5. \A q \in Windows \ {w} : out'[q] = out[q]
    BY <2>1 DEF Put, Shape, Results
  <2> QED BY <2>1, <2>2, <2>4, <2>5, DraftStep
<1>10. ASSUME NEW w \in Windows, DeleteAttachments(w) PROVE DraftThere'
  <2>1. /\ pc[w] \in Late /\ aim' = aim /\ out' = out
        /\ \A q \in Windows \ {w} : /\ pc'[q] = pc[q] /\ job'[q] = job[q]
                                      /\ page'[q] = page[q] /\ listed'[q] = listed[q]
        /\ UNCHANGED <<unwanted, leftOut, collected, killed>>
    BY <1>10 DEF DeleteAttachments, Late, Shape, Pages, Tasks
  <2> QED BY <2>1, DraftLate
<1>11. ASSUME NEW w \in Windows, CreateHistory(w) PROVE DraftThere'
  <2>1. /\ pc[w] \in Late /\ aim' = aim /\ out' = out
        /\ \A q \in Windows \ {w} : /\ pc'[q] = pc[q] /\ job'[q] = job[q]
                                      /\ page'[q] = page[q] /\ listed'[q] = listed[q]
        /\ UNCHANGED <<unwanted, leftOut, collected, killed>>
    BY <1>11 DEF CreateHistory, Late, Shape, Pages, Tasks
  <2> QED BY <2>1, DraftLate
<1>12. ASSUME NEW w \in Windows, CountHistories(w) PROVE DraftThere'
  <2>1. /\ pc[w] \in Late /\ aim' = aim /\ out' = out
        /\ \A q \in Windows \ {w} : /\ pc'[q] = pc[q] /\ job'[q] = job[q]
                                      /\ page'[q] = page[q] /\ listed'[q] = listed[q]
        /\ UNCHANGED <<unwanted, leftOut, collected, killed>>
    BY <1>12 DEF CountHistories, Late, Shape, Pages, Tasks
  <2> QED BY <2>1, DraftLate
<1>13. ASSUME NEW w \in Windows, DeleteExceeded(w) PROVE DraftThere'
  <2>1. /\ pc[w] \in Late /\ aim' = aim /\ out' = out
        /\ \A q \in Windows \ {w} : /\ pc'[q] = pc[q] /\ job'[q] = job[q]
                                      /\ page'[q] = page[q] /\ listed'[q] = listed[q]
        /\ UNCHANGED <<unwanted, leftOut, collected, killed>>
    BY <1>13 DEF DeleteExceeded, Late, Shape, Pages, Tasks
  <2> QED BY <2>1, DraftLate
<1>14. ASSUME NEW w \in Windows, Yield(w) PROVE DraftThere'
  <2>1. /\ pc[w] \in Late /\ aim' = aim /\ out' = out
        /\ \A q \in Windows \ {w} : /\ pc'[q] = pc[q] /\ job'[q] = job[q]
                                      /\ page'[q] = page[q] /\ listed'[q] = listed[q]
        /\ UNCHANGED <<unwanted, leftOut, collected, killed>>
    BY <1>14 DEF Yield, Close, Finish, Late, Shape, Pages, Tasks
  <2> QED BY <2>1, DraftLate
<1>15. ASSUME NEW w \in Windows, SaveToSent(w) \/ SaveToSentFails(w) PROVE DraftThere'
  <2>1. /\ pc[w] \in Late /\ aim' = aim /\ out' = out
        /\ \A q \in Windows \ {w} : /\ pc'[q] = pc[q] /\ job'[q] = job[q]
                                      /\ page'[q] = page[q] /\ listed'[q] = listed[q]
        /\ UNCHANGED <<unwanted, leftOut, collected, killed>>
    BY <1>15 DEF SaveToSent, SaveToSentFails, Close, Finish, Late, Shape, Pages, Tasks
  <2> QED BY <2>1, DraftLate
<1>16. ASSUME NEW w \in Windows, Fails(w) PROVE DraftThere'
  <2>1. /\ pc[w] \in Late /\ aim' = aim /\ out' = out
        /\ \A q \in Windows \ {w} : /\ pc'[q] = pc[q] /\ job'[q] = job[q]
                                      /\ page'[q] = page[q] /\ listed'[q] = listed[q]
        /\ UNCHANGED <<unwanted, leftOut, collected, killed>>
    BY <1>16 DEF Fails, ShowForm, Finish, Late, Shape, Pages, Tasks
  <2> QED BY <2>1, DraftLate
<1>17. ASSUME NEW w \in Windows, Killed(w) PROVE DraftThere'
  <2>1. /\ killed' = killed \cup {w} /\ page' = [page EXCEPT ![w] = "form"]
        /\ pc' = [pc EXCEPT ![w] = "idle"] /\ job' = [job EXCEPT ![w] = NoJob]
        /\ UNCHANGED <<listed, aim, out, unwanted, leftOut, collected>>
    BY <1>17 DEF Killed, Finish
  <2> QED BY <2>1, DraftStep
<1>18. ASSUME NEW u \in ups, Store(u) PROVE DraftThere'
  <2>1. UNCHANGED <<page, pc, listed, job, aim, out, unwanted, leftOut, collected, killed>>
    BY <1>18 DEF Store
  <2> QED BY <2>1 DEF DraftThere, DraftHere, Missing, Complete
<1>19. ASSUME NEW u \in ups, StoreFails(u) \/ UploadAnswer(u) PROVE DraftThere'
  <2>1. /\ UNCHANGED <<page, pc, job, aim, out, unwanted, leftOut, collected, killed>> /\ u.win \in Windows
        /\ \A q \in Windows : listed[q] \subseteq listed'[q]
    BY <1>19 DEF StoreFails, UploadAnswer, Shape, Pages, Uploads
  <2> QED BY <2>1 DEF DraftThere, DraftHere, Missing, Complete
<1>20. ASSUME NEW r \in Refs, LoseRef(r) PROVE DraftThere'
  <2>1. UNCHANGED <<page, pc, listed, job, aim, out, unwanted, leftOut, collected, killed>>
    BY <1>20 DEF LoseRef
  <2> QED BY <2>1 DEF DraftThere, DraftHere, Missing, Complete
<1>21. CASE ResetHistories \/ UNCHANGED vars
  <2>1. UNCHANGED <<page, pc, listed, job, aim, out, unwanted, leftOut, collected, killed>>
    BY <1>21 DEF ResetHistories, vars
  <2> QED BY <2>1 DEF DraftThere, DraftHere, Missing, Complete
<1> QED
  BY <1>1, <1>2, <1>3, <1>4, <1>5, <1>6, <1>7, <1>8, <1>9, <1>10, <1>11, <1>12, <1>13, <1>14, <1>15,
     <1>16, <1>17, <1>18, <1>19, <1>20, <1>21 DEF Next, Editing, Sending
---------------------------------------------------------------------------
(* Finitely many windows owe rows of the history.                          *)
LEMMA OwingFinite == IsFiniteSet(Owing) /\ Cardinality(Owing) \in Nat
<1>1. IsFiniteSet(Windows) /\ Owing \subseteq Windows
  BY SendMailAssumption DEF Owing
<1> QED BY <1>1, FS_Subset, FS_CardinalityType

(* A step that adds no row leaves the debt.                                *)
LEMMA OwedSame ==
  ASSUME Shape, Shape', OwedOnly, Owing' = Owing, histories' <= histories, strays' >= strays
  PROVE  OwedOnly'
BY OwingFinite, HistoryConstants DEF OwedOnly, Shape, Counters

(* Its request is no longer owing.                                         *)
LEMMA OwedLess ==
  ASSUME Shape, Shape', OwedOnly, NEW w \in Owing, Owing' = Owing \ {w},
         histories' + 1 <= histories + strays' - strays \/ histories' = 0
  PROVE  OwedOnly'
<1>1. Cardinality(Owing') = Cardinality(Owing) - 1 /\ Cardinality(Owing) \in Nat
  BY OwingFinite, FS_RemoveElement
<1>2. Cardinality(Owing') \in Nat
  BY OwingFinite, FS_RemoveElement, FS_CardinalityType
<1>3. {histories, histories', strays, strays', MaxHistory} \subseteq Nat
  BY HistoryConstants DEF Shape, Counters
<1> QED BY <1>1, <1>2, <1>3 DEF OwedOnly

(* A step of one window that is not owing before or after it.              *)
LEMMA OwingSame ==
  ASSUME NEW w \in Windows, pc[w] \notin {"count", "cut"}, pc'[w] \notin {"count", "cut"},
         \A q \in Windows \ {w} : pc'[q] = pc[q] /\ job'[q] = job[q]
  PROVE  Owing' = Owing
BY DEF Owing

(* Every row above the limit is owed by a request.                         *)
LEMMA OwedNext == Shape /\ Shape' /\ OwedOnly /\ [Next]_vars => OwedOnly'
<1> SUFFICES ASSUME Shape, Shape', OwedOnly, [Next]_vars PROVE OwedOnly'
  OBVIOUS
<1> USE DEF server, client, history, count, Goto
<1>1. ASSUME NEW w \in Windows, Open(w) PROVE OwedOnly'
  <2>1. UNCHANGED <<pc, job, histories, strays>>
    BY <1>1 DEF Open, OpenFor
  <2> QED BY <2>1, OwedSame DEF Owing, Shape, Counters
<1>2. ASSUME NEW w \in Windows, Discard(w) PROVE OwedOnly'
  <2>1. UNCHANGED <<pc, job, histories, strays>>
    BY <1>2 DEF Discard
  <2> QED BY <2>1, OwedSame DEF Owing, Shape, Counters
<1>3. ASSUME NEW w \in Windows, GarbageCollect(w) PROVE OwedOnly'
  <2>1. UNCHANGED <<pc, job, histories, strays>>
    BY <1>3 DEF GarbageCollect
  <2> QED BY <2>1, OwedSame DEF Owing, Shape, Counters
<1>4. ASSUME NEW w \in Windows, CancelUploads(w) PROVE OwedOnly'
  <2>1. UNCHANGED <<pc, job, histories, strays>>
    BY <1>4 DEF CancelUploads
  <2> QED BY <2>1, OwedSame DEF Owing, Shape, Counters
<1>5. ASSUME NEW w \in Windows, NEW f \in Files, BeginUpload(w, f) PROVE OwedOnly'
  <2>1. UNCHANGED <<pc, job, histories, strays>>
    BY <1>5 DEF BeginUpload
  <2> QED BY <2>1, OwedSame DEF Owing, Shape, Counters
<1>6. ASSUME NEW w \in Windows, NEW f \in Files, RemoveFile(w, f) PROVE OwedOnly'
  <2>1. UNCHANGED <<pc, job, histories, strays>>
    BY <1>6 DEF RemoveFile
  <2> QED BY <2>1, OwedSame DEF Owing, Shape, Counters
<1>7. ASSUME NEW w \in Windows, NEW draft \in BOOLEAN, Submit(w, draft) PROVE OwedOnly'
  <2>1. /\ pc[w] \notin {"count", "cut"} /\ pc'[w] \notin {"count", "cut"}
        /\ \A q \in Windows \ {w} : pc'[q] = pc[q] /\ job'[q] = job[q]
        /\ UNCHANGED <<histories, strays>>
    BY <1>7 DEF Submit, Submitted, Shape, Tasks
  <2>2. Owing' = Owing
    BY <2>1, OwingSame
  <2> QED BY <2>1, <2>2, OwedSame DEF Shape, Counters
<1>8. ASSUME NEW w \in Windows, Deliver(w) PROVE OwedOnly'
  <2>1. /\ pc[w] \notin {"count", "cut"} /\ pc'[w] \notin {"count", "cut"}
        /\ \A q \in Windows \ {w} : pc'[q] = pc[q] /\ job'[q] = job[q]
        /\ UNCHANGED <<histories, strays>>
    BY <1>8 DEF Deliver, Shape, Tasks
  <2>2. Owing' = Owing
    BY <2>1, OwingSame
  <2> QED BY <2>1, <2>2, OwedSame DEF Shape, Counters
<1>9. ASSUME NEW w \in Windows, DeliverFails(w) PROVE OwedOnly'
  <2>1. /\ pc[w] \notin {"count", "cut"} /\ pc'[w] \notin {"count", "cut"}
        /\ \A q \in Windows \ {w} : pc'[q] = pc[q] /\ job'[q] = job[q]
        /\ UNCHANGED <<histories, strays>>
    BY <1>9 DEF DeliverFails, ShowForm, Finish, Shape, Tasks
  <2>2. Owing' = Owing
    BY <2>1, OwingSame
  <2> QED BY <2>1, <2>2, OwedSame DEF Shape, Counters
<1>10. ASSUME NEW w \in Windows, DeleteAttachments(w) PROVE OwedOnly'
  <2>1. /\ pc[w] \notin {"count", "cut"} /\ pc'[w] \notin {"count", "cut"}
        /\ \A q \in Windows \ {w} : pc'[q] = pc[q] /\ job'[q] = job[q]
        /\ UNCHANGED <<histories, strays>>
    BY <1>10 DEF DeleteAttachments, Shape, Tasks
  <2>2. Owing' = Owing
    BY <2>1, OwingSame
  <2> QED BY <2>1, <2>2, OwedSame DEF Shape, Counters
<1>11. ASSUME NEW w \in Windows, CreateHistory(w) PROVE OwedOnly'
  <2>1. /\ pc[w] = "history" /\ pc' = [pc EXCEPT ![w] = "count"] /\ histories' = histories + 1
        /\ UNCHANGED <<job, strays>>
    BY <1>11 DEF CreateHistory
  <2>2. Owing' = Owing \cup {w} /\ w \notin Owing
    BY <2>1 DEF Owing, Shape, Tasks
  <2>3. Cardinality(Owing') = Cardinality(Owing) + 1 /\ Cardinality(Owing) \in Nat
    BY <2>2, OwingFinite, FS_AddElement
  <2> QED BY <2>1, <2>3, HistoryConstants DEF OwedOnly, Shape, Counters
<1>12. ASSUME NEW w \in Windows, CountHistories(w) PROVE OwedOnly'
  <2> DEFINE excess == IF histories > MaxHistory THEN histories - MaxHistory ELSE 0
  <2>1. /\ pc[w] = "count" /\ pc' = [pc EXCEPT ![w] = "cut"] /\ job' = [job EXCEPT ![w].excess = excess]
        /\ UNCHANGED <<histories, strays>>
    BY <1>12 DEF CountHistories
  <2>2. pc'[w] = "cut" /\ job'[w].excess = excess
    BY <2>1 DEF Shape, Tasks
  <2>3. CASE histories > MaxHistory
    <3>1. excess > 0
      BY <2>3, HistoryConstants DEF Shape, Counters
    <3>2. Owing' = Owing
      BY <2>1, <2>2, <3>1 DEF Owing
    <3> QED BY <2>1, <3>2, OwedSame DEF Shape, Counters
  <2>4. CASE ~(histories > MaxHistory)
    <3>1. Cardinality(Owing') \in Nat
      <4>1. IsFiniteSet(Windows) /\ Owing' \subseteq Windows
        BY SendMailAssumption DEF Owing
      <4> QED BY <4>1, FS_Subset, FS_CardinalityType
    <3> QED BY <2>1, <2>4, <3>1, HistoryConstants DEF OwedOnly, Shape, Counters
  <2> QED BY <2>3, <2>4
<1>13. ASSUME NEW w \in Windows, DeleteExceeded(w) PROVE OwedOnly'
  <2>1. /\ pc[w] = "cut" /\ pc' = [pc EXCEPT ![w] = "yield"]
        /\ histories' = IF histories > job[w].excess THEN histories - job[w].excess ELSE 0
        /\ UNCHANGED <<job, strays>>
    BY <1>13 DEF DeleteExceeded
  <2>2. CASE job[w].excess > 0
    <3>1. w \in Owing /\ Owing' = Owing \ {w}
      BY <2>1, <2>2 DEF Owing, Shape, Tasks
    <3>2. histories' + 1 <= histories + strays' - strays \/ histories' = 0
      BY <2>1, <2>2 DEF Shape, Tasks, Counters
    <3> QED BY <3>1, <3>2, OwedLess
  <2>3. CASE ~(job[w].excess > 0)
    <3>1. Owing' = Owing
      BY <2>1, <2>3 DEF Owing, Shape, Tasks
    <3>2. histories' <= histories
      BY <2>1, <2>3 DEF Shape, Tasks, Counters
    <3> QED BY <2>1, <3>1, <3>2, OwedSame DEF Shape, Counters
  <2> QED BY <2>2, <2>3
<1>14. ASSUME NEW w \in Windows, Yield(w) PROVE OwedOnly'
  <2>1. /\ pc[w] \notin {"count", "cut"} /\ pc'[w] \notin {"count", "cut"}
        /\ \A q \in Windows \ {w} : pc'[q] = pc[q] /\ job'[q] = job[q]
        /\ UNCHANGED <<histories, strays>>
    BY <1>14 DEF Yield, Finish, Shape, Tasks
  <2>2. Owing' = Owing
    BY <2>1, OwingSame
  <2> QED BY <2>1, <2>2, OwedSame DEF Shape, Counters
<1>15. ASSUME NEW w \in Windows, SaveToSent(w) \/ SaveToSentFails(w) PROVE OwedOnly'
  <2>1. /\ pc[w] \notin {"count", "cut"} /\ pc'[w] \notin {"count", "cut"}
        /\ \A q \in Windows \ {w} : pc'[q] = pc[q] /\ job'[q] = job[q]
        /\ UNCHANGED <<histories, strays>>
    BY <1>15 DEF SaveToSent, SaveToSentFails, Finish, Shape, Tasks
  <2>2. Owing' = Owing
    BY <2>1, OwingSame
  <2> QED BY <2>1, <2>2, OwedSame DEF Shape, Counters
<1>16. ASSUME NEW w \in Windows, Fails(w) PROVE OwedOnly'
  <2>1. /\ pc'[w] = "idle" /\ histories' = histories
        /\ \A q \in Windows \ {w} : pc'[q] = pc[q] /\ job'[q] = job[q]
        /\ strays' = IF pc[w] \in {"count", "cut"} THEN strays + 1 ELSE strays
    BY <1>16 DEF Fails, ShowForm, Finish, Stray, Shape, Tasks
  <2>2. CASE w \in Owing
    <3>1. Owing' = Owing \ {w} /\ strays' = strays + 1
      BY <2>1, <2>2 DEF Owing
    <3> QED BY <2>1, <2>2, <3>1, OwedLess DEF Shape, Counters
  <2>3. CASE w \notin Owing
    <3>1. Owing' = Owing
      BY <2>1, <2>3 DEF Owing
    <3> QED BY <2>1, <3>1, OwedSame DEF Shape, Counters
  <2> QED BY <2>2, <2>3
<1>17. ASSUME NEW w \in Windows, Killed(w) PROVE OwedOnly'
  <2>1. /\ pc'[w] = "idle" /\ histories' = histories
        /\ \A q \in Windows \ {w} : pc'[q] = pc[q] /\ job'[q] = job[q]
        /\ strays' = IF pc[w] \in {"count", "cut"} THEN strays + 1 ELSE strays
    BY <1>17 DEF Killed, Finish, Stray, Shape, Tasks
  <2>2. CASE w \in Owing
    <3>1. Owing' = Owing \ {w} /\ strays' = strays + 1
      BY <2>1, <2>2 DEF Owing
    <3> QED BY <2>1, <2>2, <3>1, OwedLess DEF Shape, Counters
  <2>3. CASE w \notin Owing
    <3>1. Owing' = Owing
      BY <2>1, <2>3 DEF Owing
    <3> QED BY <2>1, <3>1, OwedSame DEF Shape, Counters
  <2> QED BY <2>2, <2>3
<1>18. ASSUME NEW u \in ups, Store(u) PROVE OwedOnly'
  <2>1. UNCHANGED <<pc, job, histories, strays>>
    BY <1>18 DEF Store
  <2> QED BY <2>1, OwedSame DEF Owing, Shape, Counters
<1>19. ASSUME NEW u \in ups, StoreFails(u) \/ UploadAnswer(u) PROVE OwedOnly'
  <2>1. UNCHANGED <<pc, job, histories, strays>>
    BY <1>19 DEF StoreFails, UploadAnswer
  <2> QED BY <2>1, OwedSame DEF Owing, Shape, Counters
<1>20. ASSUME NEW r \in Refs, LoseRef(r) PROVE OwedOnly'
  <2>1. UNCHANGED <<pc, job, histories, strays>>
    BY <1>20 DEF LoseRef
  <2> QED BY <2>1, OwedSame DEF Owing, Shape, Counters
<1>21. CASE ResetHistories \/ UNCHANGED vars
  <2>1. CASE ResetHistories
    <3>1. histories' = 0 /\ UNCHANGED <<pc, job, strays>>
      BY <2>1 DEF ResetHistories
    <3> QED BY <3>1, OwedSame DEF Owing, Shape, Counters
  <2>2. CASE UNCHANGED vars
    <3>1. UNCHANGED <<pc, job, histories, strays>>
      BY <2>2 DEF vars
    <3> QED BY <3>1, OwedSame DEF Owing, Shape, Counters
  <2> QED BY <1>21, <2>1, <2>2
<1> QED
  BY <1>1, <1>2, <1>3, <1>4, <1>5, <1>6, <1>7, <1>8, <1>9, <1>10, <1>11, <1>12, <1>13, <1>14, <1>15,
     <1>16, <1>17, <1>18, <1>19, <1>20, <1>21 DEF Next, Editing, Sending
---------------------------------------------------------------------------
(* What a step can do to what is out, to the drafts and to the flags.      *)
Mailed(w) == [wanted |-> job[w].ids, carried |-> Carried(w)]
OutStep ==
  \A w \in Windows : \/ out'[w] = out[w]
                     \/ pc[w] = "put" /\ out'[w] = Append(out[w], Mailed(w))
AimStep ==
  \A w \in Windows : aim'[w] = aim[w] \/ page[w] = "closed"
Grow ==
  /\ unwanted \subseteq unwanted' /\ leftOut \subseteq leftOut' /\ moved \subseteq moved'
  /\ collected \subseteq collected' /\ failed \subseteq failed' /\ killed \subseteq killed'
RefStep ==
  /\ \A r \in refs \ refs' : \/ r \in moved'
                             \/ \E w \in Windows : pc[w] = "yield" /\ aim[w].kind = "edit" /\ aim[w].ref = r
  /\ \A r \in flagged' \ flagged :
       \E w \in Windows : pc[w] = "yield" /\ aim[w].kind \in {"answer", "forward"} /\ aim[w].ref = r
Lasting == OutStep /\ AimStep /\ Grow /\ RefStep

(* What is out, drafts and flags change only in the ways of Lasting.       *)
LEMMA LastingNext == Shape /\ [Next]_vars => Lasting
<1> SUFFICES ASSUME Shape, [Next]_vars PROVE Lasting
  OBVIOUS
<1> USE DEF Shape, Pages, Tasks, Results, server, client, history, count, Goto
<1>1. ASSUME NEW w \in Windows, Open(w) PROVE Lasting
  <2>1. OutStep
    BY <1>1 DEF OutStep, Open, OpenFor
  <2>2. AimStep
    BY <1>1 DEF AimStep, Open, OpenFor
  <2>3. Grow
    BY <1>1 DEF Grow, Open, OpenFor
  <2>4. RefStep
    BY <1>1 DEF RefStep, Open, OpenFor
  <2> QED BY <2>1, <2>2, <2>3, <2>4 DEF Lasting
<1>2. ASSUME NEW w \in Windows, Discard(w) PROVE Lasting
  <2>1. OutStep
    BY <1>2 DEF OutStep, Discard, Close
  <2>2. AimStep
    BY <1>2 DEF AimStep, Discard, Close
  <2>3. Grow
    BY <1>2 DEF Grow, Discard, Close
  <2>4. RefStep
    BY <1>2 DEF RefStep, Discard, Close
  <2> QED BY <2>1, <2>2, <2>3, <2>4 DEF Lasting
<1>3. ASSUME NEW w \in Windows, GarbageCollect(w) PROVE Lasting
  <2>1. OutStep
    BY <1>3 DEF OutStep, GarbageCollect
  <2>2. AimStep
    BY <1>3 DEF AimStep, GarbageCollect
  <2>3. Grow
    BY <1>3 DEF Grow, GarbageCollect
  <2>4. RefStep
    BY <1>3 DEF RefStep, GarbageCollect
  <2> QED BY <2>1, <2>2, <2>3, <2>4 DEF Lasting
<1>4. ASSUME NEW w \in Windows, CancelUploads(w) PROVE Lasting
  <2>1. OutStep
    BY <1>4 DEF OutStep, CancelUploads
  <2>2. AimStep
    BY <1>4 DEF AimStep, CancelUploads
  <2>3. Grow
    BY <1>4 DEF Grow, CancelUploads
  <2>4. RefStep
    BY <1>4 DEF RefStep, CancelUploads
  <2> QED BY <2>1, <2>2, <2>3, <2>4 DEF Lasting
<1>5. ASSUME NEW w \in Windows, NEW f \in Files, BeginUpload(w, f) PROVE Lasting
  <2>1. OutStep
    BY <1>5 DEF OutStep, BeginUpload
  <2>2. AimStep
    BY <1>5 DEF AimStep, BeginUpload
  <2>3. Grow
    BY <1>5 DEF Grow, BeginUpload
  <2>4. RefStep
    BY <1>5 DEF RefStep, BeginUpload
  <2> QED BY <2>1, <2>2, <2>3, <2>4 DEF Lasting
<1>6. ASSUME NEW w \in Windows, NEW f \in Files, RemoveFile(w, f) PROVE Lasting
  <2>1. OutStep
    BY <1>6 DEF OutStep, RemoveFile
  <2>2. AimStep
    BY <1>6 DEF AimStep, RemoveFile
  <2>3. Grow
    BY <1>6 DEF Grow, RemoveFile
  <2>4. RefStep
    BY <1>6 DEF RefStep, RemoveFile
  <2> QED BY <2>1, <2>2, <2>3, <2>4 DEF Lasting
<1>7. ASSUME NEW w \in Windows, NEW draft \in BOOLEAN, Submit(w, draft) PROVE Lasting
  <2>1. OutStep
    BY <1>7 DEF OutStep, Submit, Submitted
  <2>2. AimStep
    BY <1>7 DEF AimStep, Submit, Submitted
  <2>3. Grow
    BY <1>7 DEF Grow, Submit, Submitted
  <2>4. RefStep
    BY <1>7 DEF RefStep, Submit, Submitted
  <2> QED BY <2>1, <2>2, <2>3, <2>4 DEF Lasting
<1>8. ASSUME NEW w \in Windows, Deliver(w) PROVE Lasting
  <2>1. OutStep
    BY <1>8 DEF OutStep, Deliver, Put, Mailed
  <2>2. AimStep
    BY <1>8 DEF AimStep, Deliver, Put, Mailed
  <2>3. Grow
    BY <1>8 DEF Grow, Deliver, Put, Mailed
  <2>4. RefStep
    BY <1>8 DEF RefStep, Deliver, Put, Mailed
  <2> QED BY <2>1, <2>2, <2>3, <2>4 DEF Lasting
<1>9. ASSUME NEW w \in Windows, DeliverFails(w) PROVE Lasting
  <2>1. OutStep
    BY <1>9 DEF OutStep, DeliverFails, ShowForm, Put, Mailed
  <2>2. AimStep
    BY <1>9 DEF AimStep, DeliverFails, ShowForm, Put, Mailed
  <2>3. Grow
    BY <1>9 DEF Grow, DeliverFails, ShowForm, Put, Mailed
  <2>4. RefStep
    BY <1>9 DEF RefStep, DeliverFails, ShowForm, Put, Mailed
  <2> QED BY <2>1, <2>2, <2>3, <2>4 DEF Lasting
<1>10. ASSUME NEW w \in Windows, DeleteAttachments(w) PROVE Lasting
  <2>1. OutStep
    BY <1>10 DEF OutStep, DeleteAttachments
  <2>2. AimStep
    BY <1>10 DEF AimStep, DeleteAttachments
  <2>3. Grow
    BY <1>10 DEF Grow, DeleteAttachments
  <2>4. RefStep
    BY <1>10 DEF RefStep, DeleteAttachments
  <2> QED BY <2>1, <2>2, <2>3, <2>4 DEF Lasting
<1>11. ASSUME NEW w \in Windows, CreateHistory(w) PROVE Lasting
  <2>1. OutStep
    BY <1>11 DEF OutStep, CreateHistory
  <2>2. AimStep
    BY <1>11 DEF AimStep, CreateHistory
  <2>3. Grow
    BY <1>11 DEF Grow, CreateHistory
  <2>4. RefStep
    BY <1>11 DEF RefStep, CreateHistory
  <2> QED BY <2>1, <2>2, <2>3, <2>4 DEF Lasting
<1>12. ASSUME NEW w \in Windows, CountHistories(w) PROVE Lasting
  <2>1. OutStep
    BY <1>12 DEF OutStep, CountHistories
  <2>2. AimStep
    BY <1>12 DEF AimStep, CountHistories
  <2>3. Grow
    BY <1>12 DEF Grow, CountHistories
  <2>4. RefStep
    BY <1>12 DEF RefStep, CountHistories
  <2> QED BY <2>1, <2>2, <2>3, <2>4 DEF Lasting
<1>13. ASSUME NEW w \in Windows, DeleteExceeded(w) PROVE Lasting
  <2>1. OutStep
    BY <1>13 DEF OutStep, DeleteExceeded
  <2>2. AimStep
    BY <1>13 DEF AimStep, DeleteExceeded
  <2>3. Grow
    BY <1>13 DEF Grow, DeleteExceeded
  <2>4. RefStep
    BY <1>13 DEF RefStep, DeleteExceeded
  <2> QED BY <2>1, <2>2, <2>3, <2>4 DEF Lasting
<1>14. ASSUME NEW w \in Windows, Yield(w) PROVE Lasting
  <2>1. OutStep
    BY <1>14 DEF OutStep, Yield
  <2>2. AimStep
    BY <1>14 DEF AimStep, Yield
  <2>3. Grow
    BY <1>14 DEF Grow, Yield
  <2>4. RefStep
    BY <1>14 DEF RefStep, Yield
  <2> QED BY <2>1, <2>2, <2>3, <2>4 DEF Lasting
<1>15. ASSUME NEW w \in Windows, SaveToSent(w) \/ SaveToSentFails(w) PROVE Lasting
  <2>1. OutStep
    BY <1>15 DEF OutStep, SaveToSent, SaveToSentFails
  <2>2. AimStep
    BY <1>15 DEF AimStep, SaveToSent, SaveToSentFails
  <2>3. Grow
    BY <1>15 DEF Grow, SaveToSent, SaveToSentFails
  <2>4. RefStep
    BY <1>15 DEF RefStep, SaveToSent, SaveToSentFails
  <2> QED BY <2>1, <2>2, <2>3, <2>4 DEF Lasting
<1>16. ASSUME NEW w \in Windows, Fails(w) PROVE Lasting
  <2>1. OutStep
    BY <1>16 DEF OutStep, Fails, ShowForm
  <2>2. AimStep
    BY <1>16 DEF AimStep, Fails, ShowForm
  <2>3. Grow
    BY <1>16 DEF Grow, Fails, ShowForm
  <2>4. RefStep
    BY <1>16 DEF RefStep, Fails, ShowForm
  <2> QED BY <2>1, <2>2, <2>3, <2>4 DEF Lasting
<1>17. ASSUME NEW w \in Windows, Killed(w) PROVE Lasting
  <2>1. OutStep
    BY <1>17 DEF OutStep, Killed
  <2>2. AimStep
    BY <1>17 DEF AimStep, Killed
  <2>3. Grow
    BY <1>17 DEF Grow, Killed
  <2>4. RefStep
    BY <1>17 DEF RefStep, Killed
  <2> QED BY <2>1, <2>2, <2>3, <2>4 DEF Lasting
<1>18. ASSUME NEW u \in ups, Store(u) PROVE Lasting
  <2>1. OutStep
    BY <1>18 DEF OutStep, Store
  <2>2. AimStep
    BY <1>18 DEF AimStep, Store
  <2>3. Grow
    BY <1>18 DEF Grow, Store
  <2>4. RefStep
    BY <1>18 DEF RefStep, Store
  <2> QED BY <2>1, <2>2, <2>3, <2>4 DEF Lasting
<1>19. ASSUME NEW u \in ups, StoreFails(u) \/ UploadAnswer(u) PROVE Lasting
  <2>1. OutStep
    BY <1>19 DEF OutStep, StoreFails, UploadAnswer
  <2>2. AimStep
    BY <1>19 DEF AimStep, StoreFails, UploadAnswer
  <2>3. Grow
    BY <1>19 DEF Grow, StoreFails, UploadAnswer
  <2>4. RefStep
    BY <1>19 DEF RefStep, StoreFails, UploadAnswer
  <2> QED BY <2>1, <2>2, <2>3, <2>4 DEF Lasting
<1>20. ASSUME NEW r \in Refs, LoseRef(r) PROVE Lasting
  <2>1. OutStep
    BY <1>20 DEF OutStep, LoseRef
  <2>2. AimStep
    BY <1>20 DEF AimStep, LoseRef
  <2>3. Grow
    BY <1>20 DEF Grow, LoseRef
  <2>4. RefStep
    BY <1>20 DEF RefStep, LoseRef
  <2> QED BY <2>1, <2>2, <2>3, <2>4 DEF Lasting
<1>21. CASE ResetHistories \/ UNCHANGED vars
  <2>1. OutStep
    BY <1>21 DEF OutStep, ResetHistories, vars
  <2>2. AimStep
    BY <1>21 DEF AimStep, ResetHistories, vars
  <2>3. Grow
    BY <1>21 DEF Grow, ResetHistories, vars
  <2>4. RefStep
    BY <1>21 DEF RefStep, ResetHistories, vars
  <2> QED BY <2>1, <2>2, <2>3, <2>4 DEF Lasting
<1> QED
  BY <1>1, <1>2, <1>3, <1>4, <1>5, <1>6, <1>7, <1>8, <1>9, <1>10, <1>11, <1>12, <1>13, <1>14, <1>15,
     <1>16, <1>17, <1>18, <1>19, <1>20, <1>21 DEF Next, Editing, Sending

(* The mails that are out.                                                 *)
LEMMA TravelStep ==
  ASSUME Shape, ListedThere, AttachmentsTravel, Lasting PROVE AttachmentsTravel'
<1> SUFFICES ASSUME NEW w \in Windows \ (collected' \cup killed'), NEW i \in DOMAIN out'[w]
             PROVE  out'[w][i].wanted \subseteq out'[w][i].carried
  BY DEF AttachmentsTravel
<1>1. w \notin collected \cup killed /\ out[w] \in Seq(Mail)
  BY DEF Lasting, Grow, Shape, Results
<1>2. CASE out'[w] = out[w]
  BY <1>1, <1>2 DEF AttachmentsTravel
<1>3. CASE pc[w] = "put" /\ out'[w] = Append(out[w], Mailed(w))
  <2>1. Mailed(w).wanted \subseteq Mailed(w).carried
    BY <1>1, <1>3, CarriedAll DEF Mailed
  <2>2. CASE i = Len(out[w]) + 1
    BY <1>1, <1>3, <2>1, <2>2
  <2>3. CASE i \in DOMAIN out[w]
    BY <1>1, <1>3, <2>3 DEF AttachmentsTravel
  <2> QED BY <1>1, <1>3, <2>2, <2>3
<1> QED BY <1>2, <1>3 DEF Lasting, OutStep

(* A mail is let out a second time only after an error.                    *)
LEMMA OnceStep ==
  ASSUME Shape, Turns, OutOnce, Lasting PROVE OutOnce'
<1> SUFFICES ASSUME NEW w \in Windows \ (failed' \cup killed') PROVE Len(out'[w]) <= 1
  BY DEF OutOnce
<1>1. w \notin failed \cup killed
  BY DEF Lasting, Grow
<1>2. CASE out'[w] = out[w]
  BY <1>1, <1>2 DEF OutOnce
<1>3. CASE pc[w] = "put" /\ out'[w] = Append(out[w], Mailed(w))
  <2>1. out[w] = <<>>
    BY <1>1, <1>3 DEF Turns
  <2> QED BY <1>3, <2>1
<1> QED BY <1>2, <1>3 DEF Lasting, OutStep

(* A window that has let its mail out keeps doing so, for the same mail.   *)
LEMMA OutStays ==
  ASSUME Shape, Turns, Lasting, NEW r, NEW kinds, NEW w \in OutFor(r, kinds)
  PROVE  w \in OutFor(r, kinds)' /\ (Complete(w, r) => Complete(w, r)')
<1>1. w \in Windows /\ out[w] # <<>> /\ out[w] \in Seq(Mail) /\ page[w] # "closed"
  BY DEF OutFor, Turns, Shape, Results
<1>2. aim'[w] = aim[w]
  BY <1>1 DEF Lasting, AimStep
<1>3. Mailed(w) \in Mail
  BY <1>1, CarriedTyped DEF Mailed, Mail, Shape, Tasks
<1>4. out'[w] = out[w] \/ out'[w] = Append(out[w], Mailed(w))
  BY <1>1 DEF Lasting, OutStep
<1>5. out'[w] # <<>>
  BY <1>1, <1>4
<1>6. Complete(w, r) => Complete(w, r)'
  BY <1>1, <1>3, <1>4, CompleteStays DEF Lasting, Grow
<1> QED BY <1>1, <1>2, <1>5, <1>6 DEF OutFor

(* A draft is deleted only after what is left of it is out.                *)
LEMMA DraftKeptStep ==
  ASSUME Shape, Turns, DraftThere, DraftKept, Lasting PROVE DraftKept'
<1>1. ASSUME NEW w \in Windows, pc[w] = "yield"
      PROVE  \A kinds : aim[w].kind \in kinds => w \in OutFor(aim[w].ref, kinds)
  BY <1>1 DEF Turns, Late, OutFor
<1>2. ASSUME NEW w \in Windows, pc[w] = "yield", aim[w].kind = "edit"
      PROVE  Complete(w, aim[w].ref)
  <2>1. page[w] = "wait"
    BY <1>2 DEF Turns
  <2> QED BY <1>2, <2>1 DEF DraftThere, DraftHere, Complete
<1>3. ASSUME NEW r \in Refs \ (refs' \cup moved')
      PROVE  \E w \in OutFor(r, {"edit"})' : Complete(w, r)'
  <2>1. PICK w \in OutFor(r, {"edit"}) : Complete(w, r)
    <3>1. CASE r \in refs
      <4>1. PICK w \in Windows : pc[w] = "yield" /\ aim[w].kind = "edit" /\ aim[w].ref = r
        BY <1>3, <3>1 DEF Lasting, RefStep
      <4> QED BY <1>1, <1>2, <4>1
    <3>2. CASE r \notin refs
      BY <1>3, <3>2 DEF Lasting, Grow, DraftKept
    <3> QED BY <3>1, <3>2
  <2> QED BY <2>1, OutStays
<1>4. ASSUME NEW r \in flagged' PROVE OutFor(r, {"answer", "forward"})' # {}
  <2>1. PICK w : w \in OutFor(r, {"answer", "forward"})
    <3>1. CASE r \in flagged
      BY <3>1 DEF DraftKept
    <3>2. CASE r \notin flagged
      <4>1. PICK w \in Windows : pc[w] = "yield" /\ aim[w].kind \in {"answer", "forward"} /\ aim[w].ref = r
        BY <1>4, <3>2 DEF Lasting, RefStep
      <4> QED BY <1>1, <4>1
    <3> QED BY <3>1, <3>2
  <2> QED BY <2>1, OutStays
<1> QED BY <1>3, <1>4 DEF DraftKept
---------------------------------------------------------------------------
(* The limit of the attachments                                            *)

(* The bytes of one file, ...                                              *)
LEMMA FileBytes ==
  ASSUME NEW f \in Files
  PROVE  IsFiniteSet({f} \X (1 .. Size[f])) /\ Cardinality({f} \X (1 .. Size[f])) = Size[f]
<1>1. Size[f] \in Nat \ {0}
  BY SendMailAssumption
<1>2. IsFiniteSet(1 .. Size[f]) /\ Cardinality(1 .. Size[f]) = Size[f]
  BY <1>1, FS_Interval
<1>3. IsFiniteSet({f}) /\ Cardinality({f}) = 1
  BY FS_EmptySet, FS_Singleton
<1>4. /\ IsFiniteSet({f} \X (1 .. Size[f]))
      /\ Cardinality({f} \X (1 .. Size[f])) = 1 * Size[f]
  BY <1>2, <1>3, FS_Product
<1> QED BY <1>1, <1>4

(* ... and of some.                                                        *)
Bytes(F) == UNION {{f} \X (1 .. Size[f]) : f \in F}
LEMMA BytesFinite ==
  ASSUME NEW F \in SUBSET Files
  PROVE  IsFiniteSet(Bytes(F)) /\ Total(F) = Cardinality(Bytes(F)) /\ Total(F) \in Nat
<1> DEFINE parts == {{f} \X (1 .. Size[f]) : f \in F}
           part == [f \in F |-> {f} \X (1 .. Size[f])]
<1>1. IsFiniteSet(F)
  BY SendMailAssumption, FS_Subset
<1>2. part \in Surjection(F, parts)
  BY DEF Surjection
<1>3. IsFiniteSet(parts)
  BY <1>1, <1>2, FS_Surjection DEF ExistsSurjection
<1>4. \A x \in parts : IsFiniteSet(x)
  BY FileBytes
<1>5. IsFiniteSet(UNION parts)
  BY <1>3, <1>4, FS_UNION
<1> QED BY <1>5, FS_CardinalityType DEF Bytes, Total

(* Fewer files are not larger, ...                                         *)
LEMMA TotalLess ==
  ASSUME NEW F \in SUBSET Files, NEW G \in SUBSET F
  PROVE  Total(G) <= Total(F)
<1>1. Bytes(G) \in SUBSET Bytes(F)
  BY DEF Bytes
<1>2. G \in SUBSET Files
  OBVIOUS
<1> QED BY <1>1, <1>2, BytesFinite, FS_Subset

(* ... no files have the size 0, ...                                       *)
LEMMA TotalNone == Total({}) = 0
<1>1. Bytes({}) = {}
  BY DEF Bytes
<1> QED BY <1>1, BytesFinite, FS_EmptySet

(* ... and one file more adds at most its own size.                        *)
LEMMA TotalMore ==
  ASSUME NEW F \in SUBSET Files, NEW f \in Files
  PROVE  Total(F \cup {f}) <= Total(F) + Size[f]
<1> DEFINE own == {f} \X (1 .. Size[f])
<1>1. Bytes(F \cup {f}) = Bytes(F) \cup own
  BY DEF Bytes
<1>2. IsFiniteSet(own) /\ Cardinality(own) = Size[f] /\ Size[f] \in Nat
  BY FileBytes, SendMailAssumption
<1>3. IsFiniteSet(Bytes(F)) /\ Total(F) = Cardinality(Bytes(F)) /\ Total(F) \in Nat
  BY BytesFinite
<1>4. Total(F \cup {f}) = Cardinality(Bytes(F \cup {f}))
  BY BytesFinite
<1> HIDE DEF own
<1>5. Cardinality(Bytes(F) \cap own) \in Nat
  BY <1>3, FS_Intersection, FS_CardinalityType
<1>6. Cardinality(Bytes(F) \cup own) = Cardinality(Bytes(F)) + Cardinality(own) - Cardinality(Bytes(F) \cap own)
  BY <1>2, <1>3, FS_Union
<1>7. Total(F \cup {f}) = Total(F) + Size[f] - Cardinality(Bytes(F) \cap own)
  BY <1>1, <1>2, <1>3, <1>4, <1>6
<1>8. \A a, b, c \in Nat : a + b - c <= a + b
  OBVIOUS
<1> QED BY <1>2, <1>3, <1>5, <1>7, <1>8

(* What an upload under way will store still fits, and there is one only.  *)
Fits(w) ==
  /\ Total(RowsOf(w)) <= MaxSize
  /\ page[w] = "closed" => RowsOf(w) = {}
  /\ \A u \in ups : u.win = w /\ ~u.stored => Total(RowsOf(w)) + Size[u.file] <= MaxSize
  /\ \A u, v \in ups : u.win = w /\ v.win = w => u.file = v.file
AllFit == \A w \in Windows \ crowded : Fits(w)

(* A step that leaves rows and uploads as they are or takes some away.     *)
Less ==
  /\ rows' \subseteq rows /\ crowded' = crowded
  /\ \A w \in Windows : page'[w] = "closed" => page[w] = "closed"
  /\ \A v \in ups' : \E u \in ups : u.win = v.win /\ u.file = v.file /\ (~v.stored => ~u.stored)

(* The files of a window.                                                  *)
LEMMA RowFiles == ASSUME Uploads, NEW w PROVE RowsOf(w) \subseteq Files
  BY DEF Uploads, RowsOf

(* Such a step leaves the windows within the limit.                        *)
LEMMA LessFits == ASSUME Shape, AllFit, Less PROVE AllFit'
<1> SUFFICES ASSUME NEW w \in Windows \ crowded PROVE Fits(w)'
  BY DEF AllFit, Less
<1>1. Fits(w)
  BY DEF AllFit
<1>2. RowsOf(w)' \subseteq RowsOf(w) /\ RowsOf(w) \subseteq Files
  BY RowFiles DEF Less, RowsOf, Shape
<1>3. Total(RowsOf(w)') <= Total(RowsOf(w)) /\ Total(RowsOf(w)') \in Nat /\ Total(RowsOf(w)) \in Nat
  BY <1>2, TotalLess, BytesFinite
<1>4. MaxSize \in Nat /\ \A u \in ups : Size[u.file] \in Nat
  BY SendMailAssumption DEF Shape, Uploads
<1>5. Total(RowsOf(w)') <= MaxSize
  BY <1>1, <1>3, <1>4 DEF Fits
<1>6. page'[w] = "closed" => RowsOf(w)' = {}
  BY <1>1, <1>2 DEF Fits, Less
<1>7. ASSUME NEW v \in ups', v.win = w, ~v.stored PROVE Total(RowsOf(w)') + Size[v.file] <= MaxSize
  <2>1. PICK u \in ups : u.win = v.win /\ u.file = v.file /\ ~u.stored
    BY <1>7 DEF Less
  <2>2. Total(RowsOf(w)) + Size[u.file] <= MaxSize /\ Size[u.file] \in Nat
    BY <1>1, <1>4, <1>7, <2>1 DEF Fits
  <2> QED BY <1>3, <1>4, <2>1, <2>2
<1>8. ASSUME NEW u \in ups', NEW v \in ups', u.win = w, v.win = w PROVE u.file = v.file
  <2>1. PICK a \in ups : a.win = u.win /\ a.file = u.file
    BY DEF Less
  <2>2. PICK b \in ups : b.win = v.win /\ b.file = v.file
    BY DEF Less
  <2> QED BY <1>1, <1>8, <2>1, <2>2 DEF Fits
<1> QED BY <1>5, <1>6, <1>7, <1>8 DEF Fits

(* Steps in which the uploads of a page are given up, or nothing happens   *)
(* to uploads.                                                             *)
LEMMA GivenUp ==
  ASSUME Shape, NEW w \in Windows, ups' \in {Abandoned(w), ups, {u \in ups : u.win # w}}
  PROVE  \A v \in ups' : \E u \in ups : u.win = v.win /\ u.file = v.file /\ (~v.stored => ~u.stored)
<1>1. CASE ups' = Abandoned(w)
  BY <1>1, AbandonedFrom DEF Shape
<1> QED BY <1>1

(* A window is opened with copies that fit.                                *)
LEMMA OpenFits == ASSUME Shape, Turns, AllFit, NEW w \in Windows, Open(w) PROVE AllFit'
<1>1. PICK K : /\ Total(K) <= MaxSize /\ rows' = rows \cup {[win |-> w, file |-> f] : f \in K}
               /\ page[w] = "closed" /\ page' = [page EXCEPT ![w] = "form"] /\ UNCHANGED <<ups, crowded>>
  BY DEF Open, OpenFor
<1>2. \A u \in ups : u.win # w
  BY <1>1 DEF Turns
<1>3. \A v \in Windows \ {w} : RowsOf(v)' = RowsOf(v) /\ page'[v] = page[v]
  BY <1>1 DEF RowsOf, Shape, Pages
<1>4. page'[w] = "form"
  BY <1>1 DEF Shape, Pages
<1>5. ASSUME NEW v \in Windows \ crowded, v # w PROVE Fits(v)'
  <2>1. Fits(v)
    BY DEF AllFit
  <2> QED BY <1>1, <1>3, <1>5, <2>1 DEF Fits
<1>6. ASSUME w \notin crowded PROVE Fits(w)'
  <2>1. RowsOf(w) = {}
    BY <1>1, <1>6 DEF AllFit, Fits
  <2>2. RowsOf(w)' = K
    <3>1. \A x \in rows : x.win # w
      BY <2>1 DEF RowsOf
    <3> DEFINE row == [f \in K |-> [win |-> w, file |-> f]]
    <3>2. \A f \in K : row[f].win = w /\ row[f].file = f
      OBVIOUS
    <3>3. rows' = rows \cup {row[f] : f \in K}
      BY <1>1
    <3> HIDE DEF row
    <3>4. {x \in rows' : x.win = w} = {row[f] : f \in K}
      BY <3>1, <3>2, <3>3
    <3> QED BY <3>2, <3>4 DEF RowsOf
  <2> QED BY <1>1, <1>2, <1>4, <2>2 DEF Fits
<1> QED BY <1>1, <1>5, <1>6 DEF AllFit

(* An upload begins if it fits and is the only one; otherwise the window   *)
(* is crowded.                                                             *)
LEMMA BeginFits == ASSUME Shape, AllFit, NEW w \in Windows, NEW f \in Files, BeginUpload(w, f) PROVE AllFit'
<1> DEFINE new == [win |-> w, file |-> f, stored |-> FALSE, lost |-> FALSE]
<1>1. /\ ups' = ups \cup {new} /\ UNCHANGED <<rows, page>> /\ page[w] = "form"
      /\ Total(RowsOf(w)) + Size[f] <= MaxSize
      /\ crowded' = IF \E u \in ups : u.win = w THEN crowded \cup {w} ELSE crowded
  BY DEF BeginUpload
<1>2. new.win = w /\ new.file = f
  OBVIOUS
<1> HIDE DEF new
<1>3. \A v \in Windows : RowsOf(v)' = RowsOf(v)
  BY <1>1 DEF RowsOf
<1>4. ASSUME NEW v \in Windows \ crowded', v # w PROVE Fits(v)'
  <2>1. Fits(v)
    BY <1>1 DEF AllFit
  <2> QED BY <1>1, <1>2, <1>3, <1>4, <2>1 DEF Fits
<1>5. ASSUME w \notin crowded' PROVE Fits(w)'
  <2>1. Fits(w) /\ \A u \in ups : u.win # w
    BY <1>1, <1>5 DEF AllFit
  <2> QED BY <1>1, <1>2, <1>3, <2>1 DEF Fits
<1> QED BY <1>4, <1>5 DEF AllFit

(* A file is stored as it was found to fit.                                *)
LEMMA StoreFits == ASSUME Shape, Turns, UploadsApart, AllFit, NEW u \in ups, Store(u) PROVE AllFit'
<1> DEFINE t == [u EXCEPT !.stored = TRUE]
<1>1. /\ rows' = rows \cup {[win |-> u.win, file |-> u.file]} /\ ~u.stored
      /\ ups' = ups \ {u} \/ ups' = (ups \ {u}) \cup {t}
      /\ UNCHANGED <<page, crowded>>
  BY DEF Store, history
<1>2. t.win = u.win /\ t.file = u.file /\ t.stored = TRUE
  BY DEF Shape, Uploads
<1> HIDE DEF t
<1>3. \A v \in ups' : \E x \in ups : x.win = v.win /\ x.file = v.file
  BY <1>1, <1>2
<1>4. ASSUME NEW v \in Windows \ crowded, v # u.win PROVE Fits(v)'
  <2>1. Fits(v)
    BY DEF AllFit
  <2>2. RowsOf(v)' = RowsOf(v)
    BY <1>1, <1>4 DEF RowsOf
  <2>3. \A x \in ups' : x.win = v => x \in ups
    BY <1>1, <1>2, <1>4
  <2> QED BY <1>1, <2>1, <2>2, <2>3 DEF Fits
<1>5. ASSUME u.win \notin crowded PROVE Fits(u.win)'
  <2>1. Fits(u.win) /\ u.win \in Windows /\ u.file \in Files
    BY <1>5 DEF AllFit, Shape, Uploads
  <2>2. RowsOf(u.win)' = RowsOf(u.win) \cup {u.file}
    <3> DEFINE row == [win |-> u.win, file |-> u.file]
    <3>1. row.win = u.win /\ row.file = u.file
      OBVIOUS
    <3>2. rows' = rows \cup {row}
      BY <1>1
    <3> HIDE DEF row
    <3>3. {x \in rows' : x.win = u.win} = {x \in rows : x.win = u.win} \cup {row}
      BY <3>1, <3>2
    <3> QED BY <3>1, <3>3 DEF RowsOf
  <2>3. RowsOf(u.win) \in SUBSET Files
    BY RowFiles DEF Shape
  <2>4. Total(RowsOf(u.win) \cup {u.file}) <= Total(RowsOf(u.win)) + Size[u.file]
    BY <2>1, <2>3, TotalMore
  <2>5. Total(RowsOf(u.win)) + Size[u.file] <= MaxSize
    BY <1>1, <2>1 DEF Fits
  <2>6. Total(RowsOf(u.win) \cup {u.file}) <= MaxSize
    <3>1. /\ Total(RowsOf(u.win)) \in Nat /\ Size[u.file] \in Nat /\ MaxSize \in Nat
          /\ Total(RowsOf(u.win) \cup {u.file}) \in Nat
      BY <2>1, <2>3, BytesFinite, SendMailAssumption
    <3> QED BY <2>4, <2>5, <3>1
  <2>7. page[u.win] # "closed"
    BY <2>1 DEF Turns
  <2>8. \A x \in ups' : x.win = u.win => x.stored
    BY <1>1, <1>2, <2>1 DEF Fits, UploadsApart
  <2>9. \A x, y \in ups' : x.win = u.win /\ y.win = u.win => x.file = y.file
    BY <1>3, <2>1 DEF Fits
  <2> QED BY <1>1, <2>2, <2>6, <2>7, <2>8, <2>9 DEF Fits
<1> QED BY <1>1, <1>4, <1>5 DEF AllFit

(* Every step leaves the windows within the limit.                         *)
LEMMA FitNext == Shape /\ Turns /\ UploadsApart /\ AllFit /\ [Next]_vars => AllFit'
<1> SUFFICES ASSUME Shape, Turns, UploadsApart, AllFit, [Next]_vars PROVE AllFit'
  OBVIOUS
<1>0. DOMAIN page = Windows
  BY DEF Shape, Pages
<1> USE DEF server, client, history, count
<1>1. ASSUME NEW w \in Windows, Discard(w) \/ GarbageCollect(w) \/ CancelUploads(w) \/ DeleteAttachments(w)
      PROVE  AllFit'
  <2>1. /\ rows' \subseteq rows /\ crowded' = crowded /\ ups' \in {Abandoned(w), ups, {u \in ups : u.win # w}}
        /\ \A v \in Windows : page'[v] = "closed" => page[v] = "closed"
    BY <1>0, <1>1 DEF Discard, Close, GarbageCollect, CancelUploads, DeleteAttachments
  <2> QED BY <2>1, GivenUp, LessFits DEF Less
<1>2. ASSUME NEW w \in Windows, (\E f \in Files : RemoveFile(w, f)) \/ \E draft \in BOOLEAN : Submit(w, draft)
      PROVE  AllFit'
  <2>1. /\ rows' \subseteq rows /\ crowded' = crowded /\ ups' = ups
        /\ \A v \in Windows : page'[v] = "closed" => page[v] = "closed"
    BY <1>0, <1>2 DEF RemoveFile, Submit, Submitted
  <2> QED BY <2>1, GivenUp, LessFits DEF Less
<1>3. ASSUME NEW w \in Windows, DeliverFails(w) \/ Fails(w) \/ Killed(w) PROVE AllFit'
  <2>1. /\ rows' \subseteq rows /\ crowded' = crowded /\ ups' \in {Abandoned(w), ups}
        /\ \A v \in Windows : page'[v] = "closed" => page[v] = "closed"
    BY <1>0, <1>3, BrokenOffTakes DEF DeliverFails, Fails, Killed, ShowForm
  <2> QED BY <2>1, GivenUp, LessFits DEF Less
<1>4. ASSUME NEW w \in Windows, Yield(w) \/ SaveToSent(w) \/ SaveToSentFails(w) PROVE AllFit'
  <2>1. /\ rows' = rows /\ crowded' = crowded /\ ups' \in {ups, {u \in ups : u.win # w}}
        /\ \A v \in Windows : page'[v] = "closed" => page[v] = "closed"
    BY <1>0, <1>4 DEF Yield, SaveToSent, SaveToSentFails, Close
  <2> QED BY <2>1, GivenUp, LessFits DEF Less
<1>5. ASSUME UNCHANGED <<rows, page, crowded>>, ups' \subseteq ups PROVE AllFit'
  BY <1>5, LessFits DEF Less
<1>6. ASSUME NEW w \in Windows, Deliver(w) \/ CreateHistory(w) \/ CountHistories(w) \/ DeleteExceeded(w)
      PROVE  AllFit'
  BY <1>5, <1>6 DEF Deliver, CreateHistory, CountHistories, DeleteExceeded
<1>7. ASSUME NEW u \in ups, StoreFails(u) \/ UploadAnswer(u) PROVE AllFit'
  BY <1>5, <1>7 DEF StoreFails, UploadAnswer
<1>8. CASE (\E r \in Refs : LoseRef(r)) \/ ResetHistories \/ UNCHANGED vars
  BY <1>5, <1>8 DEF LoseRef, ResetHistories, vars
<1> QED
  BY <1>1, <1>2, <1>3, <1>4, <1>6, <1>7, <1>8, OpenFits, BeginFits, StoreFits DEF Next, Editing, Sending
---------------------------------------------------------------------------
(* The inductive invariant.                                                *)
Hold == Turns /\ UploadsApart /\ ListedThere /\ DraftThere /\ OwedOnly
Promises == AttachmentsTravel /\ OutOnce /\ DraftKept

(* The initial states satisfy the invariant.                               *)
LEMMA HoldInit == Init => Hold /\ Promises
<1> SUFFICES ASSUME Init PROVE Hold /\ Promises
  OBVIOUS
<1>1. Turns
  BY DEF Init, Turns, Late
<1>2. UploadsApart /\ ListedThere
  BY DEF Init, UploadsApart, ListedThere, Here
<1>3. DraftThere
  BY DEF Init, DraftThere, DraftHere
<1>4. OwedOnly
  <2>1. Owing = {}
    BY DEF Init, Owing
  <2> QED BY <2>1, FS_EmptySet, HistoryConstants DEF Init, OwedOnly
<1>5. AttachmentsTravel
  BY DEF Init, AttachmentsTravel
<1>6. OutOnce
  BY DEF Init, OutOnce
<1>7. DraftKept
  BY DEF Init, DraftKept
<1> QED BY <1>1, <1>2, <1>3, <1>4, <1>5, <1>6, <1>7 DEF Hold, Promises

(* Every step keeps the invariant.                                         *)
LEMMA HoldNext ==
  ASSUME Shape, Hold, Promises, [Next]_vars PROVE Shape' /\ Hold' /\ Promises'
<1>1. Shape'
  BY ShapeNext
<1>2. Hold'
  BY <1>1, TurnsNext, ApartNext, ListedNext, DraftNext, OwedNext DEF Hold
<1>3. Lasting
  BY LastingNext
<1>4. Promises'
  BY <1>3, TravelStep, OnceStep, DraftKeptStep DEF Hold, Promises
<1> QED BY <1>1, <1>2, <1>4

(* The invariant and the promises that follow hold in every state.         *)
LEMMA HoldAlways == Spec => [](Shape /\ Hold /\ Promises)
<1>1. Init => Shape /\ Hold /\ Promises
  BY ShapeInit, HoldInit
<1>2. Shape /\ Hold /\ Promises /\ [Next]_vars => (Shape /\ Hold /\ Promises)'
  BY HoldNext
<1> QED BY <1>1, <1>2, PTL DEF Spec

(* Whatever uploads, errors and other windows do in between, a mail that   *)
(* is sent or saved has every attachment that its page listed, but for the *)
(* exceptions named at AttachmentsTravel.                                  *)
THEOREM AttachmentsArrive == Spec => []AttachmentsTravel
<1>1. Shape /\ Hold /\ Promises => AttachmentsTravel
  BY DEF Promises
<1> QED BY <1>1, HoldAlways, PTL

(* A window lets its mail out a second time only after it was shown an     *)
(* error, or nothing.                                                      *)
THEOREM SentOnce == Spec => []OutOnce
<1>1. Shape /\ Hold /\ Promises => OutOnce
  BY DEF Promises
<1> QED BY <1>1, HoldAlways, PTL

(* A draft is deleted only after a window that edited it has let out or    *)
(* saved all of it that the user had not removed and that the window was   *)
(* opened with, and a mail flagged only after its answer is out, with any  *)
(* number of windows editing or answering the same mail (DraftKept).       *)
THEOREM DraftsSafe == Spec => []DraftKept
<1>1. Shape /\ Hold /\ Promises => DraftKept
  BY DEF Promises
<1> QED BY <1>1, HoldAlways, PTL

(* However many requests add to the history of addresses at once, what is  *)
(* beyond its limit is what those under way or broken off have added.      *)
THEOREM HistoryWithinLimit == Spec => []HistoryBounded
<1>1. ASSUME Shape, OwedOnly PROVE HistoryBounded
  <2> DEFINE Adding == {w \in Windows : pc[w] \in {"count", "cut"}}
  <2>1. IsFiniteSet(Windows) /\ Adding \subseteq Windows
    BY SendMailAssumption
  <2>2. IsFiniteSet(Adding) /\ Owing \subseteq Adding
    BY <2>1, FS_Subset DEF Owing
  <2>3. Cardinality(Owing) <= Cardinality(Adding) /\ Cardinality(Adding) \in Nat
    BY <2>2, FS_Subset, FS_CardinalityType
  <2> QED BY <1>1, <2>3, OwingFinite, HistoryConstants DEF OwedOnly, HistoryBounded, Shape, Counters
<1>2. Shape /\ Hold /\ Promises => HistoryBounded
  BY <1>1 DEF Hold
<1> QED BY <1>2, HoldAlways, PTL

(* The attachments of a window stay within the limit, whatever uploads are *)
(* given up, fail or come late, in any number of windows, unless one that  *)
(* was given up was still running when another began (LimitKept).          *)
THEOREM AttachmentsWithinLimit == Spec => []LimitKept
<1>1. Init => AllFit
  <2> SUFFICES ASSUME Init, NEW w \in Windows PROVE Fits(w)
    BY DEF AllFit
  <2>1. RowsOf(w) = {} /\ ups = {}
    BY DEF Init, RowsOf
  <2> QED BY <2>1, TotalNone, SendMailAssumption DEF Fits
<1>2. Shape /\ Hold /\ Promises => Shape /\ Turns /\ UploadsApart
  BY DEF Hold
<1>3. Spec => []AllFit
  BY <1>1, <1>2, FitNext, HoldAlways, PTL DEF Spec
<1>4. AllFit => LimitKept
  BY DEF AllFit, Fits, LimitKept
<1> QED BY <1>3, <1>4, PTL
===========================================================================
