----------------------- MODULE FilterRecentsProofs -----------------------
(***************************************************************************)
(* Proofs about FilterRecents, for any number of mails, mailboxes,         *)
(* filters, requests, workers and job slots, any slice size and limits,    *)
(* with and without MOVE.                                                  *)
(***************************************************************************)
EXTENDS FilterRecents, ImapStoreTheorems

USE InboxAssumption, RulesAssumption, RecentsAssumption
---------------------------------------------------------------------------
(* Types                                                                   *)

(* A process that leaves goes back to where a process starts.              *)
LEMMA LeaveType ==
  ASSUME ProcTypeOK, NEW p \in Procs, Leave(p)
  PROVE  ProcTypeOK'
<1>1. pc' \in [Procs -> {"idle", "status", "search", "first", "fetch", "act", "store",
                         "expunge", "handoff", "save"}]
  BY DEF ProcTypeOK, Leave, Goto
<1>2. cur' \in [Procs -> Nat] /\ top' \in [Procs -> Nat] /\ fresh' \in [Procs -> BOOLEAN]
  BY DEF ProcTypeOK, Leave
<1>3. loaded' \in [Procs -> SUBSET Filters] /\ acts' \in [Procs -> SUBSET Filters]
  BY DEF ProcTypeOK, Leave
<1>4. todo' \in [Procs -> SUBSET Nat] /\ rest' \in [Procs -> SUBSET Nat]
  BY DEF ProcTypeOK, Leave
<1>5. matched' \in [Procs -> [Filters -> SUBSET Nat]]
  BY DEF ProcTypeOK, Leave, Nothing
<1>6. job' \in [Procs -> JobSlots \cup {NoJob}]
  BY DEF ProcTypeOK, Leave
<1>7. \A w \in Workers : pc'[w] # "idle" => job'[w] # NoJob
  BY DEF ProcTypeOK, Leave, Goto, Procs
<1> QED BY <1>1, <1>2, <1>3, <1>4, <1>5, <1>6, <1>7 DEF ProcTypeOK

(* Moving messages keeps the server's types.                               *)
LEMMA MoveToType ==
  ASSUME ImapTypeOK, NEW S, S \subseteq store, NEW dest \in Boxes, MoveTo(S, dest)
  PROVE  ImapTypeOK'
<1> DEFINE A == Arrivals(S, dest, uidnext[dest])
<1>1. IsFiniteSet(S) /\ IsFiniteSet(store \ S)
  BY FS_Subset DEF ImapTypeOK
<1>2. S \subseteq Message /\ uidnext[dest] \in Nat \ {0}
  BY DEF ImapTypeOK
<1>3. A \subseteq Message /\ IsFiniteSet(A)
  BY <1>1, <1>2, ArrivalsFacts
<1>4. store' = (store \ S) \cup A
  BY DEF MoveTo
<1>5. Cardinality(S) \in Nat
  BY <1>1, FS_CardinalityType
<1>6. uidnext' \in [Boxes -> Nat \ {0}]
  BY <1>2, <1>5 DEF MoveTo, ImapTypeOK
<1> HIDE DEF A
<1>7. IsFiniteSet((store \ S) \cup A)
  BY <1>1, <1>3, FS_Union
<1> QED BY <1>3, <1>4, <1>6, <1>7 DEF MoveTo, ImapTypeOK

(* The UIDs a process takes up are numbers.                                *)
LEMMA UidsType ==
  ASSUME ImapTypeOK, NEW b, NEW uids
  PROVE  /\ UidsOf(Named(store, b, uids)) \subseteq Nat
         /\ UidsOf({r \in Named(store, b, uids) : ~r.seen}) \subseteq Nat
BY DEF ImapTypeOK, UidsOf, Named, Message

(* The variables start with values of their types.                         *)
LEMMA TypeInit == Init => TypeOK
<1> SUFFICES ASSUME Init PROVE TypeOK
  OBVIOUS
<1>1. ImapTypeOK
  BY FS_EmptySet DEF Init, ImapTypeOK
<1>2. DbTypeOK
  <2>1. 0 \in 0 .. (MaxAttempts - 1)
    OBVIOUS
  <2>2. tries \in [JobSlots -> 0 .. (MaxAttempts - 1)]
    BY <2>1 DEF Init
  <2>3. queue \in [JobSlots -> SUBSET Nat]
    BY DEF Init
  <2>4. lastUid \in Nat /\ rowSaved \in BOOLEAN /\ enabled \subseteq Filters
    BY DEF Init
  <2> QED BY <2>2, <2>3, <2>4 DEF DbTypeOK
<1>3. ProcTypeOK
  BY DEF Init, ProcTypeOK, Nothing, Procs
<1>4. HistoryTypeOK
  BY DEF Init, HistoryTypeOK
<1> QED BY <1>1, <1>2, <1>3, <1>4 DEF TypeOK

(* What the user and other mail clients do keeps the types.                *)
LEMMA UserType == TypeOK /\ User => TypeOK'
<1> SUFFICES ASSUME TypeOK, User PROVE TypeOK'
  OBVIOUS
<1> USE DEF TypeOK, imap, db, search, work, history
<1>1. ASSUME NEW m \in Mails, Deliver(m) PROVE TypeOK'
  <2> DEFINE r == [box |-> Inbox, uid |-> uidnext[Inbox], mail |-> m,
                   seen |-> FALSE, deleted |-> FALSE]
  <2>1. r \in Message
    BY DEF ImapTypeOK, Message
  <2>2. store' = store \cup {r}
    BY <1>1 DEF Deliver
  <2> HIDE DEF r
  <2>3. IsFiniteSet(store \cup {r})
    BY FS_AddElement DEF ImapTypeOK
  <2>4. sent' \subseteq Mails /\ uidnext' \in [Boxes -> Nat \ {0}]
    BY <1>1 DEF Deliver, ImapTypeOK
  <2>5. ImapTypeOK'
    BY <2>1, <2>2, <2>3, <2>4 DEF ImapTypeOK
  <2> QED BY <1>1, <2>5 DEF Deliver, DbTypeOK, ProcTypeOK, HistoryTypeOK
<1>2. ASSUME NEW r \in store, NEW b \in Boxes, Refile(r, b) PROVE TypeOK'
  <2>1. ImapTypeOK'
    BY <1>2, MoveToType DEF Refile
  <2> QED BY <1>2, <2>1 DEF Refile, DbTypeOK, ProcTypeOK, HistoryTypeOK
<1>3. ASSUME NEW r \in store, ToggleSeen(r) PROVE TypeOK'
  <2> DEFINE v == ~r.seen
             t == [r EXCEPT !.seen = v]
  <2>1. t \in Message
    <3>1. r \in Message
      BY DEF ImapTypeOK
    <3>2. v \in BOOLEAN
      OBVIOUS
    <3> HIDE DEF v
    <3> QED BY <3>1, <3>2 DEF Message
  <2>2. store' = (store \ {r}) \cup {t}
    BY <1>3 DEF ToggleSeen
  <2> HIDE DEF t
  <2>3. IsFiniteSet((store \ {r}) \cup {t})
    BY FS_AddElement, FS_RemoveElement DEF ImapTypeOK
  <2>4. ImapTypeOK'
    BY <1>3, <2>1, <2>2, <2>3 DEF ToggleSeen, ImapTypeOK
  <2> QED BY <1>3, <2>4 DEF ToggleSeen, DbTypeOK, ProcTypeOK, HistoryTypeOK
<1>4. ASSUME NEW f \in Filters, ToggleFilter(f) PROVE TypeOK'
  BY <1>4 DEF ToggleFilter, ImapTypeOK, DbTypeOK, ProcTypeOK, HistoryTypeOK
<1> QED BY <1>1, <1>2, <1>3, <1>4 DEF User

(* The steps of the pass over the mails, of a request and of a job.        *)
LEMMA PassType ==
  ASSUME TypeOK, NEW p \in Procs,
         FetchForFilter(p) \/ PerformAction(p)
  PROVE  TypeOK'
<1> USE DEF TypeOK, imap, db, search, work, history
<1>1. CASE FetchForFilter(p)
  <2> DEFINE slice == NextSlice(todo[p])
             fs    == FiltersOf(p)
             hits  == [f \in Filters |->
                        UidsOf({r \in Named(store, Inbox, slice) : Takes(f, fs, r.mail)})]
             now   == [f \in Filters |-> matched[p][f] \cup hits[f]]
             left  == todo[p] \ slice
             act   == {f \in fs : now[f] # {}}
  <2>1. fs \subseteq Filters
    BY DEF FiltersOf, DbTypeOK, ProcTypeOK
  <2>2. slice \subseteq Nat /\ left \subseteq Nat
    BY DEF NextSlice, Newest, ProcTypeOK
  <2>3. now \in [Filters -> SUBSET Nat]
    BY DEF UidsOf, Named, Message, ImapTypeOK, ProcTypeOK
  <2>4. act \subseteq Filters
    BY <2>1
  <2>5. /\ loaded' = [loaded EXCEPT ![p] = fs]
        /\ matched' = [matched EXCEPT ![p] = now]
        /\ todo' = [todo EXCEPT ![p] = left]
        /\ acts' = [acts EXCEPT ![p] = act]
        /\ settled' = settled \cup {u \in slice : \A f \in Filters : u \notin hits[f]}
        /\ pc' = [pc EXCEPT ![p] = Continue(act, left)]
        /\ pc[p] # "idle"
        /\ UNCHANGED <<imap, db, search, job, faults, edits>>
    BY <1>1 DEF FetchForFilter, Goto
  <2> HIDE DEF slice, fs, hits, now, left, act
  <2>6. ProcTypeOK'
    BY <2>1, <2>2, <2>3, <2>4, <2>5 DEF ProcTypeOK, Continue
  <2> QED BY <2>2, <2>5, <2>6 DEF ImapTypeOK, DbTypeOK, HistoryTypeOK
<1>2. ASSUME NEW f \in Filters, PerformMove(p, f) PROVE TypeOK'
  <2>1. Named(store, Inbox, matched[p][f]) \subseteq store
    BY DEF Named
  <2>2. Target[f] \in Boxes
    OBVIOUS
  <2>3. ImapTypeOK'
    BY <1>2, <2>1, <2>2, MoveToType DEF PerformMove
  <2> QED BY <1>2, <2>3
          DEF PerformMove, Acted, Goto, Continue, DbTypeOK, ProcTypeOK, HistoryTypeOK
<1>3. ASSUME NEW f \in Filters, PerformCopy(p, f) PROVE TypeOK'
  <2> DEFINE S == Named(store, Inbox, matched[p][f])
             A == Arrivals(S, Target[f], uidnext[Target[f]])
  <2>1. S \in SUBSET store
    BY DEF Named
  <2>2. IsFiniteSet(S) /\ S \subseteq Message
    BY <2>1, FS_Subset DEF ImapTypeOK
  <2>3. Target[f] \in Boxes /\ uidnext[Target[f]] \in Nat \ {0}
    BY DEF ImapTypeOK
  <2>4. /\ store' = store \cup A
        /\ uidnext' = [uidnext EXCEPT ![Target[f]] = @ + Cardinality(S)]
        /\ sent' = sent
    BY <1>3 DEF PerformCopy
  <2> HIDE DEF S
  <2>5. A \subseteq Message /\ IsFiniteSet(A)
    BY <2>2, <2>3, ArrivalsFacts
  <2>6. Cardinality(S) \in Nat
    BY <2>2, FS_CardinalityType
  <2> HIDE DEF A
  <2>7. IsFiniteSet(store \cup A)
    BY <2>5, FS_Union DEF ImapTypeOK
  <2>8. ImapTypeOK'
    BY <2>3, <2>4, <2>5, <2>6, <2>7 DEF ImapTypeOK
  <2> QED BY <1>3, <2>8 DEF PerformCopy, Goto, DbTypeOK, ProcTypeOK, HistoryTypeOK
<1>4. ASSUME NEW f \in Filters, PerformStore(p, f) PROVE TypeOK'
  <2>1. ImapTypeOK'
    BY <1>4, MarkDeletedFacts DEF PerformStore, ImapTypeOK
  <2> QED BY <1>4, <2>1 DEF PerformStore, Goto, DbTypeOK, ProcTypeOK, HistoryTypeOK
<1>5. ASSUME NEW f \in Filters, PerformExpunge(p, f) PROVE TypeOK'
  <2>1. ImapTypeOK'
    BY <1>5, ExpungeFacts DEF PerformExpunge, ImapTypeOK
  <2> QED BY <1>5, <2>1
          DEF PerformExpunge, Acted, Goto, Continue, DbTypeOK, ProcTypeOK, HistoryTypeOK
<1> QED BY <1>1, <1>2, <1>3, <1>4, <1>5 DEF PerformAction

(* A process that is broken off keeps the types.                           *)
LEMMA FaultType ==
  ASSUME TypeOK, NEW p \in Procs, Fault(p)
  PROVE  TypeOK'
<1> USE DEF TypeOK, imap, db, search, work, history
<1>1. CASE Abort(p)
  <2>1. ProcTypeOK'
    BY <1>1, LeaveType DEF Abort
  <2> QED BY <1>1, <2>1 DEF Abort, ImapTypeOK, DbTypeOK, HistoryTypeOK
<1>2. ASSUME NEW f \in Filters, PerformFail(p, f) PROVE TypeOK'
  <2>1. ImapTypeOK' /\ DbTypeOK'
    BY <1>2 DEF PerformFail, ImapTypeOK, DbTypeOK
  <2>2. ProcTypeOK'
    <3>1. /\ acts' = [acts EXCEPT ![p] = @ \ {f}]
          /\ pc[p] # "idle"
          /\ pc' = [pc EXCEPT ![p] = Continue(acts[p] \ {f}, todo[p])]
          /\ UNCHANGED <<search, loaded, todo, matched, job>>
      BY <1>2 DEF PerformFail, Acted, Goto
    <3> QED BY <3>1 DEF Continue, ProcTypeOK
  <2>3. matched[p][f] \subseteq Nat
    BY DEF ProcTypeOK
  <2>4. HistoryTypeOK'
    <3>1. settled' = settled \cup matched[p][f] /\ faults' = faults + 1 /\ edits' = edits
      BY <1>2 DEF PerformFail
    <3>2. settled' \subseteq Nat
      BY <2>3, <3>1 DEF HistoryTypeOK
    <3>3. faults' \in Nat /\ edits' \in Nat
      BY <3>1 DEF HistoryTypeOK
    <3> QED BY <3>2, <3>3 DEF HistoryTypeOK
  <2> QED BY <2>1, <2>2, <2>4
<1> QED BY <1>1, <1>2 DEF Fault

(* The steps of a request keep the types.                                  *)
LEMMA RequestType ==
  ASSUME TypeOK, NEW p \in Requests, ReadSetting(p) \/ RequestStep(p)
  PROVE  TypeOK'
<1> USE DEF TypeOK, imap, db, search, work, history
<1>1. p \in Procs /\ p \notin Workers
  BY DEF Procs
<1>2. CASE ReadSetting(p)
  <2>1. ProcTypeOK'
    BY <1>1, <1>2 DEF ReadSetting, Goto, ProcTypeOK, DbTypeOK
  <2> QED BY <1>2, <2>1 DEF ReadSetting, ImapTypeOK, DbTypeOK, HistoryTypeOK
<1>3. CASE StatusRecent(p)
  <2>1. uidnext[Inbox] - 1 \in Nat
    BY DEF ImapTypeOK
  <2>2. ProcTypeOK'
    BY <1>1, <1>3, <2>1 DEF StatusRecent, Goto, ProcTypeOK
  <2> QED BY <1>3, <2>2 DEF StatusRecent, ImapTypeOK, DbTypeOK, HistoryTypeOK
<1>4. CASE StatusQuiet(p)
  <2>1. ProcTypeOK'
    BY <1>1, <1>4, LeaveType DEF StatusQuiet
  <2> QED BY <1>4, <2>1 DEF StatusQuiet, ImapTypeOK, DbTypeOK, HistoryTypeOK
<1>5. CASE Search(p)
  <2> DEFINE uids == SearchUids(p)
  <2>1. uids \subseteq Nat
    BY UidsType DEF SearchUids
  <2>2. AtOnce(uids) \subseteq Nat /\ Delayed(uids) \subseteq Nat
    BY <2>1 DEF AtOnce, Delayed, Newest
  <2>3. UidRange(p) \subseteq Nat
    BY <1>1 DEF UidRange, ProcTypeOK
  <2>4. /\ pc[p] = "search"
        /\ loaded' = [loaded EXCEPT ![p] = enabled]
        /\ todo' = [todo EXCEPT ![p] = AtOnce(uids)]
        /\ rest' = [rest EXCEPT ![p] = Delayed(uids)]
        /\ settled' = settled \cup (UidRange(p) \ uids)
        /\ \E l \in {"save", "handoff", "fetch"} : pc' = [pc EXCEPT ![p] = l]
        /\ UNCHANGED <<imap, db, cur, top, fresh, matched, acts, job, faults, edits>>
    BY <1>5 DEF Search, Goto
  <2> HIDE DEF uids
  <2>5. ProcTypeOK'
    BY <1>1, <2>2, <2>4 DEF ProcTypeOK, DbTypeOK
  <2>6. HistoryTypeOK'
    BY <2>3, <2>4 DEF HistoryTypeOK
  <2> QED BY <2>4, <2>5, <2>6 DEF ImapTypeOK, DbTypeOK
<1>6. CASE FetchForFilter(p) \/ PerformAction(p)
  BY <1>1, <1>6, PassType
<1>7. CASE EnqueueJob(p)
  <2>1. ProcTypeOK'
    BY <1>1, <1>7 DEF EnqueueJob, Goto, ProcTypeOK
  <2>2. rest[p] \subseteq Nat
    BY <1>1 DEF ProcTypeOK
  <2>3. queue' \in [JobSlots -> SUBSET Nat]
    BY <1>7, <2>2 DEF EnqueueJob, DbTypeOK
  <2>4. DbTypeOK'
    BY <1>7, <2>3 DEF EnqueueJob, DbTypeOK
  <2> QED BY <1>7, <2>1, <2>4 DEF EnqueueJob, ImapTypeOK, HistoryTypeOK
<1>8. CASE SaveLastUid(p)
  <2>1. ProcTypeOK'
    BY <1>1, <1>8, LeaveType DEF SaveLastUid
  <2>2. top[p] \in Nat
    BY <1>1 DEF ProcTypeOK
  <2>3. DbTypeOK'
    BY <1>8, <2>2 DEF SaveLastUid, DbTypeOK
  <2> QED BY <1>8, <2>1, <2>3 DEF SaveLastUid, ImapTypeOK, HistoryTypeOK
<1> QED BY <1>2, <1>3, <1>4, <1>5, <1>6, <1>7, <1>8 DEF RequestStep

(* The steps of a worker keep the types.                                   *)
LEMMA WorkerType ==
  ASSUME TypeOK, NEW w \in Workers, WorkerStep(w) \/ FailJob(w)
  PROVE  TypeOK'
<1> USE DEF TypeOK, imap, db, search, work, history
<1>1. w \in Procs
  BY DEF Procs
<1>2. pc[w] # "idle" => job[w] \in JobSlots
  BY <1>1 DEF ProcTypeOK
<1>3. ASSUME NEW j \in JobSlots, TakeJob(w, j) PROVE TypeOK'
  <2>1. j # NoJob
    BY DEF NoJob
  <2>2. queue[j] \subseteq Nat
    BY DEF DbTypeOK
  <2>3. ProcTypeOK'
    BY <1>1, <1>3, <2>1, <2>2 DEF TakeJob, Goto, ProcTypeOK
  <2> QED BY <1>3, <2>3 DEF TakeJob, ImapTypeOK, DbTypeOK, HistoryTypeOK
<1>4. CASE FetchForFilter(w) \/ PerformAction(w)
  BY <1>1, <1>4, PassType
<1>5. CASE FinishJob(w)
  <2>1. ProcTypeOK'
    BY <1>1, <1>5, LeaveType DEF FinishJob
  <2>2. 0 \in 0 .. (MaxAttempts - 1)
    OBVIOUS
  <2>3. DbTypeOK'
    BY <1>5, <2>2 DEF FinishJob, DbTypeOK
  <2> QED BY <1>5, <2>1, <2>3 DEF FinishJob, ImapTypeOK, HistoryTypeOK
<1>6. CASE FailJob(w)
  <2> DEFINE j == job[w]
             given_up == tries[j] + 1 >= MaxAttempts
             q == IF given_up THEN {} ELSE queue[j]
             n == IF given_up THEN 0 ELSE tries[j] + 1
  <2>1. j \in JobSlots
    BY <1>2, <1>6 DEF FailJob
  <2>2. /\ queue' = [queue EXCEPT ![j] = q]
        /\ tries' = [tries EXCEPT ![j] = n]
        /\ settled' = IF given_up THEN settled \cup queue[j] ELSE settled
        /\ faults' = faults + 1
        /\ UNCHANGED <<imap, lastUid, rowSaved, enabled, edits>>
    BY <1>6 DEF FailJob
  <2>3. ProcTypeOK'
    BY <1>1, <1>6, LeaveType DEF FailJob
  <2>4. tries[j] \in 0 .. (MaxAttempts - 1) /\ queue[j] \subseteq Nat
    BY <2>1 DEF DbTypeOK
  <2>5. n \in 0 .. (MaxAttempts - 1) /\ q \subseteq Nat
    BY <2>4
  <2>6. HistoryTypeOK'
    <3> HIDE DEF j, given_up, q, n
    <3>1. settled' \subseteq Nat
      BY <2>2, <2>4 DEF HistoryTypeOK
    <3>2. faults' \in Nat /\ edits' \in Nat
      BY <2>2 DEF HistoryTypeOK
    <3> QED BY <3>1, <3>2 DEF HistoryTypeOK
  <2> HIDE DEF j, given_up, q, n
  <2>7. DbTypeOK'
    BY <2>2, <2>5 DEF DbTypeOK
  <2> QED BY <2>2, <2>3, <2>6, <2>7 DEF ImapTypeOK
<1> QED BY <1>3, <1>4, <1>5, <1>6 DEF WorkerStep

(* Every step keeps the types.                                             *)
LEMMA TypeNext == TypeOK /\ [Next]_vars => TypeOK'
<1> SUFFICES ASSUME TypeOK, [Next]_vars PROVE TypeOK'
  OBVIOUS
<1>1. CASE UNCHANGED vars
  BY <1>1 DEF vars, imap, db, search, work, history,
              TypeOK, ImapTypeOK, DbTypeOK, ProcTypeOK, HistoryTypeOK
<1> QED BY <1>1, UserType, RequestType, WorkerType, FaultType DEF Next

(* Type correctness: every variable keeps its type, the attempts of a job  *)
(* stay below Delayed::Worker.max_attempts, and a worker that is busy      *)
(* holds a job of the queue.                                               *)
THEOREM TypeCorrect == Spec => []TypeOK
<1> QED BY TypeInit, TypeNext, PTL DEF Spec
---------------------------------------------------------------------------
(* No mail is lost                                                         *)

(* A step after which no process is about to mark anything that it was not *)
(* about to mark before.                                                   *)
MarksNothingNew ==
  \A q \in Procs : pc'[q] = "store"
                    => pc[q] = "store" /\ matched'[q] = matched[q] /\ acts'[q] = acts[q]

(* No UID noted for the inbox has yet to be given out.                     *)
MatchedGivenOut == \A q \in Procs, f \in Filters : \A u \in matched[q][f] : u < uidnext[Inbox]

(* When a step lets no process turn to new UIDs, what is about to be       *)
(* marked was so before.                                                   *)
LEMMA MarkedBefore ==
  ASSUME MarksNothingNew, NEW r, AboutToMark(r)'
  PROVE  AboutToMark(r)
BY DEF MarksNothingNew, AboutToMark, Acting

(* Leaving, or changing nothing, marks nothing.                            *)
LEMMA LeaveMarksNothing ==
  ASSUME TypeOK, UidsBelowNext, NEW p \in Procs, Leave(p), uidnext' = uidnext
  PROVE  MarksNothingNew /\ MatchedGivenOut'
<1>1. MarksNothingNew
  BY DEF Leave, Goto, MarksNothingNew, TypeOK, ProcTypeOK
<1>2. \A q \in Procs, f \in Filters : matched'[q][f] \subseteq matched[q][f]
  BY DEF Leave, Nothing, TypeOK, ProcTypeOK
<1>3. MatchedGivenOut'
  BY <1>2 DEF MatchedGivenOut, UidsBelowNext
<1> QED BY <1>1, <1>3

(* The steps that leave the server alone.                                  *)
LEMMA QuietStep ==
  ASSUME LossInv, UNCHANGED imap, MarksNothingNew, MatchedGivenOut'
  PROVE  UidsBelowNext' /\ SafeCopy'
<1> USE DEF imap
<1>1. UidsBelowNext'
  BY DEF LossInv, UidsBelowNext, MatchedGivenOut
<1>2. ASSUME NEW m \in sent'
      PROVE  \E r \in store' : r.mail = m /\ ~r.deleted /\ ~AboutToMark(r)'
  <2>1. PICK r \in store : r.mail = m /\ ~r.deleted /\ ~AboutToMark(r)
    BY <1>2 DEF LossInv, SafeCopy
  <2> QED BY <2>1, MarkedBefore
<1> QED BY <1>1, <1>2 DEF SafeCopy

(* The steps that move messages: what is moved arrives under a UID above   *)
(* every UID a process has noted for the inbox.                            *)
LEMMA MoveStep ==
  ASSUME LossInv, NEW S, S \subseteq store, NEW dest \in Boxes, MoveTo(S, dest),
         MarksNothingNew, matched' = matched
  PROVE  UidsBelowNext' /\ SafeCopy'
<1> DEFINE A == Arrivals(S, dest, uidnext[dest])
<1>1. S \in SUBSET store /\ ImapTypeOK
  BY DEF LossInv, TypeOK
<1>2. IsFiniteSet(S) /\ S \subseteq Message /\ uidnext[dest] \in Nat \ {0}
  BY <1>1, FS_Subset DEF ImapTypeOK
<1>3. Cardinality(S) \in Nat
  BY <1>2, FS_CardinalityType
<1>4. /\ A \subseteq Message
      /\ \A a \in A : a.box = dest /\ uidnext[dest] <= a.uid /\ a.uid < uidnext[dest] + Cardinality(S)
      /\ \A r \in S : \E a \in A : a.mail = r.mail /\ a.deleted = r.deleted
  BY <1>2, ArrivalsFacts
<1>5. /\ store' = (store \ S) \cup A
      /\ uidnext' = [uidnext EXCEPT ![dest] = uidnext[dest] + Cardinality(S)]
      /\ sent' = sent
  BY DEF MoveTo
<1> HIDE DEF A
<1>6. \A b \in Boxes : uidnext[b] \in Nat /\ uidnext'[b] \in Nat /\ uidnext[b] <= uidnext'[b]
  BY <1>1, <1>3, <1>5 DEF ImapTypeOK
<1>7. \A r \in store' : r.uid < uidnext'[r.box]
  <2>1. ASSUME NEW r \in store PROVE r.uid < uidnext'[r.box]
    <3>1. r.uid \in Nat /\ r.box \in Boxes /\ r.uid < uidnext[r.box]
      BY <1>1 DEF LossInv, UidsBelowNext, ImapTypeOK, Message
    <3> QED BY <1>6, <3>1
  <2>2. ASSUME NEW a \in A PROVE a.uid < uidnext'[a.box]
    BY <1>1, <1>4, <1>5 DEF ImapTypeOK
  <2> QED BY <1>5, <2>1, <2>2
<1>8. \A p \in Procs, f \in Filters : \A u \in matched[p][f] : u \in Nat /\ u < uidnext[Inbox]
  BY DEF LossInv, UidsBelowNext, TypeOK, ProcTypeOK
<1>9. UidsBelowNext'
  <2>1. \A p \in Procs, f \in Filters : \A u \in matched'[p][f] : u < uidnext'[Inbox]
    BY <1>6, <1>8
  <2> QED BY <1>7, <2>1 DEF UidsBelowNext
<1>10. ASSUME NEW a \in A PROVE ~AboutToMark(a)
  <2>1. a.box = dest /\ uidnext[dest] <= a.uid /\ a.uid \in Nat
    BY <1>4 DEF Message
  <2> QED BY <1>6, <1>8, <2>1 DEF AboutToMark
<1>11. ASSUME NEW m \in sent'
       PROVE  \E r \in store' : r.mail = m /\ ~r.deleted /\ ~AboutToMark(r)'
  <2>1. PICK r \in store : r.mail = m /\ ~r.deleted /\ ~AboutToMark(r)
    BY <1>5, <1>11 DEF LossInv, SafeCopy
  <2>2. CASE r \in S
    <3>1. PICK a \in A : a.mail = r.mail /\ a.deleted = r.deleted
      BY <1>4, <2>2
    <3>2. a \in store' /\ ~AboutToMark(a)'
      BY <1>5, <1>10, MarkedBefore
    <3> QED BY <2>1, <3>1, <3>2
  <2>3. CASE r \notin S
    BY <1>5, <2>1, <2>3, MarkedBefore
  <2> QED BY <2>2, <2>3
<1> QED BY <1>9, <1>11 DEF SafeCopy

(* COPY: what was copied has arrived under a UID nobody has noted, and     *)
(* what was not copied is not marked by the STORE that follows.            *)
LEMMA CopyStep ==
  ASSUME LossInv, NEW p \in Procs, NEW f \in Filters, PerformCopy(p, f)
  PROVE  UidsBelowNext' /\ SafeCopy'
<1> DEFINE S == Named(store, Inbox, matched[p][f])
           dest == Target[f]
           A == Arrivals(S, dest, uidnext[dest])
<1>1. S \in SUBSET store /\ ImapTypeOK /\ dest \in Boxes
  BY DEF LossInv, TypeOK, Named
<1>2. IsFiniteSet(S) /\ S \subseteq Message /\ uidnext[dest] \in Nat \ {0}
  BY <1>1, FS_Subset DEF ImapTypeOK
<1>3. /\ store' = store \cup A
      /\ uidnext' = [uidnext EXCEPT ![dest] = uidnext[dest] + Cardinality(S)]
      /\ sent' = sent /\ dest # Inbox
      /\ pc' = [pc EXCEPT ![p] = "store"] /\ Acting(p, f)
      /\ matched' = matched /\ acts' = acts
  BY DEF PerformCopy, Goto, work
<1>4. \A r \in store : r \notin S => ~(r.box = Inbox /\ r.uid \in matched[p][f])
  BY DEF Named
<1> HIDE DEF S, dest
<1>5. Cardinality(S) \in Nat
  BY <1>2, FS_CardinalityType
<1>6. /\ A \subseteq Message
      /\ \A a \in A : a.box = dest /\ uidnext[dest] <= a.uid /\ a.uid < uidnext[dest] + Cardinality(S)
      /\ \A r \in S : \E a \in A : a.mail = r.mail /\ a.deleted = r.deleted
  BY <1>1, <1>2, ArrivalsFacts
<1> HIDE DEF A
<1>7. \A b \in Boxes : uidnext[b] \in Nat /\ uidnext'[b] \in Nat /\ uidnext[b] <= uidnext'[b]
  BY <1>1, <1>3, <1>5 DEF ImapTypeOK
<1>8. UidsBelowNext'
  <2>1. ASSUME NEW r \in store PROVE r.uid < uidnext'[r.box]
    <3>1. r.uid \in Nat /\ r.box \in Boxes /\ r.uid < uidnext[r.box]
      BY <1>1 DEF LossInv, UidsBelowNext, ImapTypeOK, Message
    <3> QED BY <1>7, <3>1
  <2>2. ASSUME NEW a \in A PROVE a.uid < uidnext'[a.box]
    BY <1>1, <1>3, <1>6 DEF ImapTypeOK
  <2>3. uidnext'[Inbox] = uidnext[Inbox]
    BY <1>1, <1>3 DEF ImapTypeOK
  <2>4. \A q \in Procs, g \in Filters : \A u \in matched'[q][g] : u < uidnext'[Inbox]
    BY <1>3, <2>3 DEF LossInv, UidsBelowNext
  <2> QED BY <1>3, <2>1, <2>2, <2>4 DEF UidsBelowNext
<1>9. ASSUME NEW g \in Filters, Acting(p, g) PROVE g = f
  <2>1. f \in Nat /\ g \in Nat
    OBVIOUS
  <2>2. f <= g /\ g <= f
    BY <1>3, <1>9 DEF Acting
  <2> QED BY <2>1, <2>2
<1>10. ASSUME NEW r, ~AboutToMark(r), ~(r.box = Inbox /\ r.uid \in matched[p][f])
       PROVE  ~AboutToMark(r)'
  BY <1>3, <1>9, <1>10 DEF AboutToMark, Acting, LossInv, TypeOK, ProcTypeOK
<1>11. ASSUME NEW m \in sent'
       PROVE  \E r \in store' : r.mail = m /\ ~r.deleted /\ ~AboutToMark(r)'
  <2>1. PICK r \in store : r.mail = m /\ ~r.deleted /\ ~AboutToMark(r)
    BY <1>3, <1>11 DEF LossInv, SafeCopy
  <2>2. CASE r \in S
    <3>1. PICK a \in A : a.mail = r.mail /\ a.deleted = r.deleted
      BY <1>6, <2>2
    <3>2. a.box # Inbox
      BY <1>3, <1>6
    <3>3. ~AboutToMark(a)'
      BY <3>2 DEF AboutToMark
    <3> QED BY <1>3, <2>1, <3>1, <3>3
  <2>3. CASE r \notin S
    BY <1>3, <1>4, <1>10, <2>1, <2>3
  <2> QED BY <2>2, <2>3
<1> QED BY <1>8, <1>11 DEF SafeCopy

(* STORE marks only what the process noted; EXPUNGE removes only what is   *)
(* marked.                                                                 *)
LEMMA StoreStep ==
  ASSUME LossInv, NEW p \in Procs, NEW f \in Filters, PerformStore(p, f)
  PROVE  UidsBelowNext' /\ SafeCopy'
<1> DEFINE U == matched[p][f]
<1>1. ImapTypeOK
  BY DEF LossInv, TypeOK
<1>2. /\ store' = MarkDeleted(store, Inbox, U)
      /\ uidnext' = uidnext /\ sent' = sent /\ matched' = matched /\ acts' = acts
      /\ pc[p] = "store" /\ Acting(p, f)
      /\ pc' = [pc EXCEPT ![p] = "expunge"]
  BY DEF PerformStore, Goto, work
<1>3. MarksNothingNew
  BY <1>2 DEF MarksNothingNew, LossInv, TypeOK, ProcTypeOK
<1>4. ASSUME NEW r, ~AboutToMark(r) PROVE ~(r.box = Inbox /\ r.uid \in U)
  BY <1>2, <1>4 DEF AboutToMark
<1> HIDE DEF U
<1>5. /\ \A a \in store' : \E r \in store : a.box = r.box /\ a.uid = r.uid /\ a.mail = r.mail
      /\ \A r \in store : ~(r.box = Inbox /\ r.uid \in U) => r \in store'
  BY <1>1, <1>2, MarkDeletedFacts DEF ImapTypeOK
<1>6. UidsBelowNext'
  BY <1>2, <1>5 DEF LossInv, UidsBelowNext
<1>7. ASSUME NEW m \in sent'
      PROVE  \E r \in store' : r.mail = m /\ ~r.deleted /\ ~AboutToMark(r)'
  <2>1. PICK r \in store : r.mail = m /\ ~r.deleted /\ ~AboutToMark(r)
    BY <1>2, <1>7 DEF LossInv, SafeCopy
  <2> QED BY <1>3, <1>4, <1>5, <2>1, MarkedBefore
<1> QED BY <1>6, <1>7 DEF SafeCopy

(* EXPUNGE removes no message that is not marked.                          *)
LEMMA ExpungeStep ==
  ASSUME LossInv, NEW p \in Procs, NEW f \in Filters, PerformExpunge(p, f)
  PROVE  UidsBelowNext' /\ SafeCopy'
<1>1. ImapTypeOK
  BY DEF LossInv, TypeOK
<1>2. /\ store' = Expunge(store, Inbox)
      /\ uidnext' = uidnext /\ sent' = sent /\ matched' = matched
      /\ acts' = [acts EXCEPT ![p] = @ \ {f}]
      /\ pc' = [pc EXCEPT ![p] = Continue(acts[p] \ {f}, todo[p])]
  BY DEF PerformExpunge, Acted, Goto
<1>3. MarksNothingNew
  BY <1>2 DEF MarksNothingNew, Continue, LossInv, TypeOK, ProcTypeOK
<1>4. store' \subseteq store /\ \A r \in store : r.deleted = FALSE => r \in store'
  BY <1>1, <1>2, ExpungeFacts DEF ImapTypeOK
<1>5. UidsBelowNext'
  BY <1>2, <1>4 DEF LossInv, UidsBelowNext
<1>6. ASSUME NEW m \in sent'
      PROVE  \E r \in store' : r.mail = m /\ ~r.deleted /\ ~AboutToMark(r)'
  <2>1. PICK r \in store : r.mail = m /\ ~r.deleted /\ ~AboutToMark(r)
    BY <1>2, <1>6 DEF LossInv, SafeCopy
  <2>2. r.deleted = FALSE
    BY <1>1, <2>1 DEF ImapTypeOK, Message
  <2> QED BY <1>3, <1>4, <2>1, <2>2, MarkedBefore
<1> QED BY <1>5, <1>6 DEF SafeCopy

(* What the user does leaves each mail a safe copy.                        *)
LEMMA UserLoss ==
  ASSUME LossInv, User
  PROVE  UidsBelowNext' /\ SafeCopy'
<1>1. ASSUME NEW m \in Mails, Deliver(m) PROVE UidsBelowNext' /\ SafeCopy'
  <2> DEFINE d == [box |-> Inbox, uid |-> uidnext[Inbox], mail |-> m,
                   seen |-> FALSE, deleted |-> FALSE]
  <2>1. /\ store' = store \cup {d} /\ sent' = sent \cup {m}
        /\ uidnext' = [uidnext EXCEPT ![Inbox] = uidnext[Inbox] + 1]
        /\ pc' = pc /\ matched' = matched /\ acts' = acts
    BY <1>1 DEF Deliver, work
  <2>2. MarksNothingNew
    BY <2>1 DEF MarksNothingNew
  <2>3. ImapTypeOK
    BY DEF LossInv, TypeOK
  <2>4. \A b \in Boxes : uidnext[b] \in Nat /\ uidnext'[b] \in Nat /\ uidnext[b] <= uidnext'[b]
    BY <2>1, <2>3 DEF ImapTypeOK
  <2>5. uidnext[Inbox] < uidnext'[Inbox]
    BY <2>1, <2>3 DEF ImapTypeOK
  <2>6. d.box = Inbox /\ d.uid = uidnext[Inbox] /\ d.mail = m /\ ~d.deleted
    OBVIOUS
  <2> HIDE DEF d
  <2>7. \A r \in store : r.uid \in Nat /\ r.box \in Boxes /\ r.uid < uidnext[r.box]
    BY <2>3 DEF LossInv, UidsBelowNext, ImapTypeOK, Message
  <2>8. \A p \in Procs, f \in Filters : \A u \in matched[p][f] : u \in Nat /\ u < uidnext[Inbox]
    BY DEF LossInv, UidsBelowNext, TypeOK, ProcTypeOK
  <2>9. UidsBelowNext'
    <3>1. \A r \in store' : r.uid < uidnext'[r.box]
      BY <2>1, <2>4, <2>5, <2>6, <2>7
    <3>2. \A p \in Procs, f \in Filters : \A u \in matched'[p][f] : u < uidnext'[Inbox]
      BY <2>1, <2>4, <2>8
    <3> QED BY <3>1, <3>2 DEF UidsBelowNext
  <2>10. ~AboutToMark(d)
    <3>1. SUFFICES ASSUME AboutToMark(d) PROVE FALSE
      OBVIOUS
    <3>2. PICK p \in Procs, f \in Filters : uidnext[Inbox] \in matched[p][f]
      BY <2>6, <3>1 DEF AboutToMark
    <3> QED BY <2>8, <3>2
  <2>11. ASSUME NEW n \in sent'
         PROVE  \E r \in store' : r.mail = n /\ ~r.deleted /\ ~AboutToMark(r)'
    <3>1. CASE n = m
      BY <2>1, <2>2, <2>6, <2>10, <3>1, MarkedBefore
    <3>2. CASE n \in sent
      <4>1. PICK r \in store : r.mail = n /\ ~r.deleted /\ ~AboutToMark(r)
        BY <3>2 DEF LossInv, SafeCopy
      <4> QED BY <2>1, <2>2, <4>1, MarkedBefore
    <3> QED BY <2>1, <3>1, <3>2
  <2> QED BY <2>9, <2>11 DEF SafeCopy
<1>2. ASSUME NEW r \in store, NEW b \in Boxes, Refile(r, b) PROVE UidsBelowNext' /\ SafeCopy'
  <2>1. MoveTo({r}, b) /\ MarksNothingNew /\ matched' = matched
    BY <1>2 DEF Refile, MarksNothingNew, work
  <2> QED BY <2>1, MoveStep
<1>3. ASSUME NEW r \in store, ToggleSeen(r) PROVE UidsBelowNext' /\ SafeCopy'
  <2> DEFINE t == [r EXCEPT !.seen = ~r.seen]
  <2>1. /\ store' = (store \ {r}) \cup {t} /\ sent' = sent /\ uidnext' = uidnext
        /\ pc' = pc /\ matched' = matched /\ acts' = acts
    BY <1>3 DEF ToggleSeen, work
  <2>2. MarksNothingNew
    BY <2>1 DEF MarksNothingNew
  <2>3. t.box = r.box /\ t.uid = r.uid /\ t.mail = r.mail /\ t.deleted = r.deleted
    BY DEF LossInv, TypeOK, ImapTypeOK, Message
  <2> HIDE DEF t
  <2>4. UidsBelowNext'
    BY <2>1, <2>3 DEF LossInv, UidsBelowNext
  <2>5. AboutToMark(t) => AboutToMark(r)
    BY <2>3 DEF AboutToMark
  <2>6. ASSUME NEW n \in sent'
        PROVE  \E q \in store' : q.mail = n /\ ~q.deleted /\ ~AboutToMark(q)'
    <3>1. PICK q \in store : q.mail = n /\ ~q.deleted /\ ~AboutToMark(q)
      BY <2>1, <2>6 DEF LossInv, SafeCopy
    <3> QED BY <2>1, <2>2, <2>3, <2>5, <3>1, MarkedBefore
  <2> QED BY <2>4, <2>6 DEF SafeCopy
<1>4. ASSUME NEW f \in Filters, ToggleFilter(f) PROVE UidsBelowNext' /\ SafeCopy'
  <2>1. UNCHANGED imap /\ MarksNothingNew /\ MatchedGivenOut'
    BY <1>4 DEF ToggleFilter, MarksNothingNew, MatchedGivenOut, work, imap, LossInv, UidsBelowNext
  <2> QED BY <2>1, QuietStep
<1> QED BY <1>1, <1>2, <1>3, <1>4 DEF User

(* What a pass over new mails does leaves each mail a safe copy.           *)
LEMMA PassLoss ==
  ASSUME LossInv, NEW p \in Procs,
         FetchForFilter(p) \/ PerformAction(p)
  PROVE  UidsBelowNext' /\ SafeCopy'
<1> USE DEF imap, work
<1>1. CASE FetchForFilter(p)
  <2>1. UNCHANGED imap
    BY <1>1 DEF FetchForFilter
  <2>2. MarksNothingNew
    <3>1. \E a, t : pc' = [pc EXCEPT ![p] = Continue(a, t)]
      BY <1>1 DEF FetchForFilter, Goto
    <3>2. \A q \in Procs \ {p} : matched'[q] = matched[q] /\ acts'[q] = acts[q] /\ pc'[q] = pc[q]
      BY <1>1 DEF FetchForFilter, Goto, LossInv, TypeOK, ProcTypeOK
    <3>3. pc'[p] # "store"
      BY <3>1 DEF Continue, LossInv, TypeOK, ProcTypeOK
    <3> QED BY <3>2, <3>3 DEF MarksNothingNew
  <2>3. ASSUME NEW q \in Procs, NEW f \in Filters, NEW u \in matched'[q][f]
        PROVE  u < uidnext[Inbox]
    <3> DEFINE hits(g) == UidsOf({r \in Named(store, Inbox, NextSlice(todo[p])) :
                                   Takes(g, FiltersOf(p), r.mail)})
    <3>1. matched' = [matched EXCEPT ![p] = [g \in Filters |-> matched[p][g] \cup hits(g)]]
      BY <1>1 DEF FetchForFilter
    <3>2. \A v \in hits(f) : v < uidnext[Inbox]
      BY DEF UidsOf, Named, LossInv, UidsBelowNext
    <3> HIDE DEF hits
    <3>3. u \in matched[q][f] \cup hits(f)
      BY <2>3, <3>1 DEF LossInv, TypeOK, ProcTypeOK
    <3> QED BY <3>2, <3>3 DEF LossInv, UidsBelowNext
  <2>4. MatchedGivenOut'
    BY <2>1, <2>3 DEF MatchedGivenOut
  <2> QED BY <2>1, <2>2, <2>4, QuietStep
<1>2. ASSUME NEW f \in Filters, PerformMove(p, f) PROVE UidsBelowNext' /\ SafeCopy'
  <2> DEFINE S == Named(store, Inbox, matched[p][f])
  <2>1. /\ MoveTo(S, Target[f]) /\ matched' = matched
        /\ acts' = [acts EXCEPT ![p] = @ \ {f}]
        /\ pc' = [pc EXCEPT ![p] = Continue(acts[p] \ {f}, todo[p])]
    BY <1>2 DEF PerformMove, Acted, Goto
  <2>2. S \subseteq store /\ Target[f] \in Boxes
    BY DEF Named
  <2> HIDE DEF S
  <2>3. MarksNothingNew
    BY <2>1 DEF MarksNothingNew, Continue, LossInv, TypeOK, ProcTypeOK
  <2> QED BY <2>1, <2>2, <2>3, MoveStep
<1>3. ASSUME NEW f \in Filters, PerformCopy(p, f) PROVE UidsBelowNext' /\ SafeCopy'
  BY <1>3, CopyStep
<1>4. ASSUME NEW f \in Filters, PerformStore(p, f) PROVE UidsBelowNext' /\ SafeCopy'
  BY <1>4, StoreStep
<1>5. ASSUME NEW f \in Filters, PerformExpunge(p, f) PROVE UidsBelowNext' /\ SafeCopy'
  BY <1>5, ExpungeStep
<1> QED BY <1>1, <1>2, <1>3, <1>4, <1>5 DEF PerformAction

(* A process that is broken off marks nothing any more.                    *)
LEMMA FaultLoss ==
  ASSUME LossInv, NEW p \in Procs, Fault(p)
  PROVE  UidsBelowNext' /\ SafeCopy'
<1>1. CASE Abort(p)
  <2>1. UNCHANGED imap /\ Leave(p) /\ uidnext' = uidnext
    BY <1>1 DEF Abort, imap
  <2>2. MarksNothingNew /\ MatchedGivenOut'
    BY <2>1, LeaveMarksNothing DEF LossInv
  <2> QED BY <2>1, <2>2, QuietStep
<1>2. ASSUME NEW f \in Filters, PerformFail(p, f) PROVE UidsBelowNext' /\ SafeCopy'
  <2>1. /\ UNCHANGED imap /\ uidnext' = uidnext /\ matched' = matched
        /\ acts' = [acts EXCEPT ![p] = @ \ {f}]
        /\ pc' = [pc EXCEPT ![p] = Continue(acts[p] \ {f}, todo[p])]
    BY <1>2 DEF PerformFail, Acted, Goto, imap
  <2>2. MarksNothingNew
    BY <2>1 DEF MarksNothingNew, Continue, LossInv, TypeOK, ProcTypeOK
  <2>3. MatchedGivenOut'
    BY <2>1 DEF MatchedGivenOut, LossInv, UidsBelowNext
  <2> QED BY <2>1, <2>2, <2>3, QuietStep
<1> QED BY <1>1, <1>2 DEF Fault

(* The steps of a request leave each mail a safe copy.                     *)
LEMMA RequestLoss ==
  ASSUME LossInv, NEW p \in Requests, ReadSetting(p) \/ RequestStep(p)
  PROVE  UidsBelowNext' /\ SafeCopy'
<1>1. p \in Procs
  BY DEF Procs
<1>2. CASE FetchForFilter(p) \/ PerformAction(p)
  BY <1>1, <1>2, PassLoss
<1>3. CASE StatusQuiet(p) \/ SaveLastUid(p)
  <2>1. UNCHANGED imap /\ Leave(p) /\ uidnext' = uidnext
    BY <1>3 DEF StatusQuiet, SaveLastUid, imap
  <2>2. MarksNothingNew /\ MatchedGivenOut'
    BY <1>1, <2>1, LeaveMarksNothing DEF LossInv
  <2> QED BY <2>1, <2>2, QuietStep
<1>4. CASE ReadSetting(p) \/ StatusRecent(p) \/ Search(p) \/ EnqueueJob(p)
  <2>1. /\ UNCHANGED imap /\ uidnext' = uidnext /\ matched' = matched /\ acts' = acts
        /\ \E l \in {"status", "search", "fetch", "handoff", "save"} : pc' = [pc EXCEPT ![p] = l]
    BY <1>4 DEF ReadSetting, StatusRecent, Search, EnqueueJob, Goto, imap, work
  <2>2. MarksNothingNew
    BY <1>1, <2>1 DEF MarksNothingNew, LossInv, TypeOK, ProcTypeOK
  <2>3. MatchedGivenOut'
    BY <2>1 DEF MatchedGivenOut, LossInv, UidsBelowNext
  <2> QED BY <2>1, <2>2, <2>3, QuietStep
<1> QED BY <1>2, <1>3, <1>4 DEF RequestStep

(* The steps of a worker leave each mail a safe copy.                      *)
LEMMA WorkerLoss ==
  ASSUME LossInv, NEW w \in Workers, WorkerStep(w) \/ FailJob(w)
  PROVE  UidsBelowNext' /\ SafeCopy'
<1>1. w \in Procs
  BY DEF Procs
<1>2. CASE FetchForFilter(w) \/ PerformAction(w)
  BY <1>1, <1>2, PassLoss
<1>3. CASE FinishJob(w) \/ FailJob(w)
  <2>1. UNCHANGED imap /\ Leave(w) /\ uidnext' = uidnext
    BY <1>3 DEF FinishJob, FailJob, imap
  <2>2. MarksNothingNew /\ MatchedGivenOut'
    BY <1>1, <2>1, LeaveMarksNothing DEF LossInv
  <2> QED BY <2>1, <2>2, QuietStep
<1>4. ASSUME NEW j \in JobSlots, TakeJob(w, j) PROVE UidsBelowNext' /\ SafeCopy'
  <2>1. /\ UNCHANGED imap /\ uidnext' = uidnext /\ matched' = matched /\ acts' = acts
        /\ pc' = [pc EXCEPT ![w] = "first"]
    BY <1>4 DEF TakeJob, Goto, imap
  <2>2. MarksNothingNew
    BY <1>1, <2>1 DEF MarksNothingNew, LossInv, TypeOK, ProcTypeOK
  <2>3. MatchedGivenOut'
    BY <2>1 DEF MatchedGivenOut, LossInv, UidsBelowNext
  <2> QED BY <2>1, <2>2, <2>3, QuietStep
<1> QED BY <1>2, <1>3, <1>4 DEF WorkerStep

(* Nothing is delivered at the start.                                      *)
LEMMA LossInit == Init => LossInv
<1> SUFFICES ASSUME Init PROVE LossInv
  OBVIOUS
<1>1. TypeOK
  BY TypeInit
<1>2. UidsBelowNext
  BY DEF Init, Nothing, UidsBelowNext
<1>3. SafeCopy
  BY DEF Init, SafeCopy
<1> QED BY <1>1, <1>2, <1>3 DEF LossInv

(* Every step leaves each mail a safe copy.                                *)
LEMMA LossNext == LossInv /\ [Next]_vars => LossInv'
<1> SUFFICES ASSUME LossInv, [Next]_vars PROVE LossInv'
  OBVIOUS
<1>1. TypeOK'
  BY TypeNext DEF LossInv
<1>2. CASE UNCHANGED vars
  <2>1. UNCHANGED imap /\ MarksNothingNew /\ MatchedGivenOut'
    BY <1>2 DEF vars, imap, work, MarksNothingNew, MatchedGivenOut, LossInv, UidsBelowNext
  <2> QED BY <1>1, <2>1, QuietStep DEF LossInv
<1>3. CASE Next
  BY <1>1, <1>3, UserLoss, RequestLoss, WorkerLoss, FaultLoss DEF Next, LossInv
<1> QED BY <1>2, <1>3

(* No interleaving of requests, jobs and the user's own moves, and no      *)
(* crash between COPY, STORE and EXPUNGE, loses a delivered mail.          *)
THEOREM MailNeverLost == Spec => []NoMailLost
<1>1. LossInv => NoMailLost
  BY DEF LossInv, SafeCopy, NoMailLost
<1> QED BY <1>1, LossInit, LossNext, PTL DEF Spec
---------------------------------------------------------------------------
(* What a step may do to the mailboxes                                     *)

UidNamesOne == \A r, q \in store : r.box = q.box /\ r.uid = q.uid => r = q

(* UIDNEXT never decreases, and a message is one that was there, with at   *)
(* most \Deleted added, or has arrived under a UID not given out before.   *)
StoreGrows ==
  /\ \A b \in Boxes : uidnext[b] <= uidnext'[b]
  /\ \A r \in store' :
       \/ \E q \in store : /\ q.box = r.box /\ q.uid = r.uid /\ q.mail = r.mail
                           /\ q.deleted => r.deleted
       \/ uidnext[r.box] <= r.uid

StoreInv == LossInv /\ UidNamesOne

(* Moved or copied messages of one mailbox arrive, originals may go.       *)
LEMMA ArriveStep ==
  ASSUME StoreInv, NEW b, NEW S, S \subseteq store, \A r \in S : r.box = b, NEW dest \in Boxes,
         store' \subseteq store \cup Arrivals(S, dest, uidnext[dest]),
         uidnext' = [uidnext EXCEPT ![dest] = @ + Cardinality(S)]
  PROVE  StoreGrows /\ UidNamesOne'
<1> DEFINE A == Arrivals(S, dest, uidnext[dest])
<1>1. S \in SUBSET store /\ ImapTypeOK
  BY DEF StoreInv, LossInv, TypeOK
<1>2. IsFiniteSet(S) /\ S \subseteq Message /\ uidnext[dest] \in Nat \ {0}
  BY <1>1, FS_Subset DEF ImapTypeOK
<1>3. Cardinality(S) \in Nat
  BY <1>2, FS_CardinalityType
<1>4. \A a \in A : a \in Message /\ a.box = dest /\ uidnext[dest] <= a.uid
  BY <1>2, ArrivalsFacts
<1>5. \A a, c \in A : a.uid = c.uid => a = c
  <2>1. \A r, q \in S : r.uid = q.uid => r = q
    BY DEF StoreInv, UidNamesOne
  <2> QED BY <1>2, <2>1, ArrivalsApart
<1> HIDE DEF A
<1>6. \A r \in store : r \in Message /\ r.uid < uidnext[r.box]
  BY <1>1 DEF StoreInv, LossInv, UidsBelowNext, ImapTypeOK
<1>7. StoreGrows
  <2>1. \A c \in Boxes : uidnext[c] <= uidnext'[c]
    BY <1>1, <1>2, <1>3 DEF ImapTypeOK
  <2>2. ASSUME NEW r \in store'
        PROVE  \/ \E q \in store : /\ q.box = r.box /\ q.uid = r.uid /\ q.mail = r.mail
                                   /\ q.deleted => r.deleted
               \/ uidnext[r.box] <= r.uid
    BY <1>4 DEF A
  <2> QED BY <2>1, <2>2 DEF StoreGrows
<1>8. ASSUME NEW r \in store', NEW q \in store', r.box = q.box, r.uid = q.uid PROVE r = q
  <2>1. (r \in store \/ r \in A) /\ (q \in store \/ q \in A)
    BY DEF A
  <2>2. CASE r \in store /\ q \in store
    BY <1>8, <2>2 DEF StoreInv, UidNamesOne
  <2>3. CASE r \in A /\ q \in A
    BY <1>5, <1>8, <2>3
  <2>4. ASSUME NEW x \in store, NEW y \in A, x.box = y.box, x.uid = y.uid PROVE FALSE
    <3>1. x.uid < uidnext[dest] /\ uidnext[dest] <= x.uid
      BY <1>4, <1>6, <2>4
    <3>2. x.uid \in Nat
      BY <1>6 DEF Message
    <3> QED BY <1>2, <3>1, <3>2
  <2> QED BY <1>8, <2>1, <2>2, <2>3, <2>4
<1> QED BY <1>7, <1>8 DEF UidNamesOne

(* Messages go, or nothing changes.                                        *)
LEMMA KeepStep ==
  ASSUME StoreInv, store' \subseteq store, uidnext' = uidnext
  PROVE  StoreGrows /\ UidNamesOne'
<1>1. \A b \in Boxes : uidnext[b] <= uidnext'[b]
  BY DEF StoreInv, LossInv, TypeOK, ImapTypeOK
<1> QED BY <1>1 DEF StoreGrows, StoreInv, UidNamesOne

(* The user only adds messages above UIDNEXT and moves or marks others.    *)
LEMMA UserStore ==
  ASSUME StoreInv, User
  PROVE  StoreGrows /\ UidNamesOne'
<1>1. ImapTypeOK
  BY DEF StoreInv, LossInv, TypeOK
<1>2. \A r \in store : r \in Message /\ r.uid < uidnext[r.box]
  BY <1>1 DEF StoreInv, LossInv, UidsBelowNext, ImapTypeOK
<1>3. ASSUME NEW m \in Mails, Deliver(m) PROVE StoreGrows /\ UidNamesOne'
  <2> DEFINE d == [box |-> Inbox, uid |-> uidnext[Inbox], mail |-> m,
                   seen |-> FALSE, deleted |-> FALSE]
  <2>1. /\ store' = store \cup {d}
        /\ uidnext' = [uidnext EXCEPT ![Inbox] = uidnext[Inbox] + 1]
    BY <1>3 DEF Deliver
  <2>2. d.box = Inbox /\ d.uid = uidnext[Inbox]
    OBVIOUS
  <2> HIDE DEF d
  <2>3. \A b \in Boxes : uidnext[b] <= uidnext'[b]
    BY <1>1, <2>1 DEF ImapTypeOK
  <2>4. uidnext[Inbox] \in Nat
    BY <1>1 DEF ImapTypeOK
  <2>5. \A r \in store : r.box = Inbox => r.uid # uidnext[Inbox]
    BY <1>2, <2>4 DEF Message
  <2>6. UidNamesOne'
    BY <2>1, <2>2, <2>5 DEF StoreInv, UidNamesOne
  <2>7. ASSUME NEW r \in store'
        PROVE  \/ \E q \in store : /\ q.box = r.box /\ q.uid = r.uid /\ q.mail = r.mail
                                   /\ q.deleted => r.deleted
               \/ uidnext[r.box] <= r.uid
    BY <2>1, <2>2, <2>4
  <2> QED BY <2>3, <2>6, <2>7 DEF StoreGrows
<1>4. ASSUME NEW r \in store, NEW b \in Boxes, Refile(r, b) PROVE StoreGrows /\ UidNamesOne'
  <2>1. /\ store' \subseteq store \cup Arrivals({r}, b, uidnext[b])
        /\ uidnext' = [uidnext EXCEPT ![b] = @ + Cardinality({r})]
    BY <1>4 DEF Refile, MoveTo
  <2>2. {r} \subseteq store /\ \A q \in {r} : q.box = r.box
    OBVIOUS
  <2> QED BY <2>1, <2>2, ArriveStep
<1>5. ASSUME NEW r \in store, ToggleSeen(r) PROVE StoreGrows /\ UidNamesOne'
  <2> DEFINE t == [r EXCEPT !.seen = ~r.seen]
  <2>1. store' = (store \ {r}) \cup {t} /\ uidnext' = uidnext
    BY <1>5 DEF ToggleSeen
  <2>2. t.box = r.box /\ t.uid = r.uid /\ t.mail = r.mail /\ t.deleted = r.deleted
    BY <1>2 DEF Message
  <2> HIDE DEF t
  <2>3. \A b \in Boxes : uidnext[b] <= uidnext'[b]
    BY <1>1, <2>1 DEF ImapTypeOK
  <2>4. StoreGrows
    BY <2>1, <2>2, <2>3 DEF StoreGrows
  <2>5. UidNamesOne'
    BY <2>1, <2>2 DEF StoreInv, UidNamesOne
  <2> QED BY <2>4, <2>5
<1>6. ASSUME NEW f \in Filters, ToggleFilter(f) PROVE StoreGrows /\ UidNamesOne'
  BY <1>6, KeepStep DEF ToggleFilter, imap
<1> QED BY <1>3, <1>4, <1>5, <1>6 DEF User

(* So do the commands of a pass.                                           *)
LEMMA PassStore ==
  ASSUME StoreInv, NEW p \in Procs, FetchForFilter(p) \/ PerformAction(p)
  PROVE  StoreGrows /\ UidNamesOne'
<1>1. CASE FetchForFilter(p)
  BY <1>1, KeepStep DEF FetchForFilter, imap
<1>2. ASSUME NEW f \in Filters, PerformMove(p, f) \/ PerformCopy(p, f)
      PROVE  StoreGrows /\ UidNamesOne'
  <2> DEFINE S == Named(store, Inbox, matched[p][f])
  <2>1. /\ store' \subseteq store \cup Arrivals(S, Target[f], uidnext[Target[f]])
        /\ uidnext' = [uidnext EXCEPT ![Target[f]] = @ + Cardinality(S)]
    BY <1>2 DEF PerformMove, PerformCopy, MoveTo
  <2>2. S \subseteq store /\ (\A r \in S : r.box = Inbox) /\ Target[f] \in Boxes
    BY DEF Named
  <2> HIDE DEF S
  <2> QED BY <2>1, <2>2, ArriveStep
<1>3. ASSUME NEW f \in Filters, PerformStore(p, f) PROVE StoreGrows /\ UidNamesOne'
  <2>1. store' = MarkDeleted(store, Inbox, matched[p][f]) /\ uidnext' = uidnext
    BY <1>3 DEF PerformStore
  <2>2. store \subseteq Message /\ \A b \in Boxes : uidnext[b] <= uidnext'[b]
    BY <2>1 DEF StoreInv, LossInv, TypeOK, ImapTypeOK
  <2>3. \A r, q \in store : r.box = q.box /\ r.uid = q.uid => r = q
    BY DEF StoreInv, UidNamesOne
  <2>4. /\ \A a \in store' : \E r \in store :
             /\ a.box = r.box /\ a.uid = r.uid /\ a.mail = r.mail
             /\ r.deleted => a.deleted
        /\ \A a, c \in store' : a.box = c.box /\ a.uid = c.uid => a = c
    BY <2>1, <2>2, <2>3, MarkDeletedApart
  <2> QED BY <2>2, <2>4 DEF StoreGrows, UidNamesOne
<1>4. ASSUME NEW f \in Filters, PerformExpunge(p, f) PROVE StoreGrows /\ UidNamesOne'
  BY <1>4, KeepStep DEF PerformExpunge, Expunge
<1> QED BY <1>1, <1>2, <1>3, <1>4 DEF PerformAction

(* So does every step.                                                     *)
LEMMA StoreStepGrows ==
  ASSUME StoreInv, [Next]_vars
  PROVE  StoreGrows /\ UidNamesOne'
<1>1. CASE UNCHANGED vars
  BY <1>1, KeepStep DEF vars, imap
<1>2. CASE User
  BY <1>2, UserStore
<1>3. ASSUME NEW p \in Procs, FetchForFilter(p) \/ PerformAction(p)
      PROVE  StoreGrows /\ UidNamesOne'
  BY <1>3, PassStore
<1>4. ASSUME NEW p \in Requests, ReadSetting(p) \/ RequestStep(p) PROVE StoreGrows /\ UidNamesOne'
  <2>1. CASE FetchForFilter(p) \/ PerformAction(p)
    BY <1>3, <2>1 DEF Procs
  <2>2. CASE ~(FetchForFilter(p) \/ PerformAction(p))
    <3>1. UNCHANGED imap
      BY <1>4, <2>2 DEF RequestStep, ReadSetting, StatusRecent, StatusQuiet, Search, EnqueueJob,
                        SaveLastUid
    <3> QED BY <3>1, KeepStep DEF imap
  <2> QED BY <2>1, <2>2
<1>5. ASSUME NEW w \in Workers, WorkerStep(w) \/ FailJob(w) PROVE StoreGrows /\ UidNamesOne'
  <2>1. CASE FetchForFilter(w) \/ PerformAction(w)
    BY <1>3, <2>1 DEF Procs
  <2>2. CASE ~(FetchForFilter(w) \/ PerformAction(w))
    <3>1. UNCHANGED imap
      BY <1>5, <2>2 DEF WorkerStep, TakeJob, FinishJob, FailJob
    <3> QED BY <3>1, KeepStep DEF imap
  <2> QED BY <2>1, <2>2
<1>6. ASSUME NEW p \in Procs, Fault(p) PROVE StoreGrows /\ UidNamesOne'
  <2>1. UNCHANGED imap
    BY <1>6 DEF Fault, Abort, PerformFail
  <2> QED BY <2>1, KeepStep DEF imap
<1> QED BY <1>1, <1>2, <1>4, <1>5, <1>6 DEF Next

(* The store is empty at the start.                                        *)
LEMMA StoreInvInit == Init => StoreInv
BY LossInit DEF Init, StoreInv, UidNamesOne

(* A UID goes on naming one message.                                       *)
LEMMA StoreInvNext == StoreInv /\ [Next]_vars => StoreInv'
BY LossNext, StoreStepGrows DEF StoreInv
---------------------------------------------------------------------------
(* A filter acts on mails it matches                                       *)

(* matched_uids is empty until the first slice is fetched.                 *)
NothingMatched(p) == \A f \in Filters : matched[p][f] = {}

MatchInv ==
  /\ StoreInv /\ ActsOnOwnMatches
  /\ \A p \in Procs : pc[p] \in {"idle", "status", "search", "first"} => NothingMatched(p)

(* The clauses of the invariant about one process, and what a step leaves  *)
(* them on: its lists unchanged, or no lists at all.                       *)
OwnMatches(p) ==
  \A f \in Filters : \A r \in Named(store, Inbox, matched[p][f]) :
    /\ f \in loaded[p] /\ Match(f, r.mail)
    /\ \A g \in loaded[p] : Match(g, r.mail) => f <= g

(* UIDs a process has matched name the same mails after a step, or none.   *)
LEMMA KeptMatches ==
  ASSUME MatchInv, StoreGrows, NEW p \in Procs, matched'[p] = matched[p], loaded'[p] = loaded[p]
  PROVE  OwnMatches(p)'
<1> SUFFICES ASSUME NEW f \in Filters, NEW r \in Named(store', Inbox, matched'[p][f])
             PROVE  /\ f \in loaded[p] /\ Match(f, r.mail)
                    /\ \A g \in loaded[p] : Match(g, r.mail) => f <= g
  BY DEF OwnMatches
<1>1. r \in store' /\ r.box = Inbox /\ r.uid \in matched[p][f]
  BY DEF Named
<1>2. r.uid \in Nat /\ r.uid < uidnext[Inbox] /\ uidnext[Inbox] \in Nat
  BY <1>1 DEF MatchInv, StoreInv, LossInv, UidsBelowNext, TypeOK, ImapTypeOK, ProcTypeOK
<1>3. PICK q \in store : q.box = r.box /\ q.uid = r.uid /\ q.mail = r.mail
  BY <1>1, <1>2 DEF StoreGrows
<1>4. q \in Named(store, Inbox, matched[p][f])
  BY <1>1, <1>3 DEF Named
<1> QED BY <1>3, <1>4 DEF MatchInv, ActsOnOwnMatches

(* A process that has matched nothing matches nothing wrong.               *)
LEMMA NoMatches ==
  ASSUME NEW p \in Procs, NothingMatched(p)'
  PROVE  OwnMatches(p)'
BY DEF NothingMatched, OwnMatches, Named

(* A slice: each mail goes to the first of the loaded filters it matches.  *)
LEMMA FetchMatches ==
  ASSUME MatchInv, NEW p \in Procs, FetchForFilter(p)
  PROVE  OwnMatches(p)'
<1> DEFINE slice == NextSlice(todo[p])
           fs == FiltersOf(p)
           hits(f) == UidsOf({r \in Named(store, Inbox, slice) : Takes(f, fs, r.mail)})
<1>1. /\ store' = store
      /\ matched' = [matched EXCEPT ![p] = [f \in Filters |-> matched[p][f] \cup hits(f)]]
      /\ loaded' = [loaded EXCEPT ![p] = fs]
      /\ pc[p] \in {"first", "fetch"}
  BY DEF FetchForFilter, imap
<1>2. TypeOK
  BY DEF MatchInv, StoreInv, LossInv
<1>3. fs \subseteq Filters
  BY <1>2 DEF FiltersOf, TypeOK, ProcTypeOK, DbTypeOK
<1>4. ASSUME NEW f \in Filters, NEW r \in Named(store, Inbox, hits(f))
      PROVE  f \in fs /\ Match(f, r.mail) /\ \A g \in fs : Match(g, r.mail) => f <= g
  <2>1. PICK q \in Named(store, Inbox, slice) : Takes(f, fs, q.mail) /\ q.uid = r.uid
    BY DEF UidsOf, Named
  <2>2. q = r
    BY <2>1 DEF Named, MatchInv, StoreInv, UidNamesOne
  <2>3. \A g \in fs : g \in Nat /\ f \in Nat
    BY <1>3
  <2> QED BY <2>1, <2>2, <2>3 DEF Takes
<1>5. ASSUME NEW f \in Filters, NEW r \in Named(store, Inbox, matched[p][f])
      PROVE  f \in fs /\ Match(f, r.mail) /\ \A g \in fs : Match(g, r.mail) => f <= g
  <2>1. pc[p] # "first"
    BY <1>5 DEF MatchInv, NothingMatched, Named
  <2>2. fs = loaded[p]
    BY <2>1 DEF FiltersOf
  <2> QED BY <1>5, <2>2 DEF MatchInv, ActsOnOwnMatches
<1> HIDE DEF fs, hits, slice
<1>6. loaded'[p] = fs /\ \A f \in Filters : matched'[p][f] = matched[p][f] \cup hits(f)
  BY <1>1, <1>2 DEF TypeOK, ProcTypeOK
<1>7. ASSUME NEW f \in Filters, NEW r \in Named(store', Inbox, matched'[p][f])
      PROVE  f \in fs /\ Match(f, r.mail) /\ \A g \in fs : Match(g, r.mail) => f <= g
  <2>1. r \in Named(store, Inbox, matched[p][f]) \/ r \in Named(store, Inbox, hits(f))
    BY <1>1, <1>6, <1>7 DEF Named
  <2> QED BY <1>4, <1>5, <2>1
<1> QED BY <1>6, <1>7 DEF OwnMatches

(* What a step does to the lists of process p.                             *)
ListsKept(p) ==
  \/ /\ matched'[p] = matched[p] /\ loaded'[p] = loaded[p]
     /\ pc'[p] \in {"idle", "status", "search", "first"}
          => pc[p] \in {"idle", "status", "search", "first"}
  \/ NothingMatched(p)'
  \/ FetchForFilter(p) /\ pc'[p] \notin {"idle", "status", "search", "first"}

(* A step of one process leaves the lists of another alone.                *)
LEMMA StepKeepsLists ==
  ASSUME MatchInv, [Next]_vars, NEW q \in Procs
  PROVE  ListsKept(q)
<1>1. pc \in [Procs -> {"idle", "status", "search", "first", "fetch", "act", "store",
                        "expunge", "handoff", "save"}]
      /\ matched \in [Procs -> [Filters -> SUBSET Nat]]
      /\ loaded \in [Procs -> SUBSET Filters]
  BY DEF MatchInv, StoreInv, LossInv, TypeOK, ProcTypeOK
<1>2. pc[q] \in {"idle", "status", "search", "first"} => NothingMatched(q)
  BY DEF MatchInv
<1>3. ASSUME NEW p \in Procs, Leave(p) PROVE ListsKept(q)
  <2>1. CASE p = q
    BY <1>1, <1>3, <2>1 DEF Leave, ListsKept, NothingMatched, Nothing
  <2>2. CASE p # q
    BY <1>1, <1>3, <2>2 DEF Leave, Goto, ListsKept
  <2> QED BY <2>1, <2>2
<1>4. CASE UNCHANGED vars \/ User
  BY <1>4 DEF vars, User, Deliver, Refile, ToggleSeen, ToggleFilter, work, ListsKept
<1>5. ASSUME NEW p \in Procs, FetchForFilter(p) PROVE ListsKept(q)
  <2>1. \E a, t : pc' = [pc EXCEPT ![p] = Continue(a, t)]
    BY <1>5 DEF FetchForFilter, Goto
  <2>2. \E M, L : /\ matched' = [matched EXCEPT ![p] = M]
                  /\ loaded' = [loaded EXCEPT ![p] = L]
    BY <1>5 DEF FetchForFilter
  <2>3. CASE p = q
    <3>1. pc'[q] \in {"act", "fetch", "handoff"}
      BY <1>1, <2>1, <2>3 DEF Continue
    <3> QED BY <1>5, <2>3, <3>1 DEF ListsKept
  <2>4. CASE p # q
    BY <1>1, <2>1, <2>2, <2>4 DEF ListsKept
  <2> QED BY <2>3, <2>4
<1>6. ASSUME NEW p \in Procs, PerformAction(p) \/ \E f \in Filters : PerformFail(p, f)
      PROVE  ListsKept(q)
  <2>1. /\ matched' = matched /\ loaded' = loaded
        /\ \E l \in {"act", "fetch", "handoff", "store", "expunge"} : pc' = [pc EXCEPT ![p] = l]
    BY <1>6 DEF PerformAction, PerformFail, PerformMove, PerformCopy, PerformStore, PerformExpunge,
                Acted, Goto, Continue, work
  <2> QED BY <1>1, <2>1 DEF ListsKept
<1>7. ASSUME NEW p \in Requests, ReadSetting(p) \/ RequestStep(p) PROVE ListsKept(q)
  <2>1. p \in Procs
    BY DEF Procs
  <2>2. CASE StatusQuiet(p) \/ SaveLastUid(p)
    BY <1>3, <2>1, <2>2 DEF StatusQuiet, SaveLastUid
  <2>3. CASE ReadSetting(p) \/ StatusRecent(p)
    <3>1. /\ matched' = matched /\ loaded' = loaded /\ pc[p] \in {"idle", "status"}
          /\ \E l \in {"status", "search"} : pc' = [pc EXCEPT ![p] = l]
      BY <2>3 DEF ReadSetting, StatusRecent, Goto, work
    <3> QED BY <1>1, <2>1, <3>1 DEF ListsKept
  <2>4. CASE Search(p)
    <3>1. /\ matched' = matched /\ loaded' = [loaded EXCEPT ![p] = enabled]
          /\ \E l \in {"fetch", "handoff", "save"} : pc' = [pc EXCEPT ![p] = l]
          /\ pc[p] = "search"
      BY <2>4 DEF Search, Goto
    <3>2. CASE p = q
      BY <1>2, <3>1, <3>2 DEF ListsKept, NothingMatched
    <3>3. CASE p # q
      BY <1>1, <3>1, <3>3 DEF ListsKept
    <3> QED BY <3>2, <3>3
  <2>5. CASE EnqueueJob(p)
    <3>1. /\ matched' = matched /\ loaded' = loaded /\ pc' = [pc EXCEPT ![p] = "save"]
      BY <2>5 DEF EnqueueJob, Goto, work
    <3> QED BY <1>1, <2>1, <3>1 DEF ListsKept
  <2> QED BY <1>5, <1>6, <1>7, <2>1, <2>2, <2>3, <2>4, <2>5 DEF RequestStep
<1>8. ASSUME NEW w \in Workers, WorkerStep(w) \/ FailJob(w) PROVE ListsKept(q)
  <2>1. w \in Procs
    BY DEF Procs
  <2>2. CASE FinishJob(w) \/ FailJob(w)
    BY <1>3, <2>1, <2>2 DEF FinishJob, FailJob
  <2>3. ASSUME NEW j \in JobSlots, TakeJob(w, j) PROVE ListsKept(q)
    <3>1. /\ matched' = matched /\ loaded' = loaded /\ pc' = [pc EXCEPT ![w] = "first"]
          /\ pc[w] = "idle"
      BY <2>3 DEF TakeJob, Goto
    <3> QED BY <1>1, <2>1, <3>1 DEF ListsKept
  <2> QED BY <1>5, <1>6, <1>8, <2>1, <2>2, <2>3 DEF WorkerStep
<1>9. ASSUME NEW p \in Procs, Fault(p) PROVE ListsKept(q)
  BY <1>3, <1>6, <1>9 DEF Fault, Abort
<1> QED BY <1>4, <1>7, <1>8, <1>9 DEF Next

(* At the start nothing is matched.                                        *)
LEMMA MatchInit == Init => MatchInv
BY StoreInvInit DEF Init, MatchInv, ActsOnOwnMatches, NothingMatched, Nothing, Named

(* Every step leaves what is matched to filters that match it.             *)
LEMMA MatchNext == MatchInv /\ [Next]_vars => MatchInv'
<1> SUFFICES ASSUME MatchInv, [Next]_vars PROVE MatchInv'
  OBVIOUS
<1>1. StoreInv' /\ StoreGrows
  BY StoreInvNext, StoreStepGrows DEF MatchInv
<1>2. ASSUME NEW p \in Procs
      PROVE  /\ OwnMatches(p)'
             /\ pc'[p] \in {"idle", "status", "search", "first"} => NothingMatched(p)'
  <2>1. ListsKept(p)
    BY StepKeepsLists
  <2>2. CASE matched'[p] = matched[p] /\ loaded'[p] = loaded[p]
             /\ (pc'[p] \in {"idle", "status", "search", "first"}
                   => pc[p] \in {"idle", "status", "search", "first"})
    BY <1>1, <2>2, KeptMatches DEF MatchInv, NothingMatched
  <2>3. CASE NothingMatched(p)'
    BY <2>3, NoMatches
  <2>4. CASE FetchForFilter(p) /\ pc'[p] \notin {"idle", "status", "search", "first"}
    BY <2>4, FetchMatches
  <2> QED BY <2>1, <2>2, <2>3, <2>4 DEF ListsKept
<1>3. ActsOnOwnMatches'
  BY <1>2 DEF OwnMatches, ActsOnOwnMatches
<1> QED BY <1>1, <1>2, <1>3 DEF MatchInv

(* The UIDs a filter acts on, noted slices and IMAP commands earlier, name *)
(* mails it matches and no earlier filter takes, whatever other requests,  *)
(* jobs and the user did to the inbox in between.                          *)
THEOREM FiltersActOnOwnMatches == Spec => []ActsOnOwnMatches
<1>1. MatchInv => ActsOnOwnMatches
  BY DEF MatchInv
<1> QED BY <1>1, MatchInit, MatchNext, PTL DEF Spec
---------------------------------------------------------------------------
(* No new mail is skipped                                                  *)

(* The UIDs of the mails of the inbox, those marked for deletion left out. *)
LiveUids == UidsOf({r \in store : r.box = Inbox /\ ~r.deleted})

Covered == settled \cup UNION {queue[j] : j \in JobSlots}

(* What a pass still has to decide about: the slices to come, and the      *)
(* mails of the filters whose action has yet to run.                       *)
Pending(p) == todo[p] \cup UNION {matched[p][f] : f \in acts[p]}

DbInv ==
  /\ lastUid < uidnext[Inbox]
  /\ \A j \in JobSlots : \A u \in queue[j] : u < uidnext[Inbox]
  /\ \A u \in LiveUids : u <= lastUid => u \in Covered

JobsApart == \A v, w \in Workers : job[v] # NoJob /\ job[v] = job[w] => v = w

(* What is known of a process at the points of its program: its numbers    *)
(* are UIDs given out, the actions of a slice are over before the next is  *)
(* fetched, and what EXPUNGE is about to remove is marked.                 *)
PhaseInv(p) ==
  /\ cur[p] < uidnext[Inbox] /\ top[p] < uidnext[Inbox]
  /\ \A u \in rest[p] : u < uidnext[Inbox]
  /\ pc[p] \in {"idle", "status", "search", "first", "fetch"} => acts[p] = {}
  /\ pc[p] \in {"handoff", "save"} => acts[p] = {} /\ todo[p] = {}
  /\ pc[p] = "idle" => job[p] = NoJob
  /\ \A f \in Filters : pc[p] = "expunge" /\ Acting(p, f)
                         => \A u \in LiveUids : u \notin matched[p][f]

(* A request holds no job, and answers for every mail up to the UIDNEXT it *)
(* read.                                                                   *)
RequestCovers(p) ==
  /\ job[p] = NoJob
  /\ \A u \in LiveUids : pc[p] # "idle" /\ u <= cur[p] => u \in Covered
  /\ \A u \in LiveUids :
       pc[p] \notin {"idle", "status", "search"} /\ u <= top[p]
         => u \in Covered \/ u \in Pending(p) \/ (pc[p] # "save" /\ u \in rest[p])

(* A worker answers for every mail of the job it holds.                    *)
WorkerCovers(w) ==
  job[w] # NoJob =>
    /\ queue[job[w]] # {}
    /\ \A u \in LiveUids : u \in queue[job[w]] => u \in settled \/ u \in Pending(w)

ProcInv(p) ==
  /\ PhaseInv(p)
  /\ p \in Requests => RequestCovers(p)
  /\ p \in Workers => WorkerCovers(p)

CoverInv == DbInv /\ JobsApart /\ \A p \in Procs : ProcInv(p)
SkipInv == StoreInv /\ CoverInv

(* No mail comes back under an old UID.                                    *)
NoneRevived ==
  /\ uidnext[Inbox] <= uidnext'[Inbox]
  /\ \A u \in LiveUids' : u \in LiveUids \/ uidnext[Inbox] <= u
StaysCovered == \A u \in LiveUids' : u \in Covered => u \in Covered'
Same(p) ==
  /\ pc'[p] = pc[p] /\ cur'[p] = cur[p] /\ top'[p] = top[p] /\ rest'[p] = rest[p]
  /\ todo'[p] = todo[p] /\ matched'[p] = matched[p] /\ acts'[p] = acts[p] /\ job'[p] = job[p]

(* A UID that is gone from the inbox does not come back.                   *)
LEMMA Revival ==
  ASSUME StoreGrows
  PROVE  NoneRevived
BY DEF StoreGrows, NoneRevived, LiveUids, UidsOf

(* The numbers the invariant compares.                                     *)
LEMMA Numbers ==
  ASSUME TypeOK
  PROVE  /\ uidnext[Inbox] \in Nat /\ lastUid \in Nat /\ settled \subseteq Nat
         /\ LiveUids \subseteq Nat /\ \A j \in JobSlots : queue[j] \subseteq Nat
         /\ \A p \in Procs : /\ cur[p] \in Nat /\ top[p] \in Nat
                             /\ rest[p] \subseteq Nat /\ todo[p] \subseteq Nat
                             /\ \A f \in Filters : matched[p][f] \subseteq Nat
BY DEF TypeOK, ImapTypeOK, DbTypeOK, ProcTypeOK, HistoryTypeOK, LiveUids, UidsOf, Message

(* A process that does not move keeps its clauses.                         *)
LEMMA OthersKeep ==
  ASSUME SkipInv, TypeOK', NoneRevived, StaysCovered, settled \subseteq settled',
         NEW q \in Procs, Same(q), job[q] # NoJob => queue'[job[q]] = queue[job[q]]
  PROVE  ProcInv(q)'
<1>1. TypeOK /\ ProcInv(q) /\ DbInv
  BY DEF SkipInv, CoverInv, StoreInv, LossInv
<1>2. /\ uidnext[Inbox] \in Nat /\ uidnext'[Inbox] \in Nat /\ uidnext[Inbox] <= uidnext'[Inbox]
      /\ cur[q] \in Nat /\ top[q] \in Nat /\ rest[q] \subseteq Nat /\ LiveUids' \subseteq Nat
      /\ \A f \in Filters : \A u \in matched[q][f] : u \in Nat /\ u < uidnext[Inbox]
      /\ \A j \in JobSlots : \A u \in queue[j] : u \in Nat /\ u < uidnext[Inbox]
  <2>1. /\ uidnext[Inbox] \in Nat /\ cur[q] \in Nat /\ top[q] \in Nat /\ rest[q] \subseteq Nat
        /\ \A j \in JobSlots : queue[j] \subseteq Nat
        /\ \A f \in Filters : matched[q][f] \subseteq Nat
    BY <1>1, Numbers
  <2>2. uidnext'[Inbox] \in Nat /\ LiveUids' \subseteq Nat
    BY DEF TypeOK, ImapTypeOK, LiveUids, UidsOf, Message
  <2> QED BY <1>1, <2>1, <2>2
          DEF NoneRevived, DbInv, SkipInv, StoreInv, LossInv, UidsBelowNext
<1>3. \A u \in LiveUids' : u \in LiveUids \/ uidnext[Inbox] <= u
  BY DEF NoneRevived
<1>4. PhaseInv(q)'
  <2>1. /\ cur'[q] < uidnext'[Inbox] /\ top'[q] < uidnext'[Inbox]
        /\ \A u \in rest'[q] : u < uidnext'[Inbox]
    BY <1>1, <1>2 DEF Same, ProcInv, PhaseInv
  <2>2. ASSUME NEW f \in Filters, pc'[q] = "expunge", Acting(q, f)', NEW u \in LiveUids'
        PROVE  u \notin matched'[q][f]
    <3>1. pc[q] = "expunge" /\ Acting(q, f) /\ matched'[q] = matched[q]
      BY <2>2 DEF Same, Acting
    <3>2. CASE u \in LiveUids
      BY <1>1, <3>1, <3>2 DEF ProcInv, PhaseInv
    <3>3. CASE uidnext[Inbox] <= u
      BY <1>2, <3>1, <3>3
    <3> QED BY <1>3, <3>2, <3>3
  <2>3. /\ pc'[q] \in {"idle", "status", "search", "first", "fetch"} => acts'[q] = {}
        /\ pc'[q] \in {"handoff", "save"} => acts'[q] = {} /\ todo'[q] = {}
        /\ pc'[q] = "idle" => job'[q] = NoJob
    BY <1>1 DEF Same, ProcInv, PhaseInv
  <2> QED BY <2>1, <2>2, <2>3 DEF PhaseInv
<1>5. Pending(q)' = Pending(q)
  BY DEF Pending, Same
<1>6. ASSUME q \in Requests PROVE RequestCovers(q)'
  <2>1. RequestCovers(q)
    BY <1>1, <1>6 DEF ProcInv
  <2>2. ASSUME NEW u \in LiveUids', pc'[q] # "idle", u <= cur'[q] PROVE u \in Covered'
    <3>1. u <= cur[q] /\ cur[q] < uidnext[Inbox]
      BY <1>1, <2>2 DEF Same, ProcInv, PhaseInv
    <3>2. u \in LiveUids
      BY <1>2, <1>3, <3>1
    <3>3. u \in Covered
      BY <2>1, <2>2, <3>1, <3>2 DEF Same, RequestCovers
    <3> QED BY <3>3 DEF StaysCovered
  <2>3. ASSUME NEW u \in LiveUids', pc'[q] \notin {"idle", "status", "search"}, u <= top'[q]
        PROVE  u \in Covered' \/ u \in Pending(q)' \/ (pc'[q] # "save" /\ u \in rest'[q])
    <3>1. u <= top[q] /\ top[q] < uidnext[Inbox]
      BY <1>1, <2>3 DEF Same, ProcInv, PhaseInv
    <3>2. u \in LiveUids
      BY <1>2, <1>3, <3>1
    <3>3. u \in Covered \/ u \in Pending(q) \/ (pc[q] # "save" /\ u \in rest[q])
      BY <2>1, <2>3, <3>1, <3>2 DEF Same, RequestCovers
    <3> QED BY <1>5, <3>3 DEF StaysCovered, Same
  <2>4. job'[q] = NoJob
    BY <2>1 DEF Same, RequestCovers
  <2> QED BY <2>2, <2>3, <2>4 DEF RequestCovers
<1>7. ASSUME q \in Workers PROVE WorkerCovers(q)'
  <2>1. WorkerCovers(q)
    BY <1>1, <1>7 DEF ProcInv
  <2>2. SUFFICES ASSUME job'[q] # NoJob
                 PROVE  /\ queue'[job'[q]] # {}
                        /\ \A u \in LiveUids' : u \in queue'[job'[q]]
                             => u \in settled' \/ u \in Pending(q)'
    BY DEF WorkerCovers
  <2>3. job'[q] = job[q] /\ queue'[job'[q]] = queue[job[q]] /\ job[q] \in JobSlots
    BY <1>1, <2>2 DEF Same, TypeOK, ProcTypeOK
  <2>4. ASSUME NEW u \in LiveUids', u \in queue[job[q]] PROVE u \in LiveUids
    <3>1. u \in Nat /\ u < uidnext[Inbox] /\ uidnext[Inbox] \in Nat
      BY <1>2, <2>3, <2>4
    <3> QED BY <1>3, <3>1
  <2> QED BY <1>5, <2>1, <2>2, <2>3, <2>4 DEF WorkerCovers
<1> QED BY <1>4, <1>6, <1>7 DEF ProcInv

(* Steps that leave last_uid and the jobs alone.                           *)
LEMMA QuietDb ==
  ASSUME SkipInv, TypeOK', NoneRevived, settled \subseteq settled', queue' = queue,
         lastUid' = lastUid
  PROVE  StaysCovered /\ DbInv'
<1>1. TypeOK /\ DbInv
  BY DEF SkipInv, CoverInv, StoreInv, LossInv
<1>2. Covered \subseteq Covered'
  BY DEF Covered
<1>3. /\ uidnext[Inbox] \in Nat /\ uidnext'[Inbox] \in Nat /\ uidnext[Inbox] <= uidnext'[Inbox]
      /\ lastUid \in Nat /\ LiveUids' \subseteq Nat /\ \A j \in JobSlots : queue[j] \subseteq Nat
  <2>1. uidnext'[Inbox] \in Nat /\ LiveUids' \subseteq Nat
    BY DEF TypeOK, ImapTypeOK, LiveUids, UidsOf, Message
  <2> QED BY <1>1, <2>1, Numbers DEF NoneRevived
<1>4. \A u \in LiveUids' : u <= lastUid => u \in LiveUids
  BY <1>1, <1>3 DEF NoneRevived, DbInv
<1>5. lastUid' < uidnext'[Inbox] /\ \A j \in JobSlots : \A u \in queue'[j] : u < uidnext'[Inbox]
  BY <1>1, <1>3 DEF DbInv
<1>6. \A u \in LiveUids' : u <= lastUid' => u \in Covered'
  BY <1>1, <1>2, <1>4 DEF DbInv
<1> QED BY <1>2, <1>5, <1>6 DEF StaysCovered, DbInv

(* It remains to look at the process that moves.                           *)
LEMMA CoverStep ==
  ASSUME SkipInv, TypeOK', NoneRevived, StaysCovered, settled \subseteq settled', NEW p,
         \A q \in Procs \ {p} : /\ Same(q)
                                /\ job[q] # NoJob => queue'[job[q]] = queue[job[q]],
         p \in Procs => ProcInv(p)', DbInv', JobsApart'
  PROVE  CoverInv'
<1>1. ASSUME NEW q \in Procs PROVE ProcInv(q)'
  BY OthersKeep
<1> QED BY <1>1 DEF CoverInv

(* A process that leaves has nothing to answer for any more.               *)
LEMMA LeaveCover ==
  ASSUME SkipInv, TypeOK', NEW p \in Procs, Leave(p)
  PROVE  /\ ProcInv(p)' /\ JobsApart'
         /\ \A q \in Procs \ {p} : Same(q)
<1>1. TypeOK
  BY DEF SkipInv, StoreInv, LossInv
<1>2. /\ pc'[p] = "idle" /\ cur'[p] = 0 /\ top'[p] = 0 /\ todo'[p] = {} /\ rest'[p] = {}
      /\ matched'[p] = Nothing /\ acts'[p] = {} /\ job'[p] = NoJob
  BY <1>1 DEF Leave, Goto, TypeOK, ProcTypeOK
<1>3. \A q \in Procs \ {p} : Same(q)
  BY <1>1 DEF Leave, Goto, Same, TypeOK, ProcTypeOK
<1>4. uidnext'[Inbox] \in Nat \ {0}
  BY DEF TypeOK, ImapTypeOK
<1>5. PhaseInv(p)'
  BY <1>2, <1>4 DEF PhaseInv
<1>6. RequestCovers(p)'
  BY <1>2 DEF RequestCovers
<1>7. WorkerCovers(p)'
  BY <1>2 DEF WorkerCovers
<1>8. \A q \in Procs : job'[q] = NoJob \/ job'[q] = job[q]
  BY <1>2, <1>3 DEF Same
<1>9. JobsApart'
  BY <1>8 DEF JobsApart, SkipInv, CoverInv, Procs
<1> QED BY <1>3, <1>5, <1>6, <1>7, <1>9 DEF ProcInv

(* A step of a pass: what was pending stays so or is decided about.        *)
LEMMA PassKeeps ==
  ASSUME SkipInv, TypeOK', NoneRevived, NEW p \in Procs,
         pc[p] \in {"first", "fetch", "act", "store", "expunge"}, pc'[p] # "save",
         queue' = queue, lastUid' = lastUid, settled \subseteq settled',
         cur' = cur, top' = top, rest' = rest, job' = job,
         \A u \in LiveUids' : u \in Pending(p) => u \in settled' \/ u \in Pending(p)',
         \A q \in Procs \ {p} : Same(q),
         PhaseInv(p)'
  PROVE  CoverInv'
<1>1. TypeOK /\ ProcInv(p) /\ JobsApart
  BY DEF SkipInv, CoverInv, StoreInv, LossInv
<1>2. StaysCovered /\ DbInv'
  BY QuietDb
<1>3. settled' \subseteq Covered'
  BY DEF Covered
<1>4. /\ uidnext[Inbox] \in Nat /\ cur[p] \in Nat /\ top[p] \in Nat /\ LiveUids' \subseteq Nat
      /\ cur[p] < uidnext[Inbox] /\ top[p] < uidnext[Inbox]
  <2>1. LiveUids' \subseteq Nat
    BY DEF TypeOK, ImapTypeOK, LiveUids, UidsOf, Message
  <2> QED BY <1>1, <2>1, Numbers DEF ProcInv, PhaseInv
<1>5. \A u \in LiveUids' : u <= cur[p] \/ u <= top[p] => u \in LiveUids
  BY <1>4 DEF NoneRevived
<1>6. ASSUME p \in Requests PROVE RequestCovers(p)'
  <2>1. RequestCovers(p)
    BY <1>1, <1>6 DEF ProcInv
  <2>2. \A u \in LiveUids' : u <= cur[p] => u \in Covered'
    BY <1>2, <1>5, <2>1 DEF RequestCovers, StaysCovered
  <2>3. ASSUME NEW u \in LiveUids', u <= top[p]
        PROVE  u \in Covered' \/ u \in Pending(p)' \/ u \in rest[p]
    <3>1. u \in Covered \/ u \in Pending(p) \/ u \in rest[p]
      BY <1>5, <2>1, <2>3 DEF RequestCovers
    <3> QED BY <1>2, <1>3, <3>1 DEF StaysCovered
  <2> QED BY <2>1, <2>2, <2>3 DEF RequestCovers
<1>7. ASSUME p \in Workers PROVE WorkerCovers(p)'
  <2>1. WorkerCovers(p)
    BY <1>1, <1>7 DEF ProcInv
  <2>2. SUFFICES ASSUME job[p] # NoJob
                 PROVE  /\ queue[job[p]] # {}
                        /\ \A u \in LiveUids' : u \in queue[job[p]]
                             => u \in settled' \/ u \in Pending(p)'
    BY DEF WorkerCovers
  <2>3. job[p] \in JobSlots
    BY <1>1, <2>2 DEF TypeOK, ProcTypeOK
  <2>4. ASSUME NEW u \in LiveUids', u \in queue[job[p]] PROVE u \in LiveUids
    <3>1. u \in Nat /\ u < uidnext[Inbox]
      BY <1>1, <2>3, <2>4, Numbers DEF DbInv, SkipInv, CoverInv
    <3> QED BY <1>4, <3>1 DEF NoneRevived
  <2> QED BY <2>1, <2>2, <2>4 DEF WorkerCovers
<1>8. ProcInv(p)' /\ JobsApart'
  BY <1>1, <1>6, <1>7 DEF ProcInv, JobsApart
<1> QED BY <1>2, <1>8, CoverStep

(* A slice is fetched: each of its UIDs is matched, or no filter wants it. *)
LEMMA FetchCover ==
  ASSUME SkipInv, TypeOK', NoneRevived, NEW p \in Procs, FetchForFilter(p)
  PROVE  CoverInv'
<1> DEFINE slice == NextSlice(todo[p])
           fs    == FiltersOf(p)
           hits  == [f \in Filters |->
                      UidsOf({r \in Named(store, Inbox, slice) : Takes(f, fs, r.mail)})]
           now   == [f \in Filters |-> matched[p][f] \cup hits[f]]
           left  == todo[p] \ slice
           act   == {f \in fs : now[f] # {}}
<1>1. TypeOK /\ PhaseInv(p)
  BY DEF SkipInv, CoverInv, ProcInv, StoreInv, LossInv
<1>2. /\ matched' = [matched EXCEPT ![p] = now]
      /\ todo' = [todo EXCEPT ![p] = left]
      /\ acts' = [acts EXCEPT ![p] = act]
      /\ settled' = settled \cup {u \in slice : \A f \in Filters : u \notin hits[f]}
      /\ pc' = [pc EXCEPT ![p] = Continue(act, left)]
      /\ pc[p] \in {"first", "fetch"}
      /\ queue' = queue /\ lastUid' = lastUid
      /\ cur' = cur /\ top' = top /\ rest' = rest /\ job' = job
      /\ uidnext' = uidnext
  BY DEF FetchForFilter, Goto, db, imap, search
<1>3. \A f \in Filters : hits[f] # {} => f \in fs
  BY DEF Takes, UidsOf
<1>4. \A f \in Filters : now[f] = matched[p][f] \cup hits[f]
  OBVIOUS
<1>5. \A f \in fs : now[f] # {} => f \in act
  OBVIOUS
<1>6. todo[p] \subseteq left \cup slice
  OBVIOUS
<1>7. act \subseteq Filters
  BY <1>1 DEF FiltersOf, TypeOK, ProcTypeOK, DbTypeOK
<1> HIDE DEF slice, fs, hits, now, left, act
<1>8. /\ matched'[p] = now /\ todo'[p] = left /\ acts'[p] = act
      /\ pc'[p] = Continue(act, left)
  BY <1>1, <1>2 DEF TypeOK, ProcTypeOK
<1>9. \A q \in Procs \ {p} : Same(q)
  BY <1>1, <1>2 DEF Same, TypeOK, ProcTypeOK
<1>10. ASSUME NEW u, u \in Pending(p) PROVE u \in settled' \/ u \in Pending(p)'
  <2>1. u \in todo[p]
    BY <1>1, <1>2, <1>10 DEF Pending, PhaseInv
  <2>2. CASE u \in left
    BY <1>8, <2>2 DEF Pending
  <2>3. CASE u \in slice /\ \A f \in Filters : u \notin hits[f]
    BY <1>2, <2>3
  <2>4. ASSUME NEW f \in Filters, u \in hits[f] PROVE u \in Pending(p)'
    <3>1. f \in act /\ u \in now[f]
      BY <1>3, <1>4, <1>5, <2>4
    <3> QED BY <1>8, <3>1 DEF Pending
  <2> QED BY <1>6, <2>1, <2>2, <2>3, <2>4
<1>11. pc'[p] # "save" /\ PhaseInv(p)'
  BY <1>1, <1>2, <1>8 DEF PhaseInv, Continue, TypeOK, ProcTypeOK
<1> QED BY <1>2, <1>9, <1>10, <1>11, PassKeeps

(* At most one filter's action runs at a time.                             *)
LEMMA OneActing ==
  ASSUME NEW p, NEW f \in Filters, NEW g \in Filters, Acting(p, f), Acting(p, g)
  PROVE  f = g
<1>1. f <= g /\ g <= f
  BY DEF Acting
<1> QED BY <1>1

(* An action settles what it was given, whether it succeeds or not.        *)
LEMMA PerformCover ==
  ASSUME SkipInv, TypeOK', NoneRevived, NEW p \in Procs, NEW f \in Filters,
         \/ PerformMove(p, f) \/ PerformCopy(p, f) \/ PerformStore(p, f)
         \/ PerformExpunge(p, f) \/ PerformFail(p, f)
  PROVE  CoverInv'
<1> DEFINE U == matched[p][f]
<1>1. TypeOK /\ PhaseInv(p) /\ UidNamesOne
  BY DEF SkipInv, CoverInv, ProcInv, StoreInv, LossInv
<1>2. /\ matched' = matched /\ todo' = todo
      /\ queue' = queue /\ lastUid' = lastUid
      /\ cur' = cur /\ top' = top /\ rest' = rest /\ job' = job
      /\ pc[p] \in {"act", "store", "expunge"} /\ Acting(p, f)
      /\ \E l : pc' = [pc EXCEPT ![p] = l]
      /\ \E a : acts' = [acts EXCEPT ![p] = a]
  <2>1. acts = [acts EXCEPT ![p] = acts[p]]
    BY <1>1 DEF TypeOK, ProcTypeOK
  <2> QED BY <2>1 DEF PerformMove, PerformCopy, PerformStore, PerformExpunge, PerformFail,
                      Acted, Goto, db, search, work
<1>3. \A q \in Procs \ {p} : Same(q)
  BY <1>1, <1>2 DEF Same, TypeOK, ProcTypeOK
<1>4. f \in acts[p] /\ cur[p] < uidnext'[Inbox] /\ top[p] < uidnext'[Inbox]
      /\ \A u \in rest[p] : u < uidnext'[Inbox]
  <2>1. /\ cur[p] \in Nat /\ top[p] \in Nat /\ rest[p] \subseteq Nat
        /\ uidnext[Inbox] \in Nat /\ uidnext'[Inbox] \in Nat
    BY <1>1 DEF TypeOK, ProcTypeOK, ImapTypeOK
  <2> QED BY <1>1, <1>2, <2>1 DEF Acting, PhaseInv, NoneRevived
(* After the last step of an action its UIDs are no longer pending. *)
<1>5. ASSUME Acted(p, f), settled \subseteq settled', \A u \in LiveUids' : u \in U => u \in settled'
      PROVE  CoverInv'
  <2>1. acts'[p] = acts[p] \ {f} /\ pc'[p] = Continue(acts'[p], todo[p])
    BY <1>1, <1>5 DEF Acted, Goto, TypeOK, ProcTypeOK
  <2>2. PhaseInv(p)' /\ pc'[p] # "save"
    BY <1>1, <1>2, <1>4, <2>1 DEF PhaseInv, Continue
  <2>3. \A u \in LiveUids' : u \in Pending(p) => u \in settled' \/ u \in Pending(p)'
    BY <1>2, <1>5, <2>1 DEF Pending
  <2> QED BY <1>2, <1>3, <1>5, <2>2, <2>3, PassKeeps
<1>6. CASE PerformMove(p, f)
  <2> DEFINE S == Named(store, Inbox, U)
             A == Arrivals(S, Target[f], uidnext[Target[f]])
  <2>1. store' = (store \ S) \cup A /\ Acted(p, f) /\ settled' = settled
    BY <1>6 DEF PerformMove, MoveTo, history
  <2>2. S \in SUBSET store /\ Target[f] \in Boxes /\ Target[f] # Inbox
    BY DEF Named
  <2>3. IsFiniteSet(S) /\ S \subseteq Message /\ uidnext[Target[f]] \in Nat \ {0}
    BY <1>1, <2>2, FS_Subset DEF TypeOK, ImapTypeOK
  <2>4. \A a \in A : a.box # Inbox
    BY <2>2, <2>3, ArrivalsFacts
  <2>5. \A r \in store : r.box = Inbox /\ r.uid \in U => r \in S
    BY DEF Named
  <2> HIDE DEF S, A
  <2>6. ASSUME NEW u \in LiveUids' PROVE u \notin U
    <3>1. PICK r \in store' : r.box = Inbox /\ r.uid = u
      BY DEF LiveUids, UidsOf
    <3> QED BY <2>1, <2>4, <2>5, <3>1
  <2> QED BY <1>5, <2>1, <2>6
<1>7. CASE PerformCopy(p, f)
  <2>1. acts' = acts /\ settled' = settled /\ pc' = [pc EXCEPT ![p] = "store"]
    BY <1>7 DEF PerformCopy, Goto, work, history
  <2>2. PhaseInv(p)' /\ pc'[p] # "save"
    BY <1>1, <1>2, <1>4, <2>1 DEF PhaseInv, TypeOK, ProcTypeOK
  <2>3. Pending(p)' = Pending(p)
    BY <1>2, <2>1 DEF Pending
  <2> QED BY <1>2, <1>3, <2>1, <2>2, <2>3, PassKeeps
<1>8. CASE PerformStore(p, f)
  <2>1. /\ store' = MarkDeleted(store, Inbox, U)
        /\ acts' = acts /\ settled' = settled /\ pc' = [pc EXCEPT ![p] = "expunge"]
    BY <1>8 DEF PerformStore, Goto, work, history
  <2>2. \A a \in store' : a.box = Inbox /\ a.uid \in U => a.deleted
    BY <1>1, <2>1, MarkDeletedApart DEF TypeOK, ImapTypeOK, UidNamesOne
  <2>3. \A u \in LiveUids' : u \notin U
    BY <2>2 DEF LiveUids, UidsOf
  <2>4. pc'[p] = "expunge"
    BY <1>1, <2>1 DEF TypeOK, ProcTypeOK
  <2>5. ASSUME NEW g \in Filters, Acting(p, g)', NEW u \in LiveUids' PROVE u \notin matched'[p][g]
    <3>1. Acting(p, g)
      BY <2>1, <2>5 DEF Acting
    <3>2. g = f
      BY <1>2, <3>1, OneActing
    <3> QED BY <1>2, <2>3, <3>2
  <2>6. PhaseInv(p)'
    BY <1>2, <1>4, <2>4, <2>5 DEF PhaseInv
  <2>7. Pending(p)' = Pending(p)
    BY <1>2, <2>1 DEF Pending
  <2> QED BY <1>2, <1>3, <2>1, <2>4, <2>6, <2>7, PassKeeps
<1>9. CASE PerformExpunge(p, f)
  <2>1. /\ store' = Expunge(store, Inbox) /\ Acted(p, f) /\ settled' = settled
        /\ pc[p] = "expunge"
    BY <1>9 DEF PerformExpunge, history
  <2>2. LiveUids' \subseteq LiveUids
    BY <2>1 DEF Expunge, LiveUids, UidsOf
  <2>3. \A u \in LiveUids' : u \notin U
    BY <1>1, <1>2, <2>1, <2>2 DEF PhaseInv
  <2> QED BY <1>5, <2>1, <2>3
<1>10. CASE PerformFail(p, f)
  <2>1. Acted(p, f) /\ settled' = settled \cup U
    BY <1>10 DEF PerformFail
  <2> QED BY <1>5, <2>1
<1> QED BY <1>6, <1>7, <1>8, <1>9, <1>10

(* A step of a pass loses no UID.                                          *)
LEMMA PassCover ==
  ASSUME SkipInv, TypeOK', NoneRevived, NEW p \in Procs,
         FetchForFilter(p) \/ PerformAction(p) \/ \E f \in Filters : PerformFail(p, f)
  PROVE  CoverInv'
BY FetchCover, PerformCover DEF PerformAction

(* The user's steps and the arrival of mails move no process.              *)
LEMMA UserCover ==
  ASSUME SkipInv, TypeOK', NoneRevived, UNCHANGED vars \/ User
  PROVE  CoverInv'
<1>1. /\ queue' = queue /\ lastUid' = lastUid /\ settled' = settled /\ job' = job
      /\ pc' = pc /\ cur' = cur /\ top' = top /\ rest' = rest /\ todo' = todo
      /\ matched' = matched /\ acts' = acts
  BY DEF vars, User, Deliver, Refile, ToggleSeen, ToggleFilter, db, search, work, history
<1>2. \A q \in Procs : Same(q)
  BY <1>1 DEF Same
<1>3. StaysCovered /\ DbInv'
  BY <1>1, QuietDb
<1>4. JobsApart'
  BY <1>1 DEF JobsApart, SkipInv, CoverInv
<1>5. ASSUME NEW q \in Procs PROVE ProcInv(q)'
  BY <1>1, <1>2, <1>3, OthersKeep
<1> QED BY <1>3, <1>4, <1>5 DEF CoverInv

(* Leaving without a change to last_uid or to the jobs.                    *)
LEMMA QuitCover ==
  ASSUME SkipInv, TypeOK', NoneRevived, NEW p \in Procs, Leave(p),
         queue' = queue, lastUid' = lastUid, settled' = settled
  PROVE  CoverInv'
<1>1. StaysCovered /\ DbInv'
  BY QuietDb
<1>2. /\ ProcInv(p)' /\ JobsApart'
      /\ \A q \in Procs \ {p} : Same(q)
  BY LeaveCover
<1> QED BY <1>1, <1>2, CoverStep

(* A request that reads the setting and UIDNEXT leaves no UID out.         *)
LEMMA StartCover ==
  ASSUME SkipInv, TypeOK', NoneRevived, NEW p \in Requests, ReadSetting(p) \/ StatusRecent(p)
  PROVE  CoverInv'
<1>1. /\ TypeOK /\ DbInv /\ JobsApart /\ PhaseInv(p) /\ RequestCovers(p) /\ p \in Procs
      /\ p \notin Workers
  BY DEF SkipInv, CoverInv, ProcInv, StoreInv, LossInv, Procs
<1>2. /\ queue' = queue /\ lastUid' = lastUid /\ settled' = settled /\ job' = job
      /\ rest' = rest /\ todo' = todo /\ matched' = matched /\ acts' = acts
      /\ store' = store /\ uidnext' = uidnext
  BY DEF ReadSetting, StatusRecent, db, imap, work, history
<1>3. StaysCovered /\ DbInv'
  BY <1>2, QuietDb
<1>4. LiveUids' = LiveUids /\ Covered' = Covered
  BY <1>2 DEF LiveUids, Covered
<1>5. CASE ReadSetting(p)
  <2>1. /\ pc' = [pc EXCEPT ![p] = "status"] /\ cur' = [cur EXCEPT ![p] = lastUid]
        /\ top' = top /\ pc[p] = "idle"
    BY <1>5 DEF ReadSetting, Goto
  <2>2. pc'[p] = "status" /\ cur'[p] = lastUid
    BY <1>1, <2>1 DEF TypeOK, ProcTypeOK
  <2>3. \A q \in Procs \ {p} : Same(q)
    BY <1>1, <1>2, <2>1 DEF Same, TypeOK, ProcTypeOK
  <2>4. PhaseInv(p)'
    BY <1>1, <1>2, <2>1, <2>2 DEF PhaseInv, DbInv
  <2>5. RequestCovers(p)'
    BY <1>1, <1>2, <1>4, <2>2 DEF RequestCovers, DbInv
  <2> QED BY <1>1, <1>2, <1>3, <2>3, <2>4, <2>5, CoverStep DEF ProcInv, JobsApart
<1>6. CASE StatusRecent(p)
  <2>1. /\ pc' = [pc EXCEPT ![p] = "search"] /\ top' = [top EXCEPT ![p] = uidnext[Inbox] - 1]
        /\ cur' = cur /\ pc[p] = "status"
    BY <1>6 DEF StatusRecent, Goto
  <2>2. pc'[p] = "search" /\ top'[p] = uidnext[Inbox] - 1 /\ uidnext[Inbox] \in Nat
    BY <1>1, <2>1 DEF TypeOK, ProcTypeOK, ImapTypeOK
  <2>3. \A q \in Procs \ {p} : Same(q)
    BY <1>1, <1>2, <2>1 DEF Same, TypeOK, ProcTypeOK
  <2>4. PhaseInv(p)'
    BY <1>1, <1>2, <2>1, <2>2 DEF PhaseInv
  <2>5. RequestCovers(p)'
    BY <1>1, <1>2, <1>4, <2>1, <2>2 DEF RequestCovers
  <2> QED BY <1>1, <1>2, <1>3, <2>3, <2>4, <2>5, CoverStep DEF ProcInv, JobsApart
<1> QED BY <1>5, <1>6

(* What the search does not return counts as decided about; the rest is    *)
(* split into the slices of this request and those left to a job.          *)
LEMMA SearchCover ==
  ASSUME SkipInv, TypeOK', NoneRevived, NEW p \in Requests, Search(p)
  PROVE  CoverInv'
<1> DEFINE uids == SearchUids(p)
           now == AtOnce(uids)
           later == Delayed(uids)
<1>1. /\ TypeOK /\ DbInv /\ JobsApart /\ PhaseInv(p) /\ RequestCovers(p) /\ p \in Procs
      /\ p \notin Workers
  BY DEF SkipInv, CoverInv, ProcInv, StoreInv, LossInv, Procs
<1>2. /\ queue' = queue /\ lastUid' = lastUid /\ settled' = settled \cup (UidRange(p) \ uids)
      /\ job' = job /\ cur' = cur /\ top' = top /\ matched' = matched /\ acts' = acts
      /\ store' = store /\ uidnext' = uidnext
      /\ rest' = [rest EXCEPT ![p] = later] /\ todo' = [todo EXCEPT ![p] = now]
      /\ pc' = [pc EXCEPT ![p] = IF uids = {} THEN "save"
                                 ELSE IF now = {} THEN "handoff" ELSE "fetch"]
      /\ pc[p] = "search"
  BY DEF Search, Goto, db, imap
<1>3. uids = now \cup later /\ (uids = {} => now = {} /\ later = {})
  BY DEF AtOnce, Delayed, Newest
<1>4. \A u \in uids : u \in Nat /\ u < uidnext[Inbox]
  BY <1>1 DEF SearchUids, UidsOf, Named, Message, TypeOK, ImapTypeOK,
              SkipInv, StoreInv, LossInv, UidsBelowNext
<1> HIDE DEF uids, now, later
<1>5. StaysCovered /\ DbInv' /\ settled \subseteq settled'
  BY <1>2, QuietDb
<1>6. LiveUids' = LiveUids /\ Covered \subseteq Covered' /\ settled' \subseteq Covered'
  BY <1>2 DEF LiveUids, Covered
<1>7. /\ pc'[p] = (IF uids = {} THEN "save" ELSE IF now = {} THEN "handoff" ELSE "fetch")
      /\ rest'[p] = later /\ todo'[p] = now /\ acts'[p] = {}
  BY <1>1, <1>2 DEF TypeOK, ProcTypeOK, PhaseInv
<1>8. \A q \in Procs \ {p} : Same(q)
  BY <1>1, <1>2 DEF Same, TypeOK, ProcTypeOK
<1>9. PhaseInv(p)'
  BY <1>1, <1>2, <1>3, <1>4, <1>7 DEF PhaseInv
<1>10. RequestCovers(p)'
  <2>1. \A u \in LiveUids' : u <= cur'[p] => u \in Covered'
    BY <1>1, <1>2, <1>6 DEF RequestCovers
  <2>2. ASSUME NEW u \in LiveUids', u <= top'[p]
        PROVE  u \in Covered' \/ u \in Pending(p)' \/ (pc'[p] # "save" /\ u \in rest'[p])
    <3>1. u \in Nat /\ cur[p] \in Nat /\ top[p] \in Nat
      BY <1>1, <1>6, Numbers
    <3>2. CASE u <= cur[p]
      BY <1>2, <2>1, <3>2
    <3>3. CASE ~(u <= cur[p])
      <4>1. u \in UidRange(p)
        BY <1>2, <2>2, <3>1, <3>3 DEF UidRange
      <4>2. u \in settled' \/ u \in uids
        BY <1>2, <4>1
      <4> QED BY <1>3, <1>6, <1>7, <4>2 DEF Pending
    <3> QED BY <3>2, <3>3
  <2> QED BY <1>1, <1>2, <2>1, <2>2 DEF RequestCovers
<1> QED BY <1>1, <1>2, <1>5, <1>8, <1>9, <1>10, CoverStep DEF ProcInv, JobsApart

(* The excess goes to a free slot, which no worker holds.                  *)
LEMMA EnqueueCover ==
  ASSUME SkipInv, TypeOK', NoneRevived, NEW p \in Requests, EnqueueJob(p)
  PROVE  CoverInv'
<1>1. /\ TypeOK /\ DbInv /\ JobsApart /\ PhaseInv(p) /\ RequestCovers(p) /\ p \in Procs
      /\ p \notin Workers
  BY DEF SkipInv, CoverInv, ProcInv, StoreInv, LossInv, Procs
<1>2. /\ lastUid' = lastUid /\ settled' = settled
      /\ job' = job /\ cur' = cur /\ top' = top /\ matched' = matched /\ acts' = acts
      /\ store' = store /\ uidnext' = uidnext /\ rest' = rest /\ todo' = todo
      /\ pc' = [pc EXCEPT ![p] = "save"] /\ pc[p] = "handoff"
  BY DEF EnqueueJob, Goto, imap, search, work, history
<1>3. \A j \in JobSlots : queue'[j] = queue[j] \/ (queue[j] = {} /\ queue'[j] = rest[p])
  BY <1>1 DEF EnqueueJob, TypeOK, DbTypeOK
<1>4. rest[p] \subseteq Covered'
  <2>1. CASE rest[p] = {}
    BY <2>1
  <2>2. ASSUME NEW j \in JobSlots, queue' = [queue EXCEPT ![j] = rest[p]]
        PROVE  rest[p] \subseteq Covered'
    BY <1>1, <2>2 DEF TypeOK, DbTypeOK, Covered
  <2> QED BY <2>1, <2>2 DEF EnqueueJob
<1>5. LiveUids' = LiveUids /\ Covered \subseteq Covered'
  BY <1>2, <1>3 DEF LiveUids, Covered
<1>6. StaysCovered
  BY <1>5 DEF StaysCovered
<1>7. DbInv'
  BY <1>1, <1>2, <1>3, <1>5 DEF DbInv, PhaseInv
<1>8. pc'[p] = "save"
  BY <1>1, <1>2 DEF TypeOK, ProcTypeOK
<1>9. ASSUME NEW q \in Procs \ {p}
      PROVE  Same(q) /\ (job[q] # NoJob => queue'[job[q]] = queue[job[q]])
  <2>1. Same(q)
    BY <1>1, <1>2 DEF Same, TypeOK, ProcTypeOK
  <2>2. ASSUME job[q] # NoJob PROVE queue'[job[q]] = queue[job[q]]
    <3>1. CASE q \in Workers
      <4>1. job[q] \in JobSlots /\ queue[job[q]] # {}
        BY <1>1, <2>2, <3>1
           DEF TypeOK, ProcTypeOK, SkipInv, CoverInv, ProcInv, WorkerCovers
      <4> QED BY <1>3, <4>1
    <3>2. CASE q \in Requests
      BY <2>2, <3>2 DEF SkipInv, CoverInv, ProcInv, RequestCovers, TypeOK, ProcTypeOK
    <3> QED BY <3>1, <3>2 DEF Procs
  <2> QED BY <2>1, <2>2
<1>10. PhaseInv(p)'
  BY <1>1, <1>2, <1>8 DEF PhaseInv
<1>11. RequestCovers(p)'
  BY <1>1, <1>2, <1>4, <1>5, <1>8 DEF RequestCovers, Pending
<1> QED BY <1>1, <1>2, <1>6, <1>7, <1>9, <1>10, <1>11, CoverStep DEF ProcInv, JobsApart

(* When last_uid advances, the request that advances it has covered every  *)
(* mail below.                                                             *)
LEMMA SaveCover ==
  ASSUME SkipInv, TypeOK', NoneRevived, NEW p \in Requests, SaveLastUid(p)
  PROVE  CoverInv'
<1>1. /\ TypeOK /\ DbInv /\ PhaseInv(p) /\ RequestCovers(p) /\ p \in Procs
  BY DEF SkipInv, CoverInv, ProcInv, StoreInv, LossInv, Procs
<1>2. /\ Leave(p) /\ queue' = queue /\ settled' = settled /\ pc[p] = "save"
      /\ store' = store /\ uidnext' = uidnext
      /\ lastUid' = lastUid \/ lastUid' = top[p]
  BY DEF SaveLastUid, imap, history
<1>3. LiveUids' = LiveUids /\ Covered' = Covered
  BY <1>2 DEF LiveUids, Covered
<1>4. \A u \in LiveUids : u <= top[p] => u \in Covered
  BY <1>1, <1>2 DEF RequestCovers, PhaseInv, Pending
<1>5. DbInv'
  BY <1>1, <1>2, <1>3, <1>4 DEF DbInv, PhaseInv
<1>6. StaysCovered
  BY <1>3 DEF StaysCovered
<1>7. /\ ProcInv(p)' /\ JobsApart'
      /\ \A q \in Procs \ {p} : Same(q)
  BY <1>1, <1>2, LeaveCover
<1> QED BY <1>2, <1>5, <1>6, <1>7, CoverStep

(* A worker takes a job no other worker holds.                             *)
LEMMA TakeCover ==
  ASSUME SkipInv, TypeOK', NoneRevived, NEW w \in Workers, NEW j \in JobSlots, TakeJob(w, j)
  PROVE  CoverInv'
<1>1. /\ TypeOK /\ JobsApart /\ PhaseInv(w) /\ w \in Procs /\ w \notin Requests /\ j # NoJob
  BY DEF SkipInv, CoverInv, ProcInv, StoreInv, LossInv, Procs, NoJob
<1>2. /\ queue' = queue /\ lastUid' = lastUid /\ settled' = settled
      /\ cur' = cur /\ top' = top /\ rest' = rest /\ matched' = matched /\ acts' = acts
      /\ store' = store /\ uidnext' = uidnext
      /\ job' = [job EXCEPT ![w] = j] /\ todo' = [todo EXCEPT ![w] = queue[j]]
      /\ pc' = [pc EXCEPT ![w] = "first"]
      /\ pc[w] = "idle" /\ queue[j] # {} /\ \A v \in Workers : job[v] # j
  BY DEF TakeJob, Goto, db, imap, search, history
<1>3. StaysCovered /\ DbInv'
  BY <1>2, QuietDb
<1>4. /\ pc'[w] = "first" /\ job'[w] = j /\ todo'[w] = queue[j]
      /\ \A v \in Procs \ {w} : job'[v] = job[v]
  BY <1>1, <1>2 DEF TypeOK, ProcTypeOK
<1>5. \A q \in Procs \ {w} : Same(q)
  BY <1>1, <1>2 DEF Same, TypeOK, ProcTypeOK
<1>6. PhaseInv(w)'
  BY <1>1, <1>2, <1>4 DEF PhaseInv
<1>7. WorkerCovers(w)'
  BY <1>2, <1>4 DEF WorkerCovers, Pending
<1>8. JobsApart'
  <2>1. \A v \in Workers : v \in Procs
    BY DEF Procs
  <2> QED BY <1>1, <1>2, <1>4, <2>1 DEF JobsApart
<1> QED BY <1>1, <1>2, <1>3, <1>5, <1>6, <1>7, <1>8, CoverStep DEF ProcInv

(* A job leaves the queue when every mail it names was decided about, or   *)
(* when it is given up.                                                    *)
LEMMA EndCover ==
  ASSUME SkipInv, TypeOK', NoneRevived, NEW w \in Workers, FinishJob(w) \/ FailJob(w)
  PROVE  CoverInv'
<1> DEFINE j == job[w]
<1>1. /\ TypeOK /\ JobsApart /\ DbInv /\ PhaseInv(w) /\ WorkerCovers(w) /\ w \in Procs
  BY DEF SkipInv, CoverInv, ProcInv, StoreInv, LossInv, Procs
<1>2. /\ Leave(w) /\ lastUid' = lastUid /\ settled \subseteq settled'
      /\ store' = store /\ uidnext' = uidnext
      /\ \/ queue' = queue
         \/ queue' = [queue EXCEPT ![j] = {}] /\ (FinishJob(w) \/ queue[j] \subseteq settled')
  <2>1. CASE FinishJob(w)
    BY <2>1 DEF FinishJob, imap, history
  <2>2. CASE FailJob(w)
    <3> DEFINE given_up == tries[j] + 1 >= MaxAttempts
    <3>1. /\ queue' = [queue EXCEPT ![j] = IF given_up THEN {} ELSE @]
          /\ settled' = (IF given_up THEN settled \cup queue[j] ELSE settled)
          /\ Leave(w) /\ lastUid' = lastUid /\ store' = store /\ uidnext' = uidnext
      BY <2>2 DEF FailJob, imap
    <3> HIDE DEF given_up
    <3>2. CASE given_up
      BY <3>1, <3>2
    <3>3. CASE ~given_up
      BY <1>1, <3>1, <3>3 DEF TypeOK, DbTypeOK
    <3> QED BY <3>2, <3>3
  <2> QED BY <2>1, <2>2
<1>3. job[w] # NoJob /\ job[w] \in JobSlots
  BY <1>1 DEF FinishJob, FailJob, TypeOK, ProcTypeOK
<1>4. LiveUids' = LiveUids
  BY <1>2 DEF LiveUids
<1>5. \A i \in JobSlots : queue'[i] = queue[i] \/ (i = j /\ queue'[i] = {})
  BY <1>1, <1>2, <1>3 DEF TypeOK, DbTypeOK
<1>6. ASSUME NEW u \in LiveUids, u \in queue[j], queue' # queue PROVE u \in settled'
  <2>1. CASE queue[j] \subseteq settled'
    BY <1>6, <2>1
  <2>2. CASE FinishJob(w)
    <3>1. pc[w] = "handoff" /\ settled' = settled
      BY <2>2 DEF FinishJob, history
    <3>2. acts[w] = {} /\ todo[w] = {}
      BY <1>1, <3>1 DEF PhaseInv
    <3> QED BY <1>1, <1>3, <1>6, <3>1, <3>2 DEF WorkerCovers, Pending
  <2> QED BY <1>2, <1>6, <2>1, <2>2
<1>7. StaysCovered
  <2>1. SUFFICES ASSUME NEW u \in LiveUids, u \in Covered PROVE u \in Covered'
    BY <1>4 DEF StaysCovered
  <2>2. CASE u \in settled
    BY <1>2, <2>2 DEF Covered
  <2>3. ASSUME NEW i \in JobSlots, u \in queue[i] PROVE u \in Covered'
    <3>1. CASE queue'[i] = queue[i]
      BY <2>3, <3>1 DEF Covered
    <3>2. CASE queue'[i] # queue[i]
      <4>1. i = j /\ queue' # queue
        BY <1>5, <3>2
      <4>2. u \in settled'
        BY <1>6, <2>3, <4>1
      <4> QED BY <4>2 DEF Covered
    <3> QED BY <3>1, <3>2
  <2> QED BY <2>1, <2>2, <2>3 DEF Covered
<1>8. DbInv'
  <2>1. \A i \in JobSlots : \A u \in queue'[i] : u < uidnext'[Inbox]
    BY <1>1, <1>2, <1>5 DEF DbInv
  <2>2. \A u \in LiveUids' : u <= lastUid' => u \in Covered'
    BY <1>1, <1>2, <1>4, <1>7 DEF DbInv, StaysCovered
  <2> QED BY <1>1, <1>2, <2>1, <2>2 DEF DbInv
<1>9. /\ ProcInv(w)' /\ JobsApart'
      /\ \A q \in Procs \ {w} : Same(q)
  BY <1>1, <1>2, LeaveCover
<1>10. ASSUME NEW q \in Procs \ {w}, job[q] # NoJob PROVE queue'[job[q]] = queue[job[q]]
  <2>1. job[q] \in JobSlots
    BY <1>1, <1>10 DEF TypeOK, ProcTypeOK
  <2>2. q \in Workers
    BY <1>10 DEF SkipInv, CoverInv, ProcInv, RequestCovers, Procs
  <2>3. job[q] # j
    BY <1>1, <1>10, <2>2 DEF JobsApart
  <2> QED BY <1>5, <2>1, <2>3
<1> QED BY <1>2, <1>7, <1>8, <1>9, <1>10, CoverStep

(* At the start no mail is there to be skipped.                            *)
LEMMA SkipInit == Init => SkipInv
<1> SUFFICES ASSUME Init PROVE SkipInv
  OBVIOUS
<1>1. DbInv
  BY DEF Init, DbInv, LiveUids, UidsOf
<1>2. JobsApart
  BY DEF Init, JobsApart, Procs
<1>3. ASSUME NEW p \in Procs PROVE ProcInv(p)
  <2>1. PhaseInv(p)
    BY <1>3 DEF Init, PhaseInv
  <2>2. RequestCovers(p) /\ WorkerCovers(p)
    BY <1>3 DEF Init, RequestCovers, WorkerCovers
  <2> QED BY <2>1, <2>2 DEF ProcInv
<1> QED BY <1>1, <1>2, <1>3, StoreInvInit DEF SkipInv, CoverInv

(* Every step keeps each UID settled, queued or held by a process.         *)
LEMMA SkipNext == SkipInv /\ [Next]_vars => SkipInv'
<1> SUFFICES ASSUME SkipInv, [Next]_vars PROVE SkipInv'
  OBVIOUS
<1>1. StoreInv' /\ TypeOK' /\ NoneRevived
  BY StoreInvNext, StoreStepGrows, Revival DEF SkipInv, StoreInv, LossInv
<1>2. CASE UNCHANGED vars \/ User
  BY <1>1, <1>2, UserCover DEF SkipInv
<1>3. ASSUME NEW p \in Requests, ReadSetting(p) \/ RequestStep(p) PROVE CoverInv'
  <2>1. p \in Procs
    BY DEF Procs
  <2>2. CASE StatusQuiet(p)
    BY <1>1, <2>1, <2>2, QuitCover DEF StatusQuiet, db, history
  <2> QED BY <1>1, <1>3, <2>1, <2>2, StartCover, SearchCover, PassCover, EnqueueCover, SaveCover
          DEF RequestStep
<1>4. ASSUME NEW w \in Workers, WorkerStep(w) \/ FailJob(w) PROVE CoverInv'
  BY <1>1, <1>4, TakeCover, PassCover, EndCover DEF WorkerStep, Procs
<1>5. ASSUME NEW p \in Procs, Fault(p) PROVE CoverInv'
  <2>1. CASE Abort(p)
    BY <1>1, <2>1, QuitCover DEF Abort, db
  <2> QED BY <1>1, <1>5, <2>1, PassCover DEF Fault
<1> QED BY <1>1, <1>2, <1>3, <1>4, <1>5 DEF Next, SkipInv

(* However requests and jobs overlap and wherever one is killed, no mail   *)
(* of the inbox at or below the stored last_uid is left without a decision *)
(* or a job that will take one.                                            *)
THEOREM NewMailsCovered == Spec => []NoMailSkipped
<1>1. SkipInv => NoMailSkipped
  BY DEF SkipInv, CoverInv, DbInv, NoMailSkipped, LiveUids, UidsOf, Covered
<1> QED BY <1>1, SkipInit, SkipNext, PTL DEF Spec
---------------------------------------------------------------------------
(* With MOVE a mail is at one place                                        *)

(* Nothing is ever copied or marked, so that each mail is one message.     *)
SingleInv ==
  /\ MatchInv /\ NoMailDoubled
  /\ \A r \in store : r.mail \in sent /\ ~r.deleted
  /\ \A p \in Procs : pc[p] \notin {"store", "expunge"}

(* MOVE makes no second copy.                                              *)
LEMMA SingleMove ==
  ASSUME SingleInv, NEW S, S \subseteq store, NEW dest \in Boxes, MoveTo(S, dest)
  PROVE  NoMailDoubled' /\ \A r \in store' : r.mail \in sent' /\ ~r.deleted
<1> DEFINE A == Arrivals(S, dest, uidnext[dest])
           moved(r) == [r EXCEPT !.box = dest, !.uid = NewUid(r, S, uidnext[dest])]
<1>1. store' = (store \ S) \cup A /\ sent' = sent
  BY DEF MoveTo
<1>2. ASSUME NEW a \in A
      PROVE  \E r \in S : a = moved(r) /\ a.mail = r.mail /\ a.deleted = r.deleted
  <2>1. PICK r \in S : a = moved(r)
    BY DEF Arrivals
  <2>2. r \in Message
    BY DEF SingleInv, MatchInv, StoreInv, LossInv, TypeOK, ImapTypeOK
  <2> QED BY <2>1, <2>2 DEF Message
<1> HIDE DEF A, moved
<1>3. \A r, q \in store : r.mail = q.mail => r = q
  BY DEF SingleInv, NoMailDoubled
<1>4. ASSUME NEW a \in A, NEW c \in A, a.mail = c.mail PROVE a = c
  <2>1. PICK r \in S : a = moved(r) /\ a.mail = r.mail
    BY <1>2
  <2>2. PICK q \in S : c = moved(q) /\ c.mail = q.mail
    BY <1>2
  <2> QED BY <1>3, <1>4, <2>1, <2>2
<1>5. \A a \in A, r \in store \ S : a.mail # r.mail
  BY <1>2, <1>3
<1>6. NoMailDoubled'
  BY <1>1, <1>3, <1>4, <1>5 DEF NoMailDoubled
<1>7. \A r \in store' : r.mail \in sent' /\ ~r.deleted
  BY <1>1, <1>2 DEF SingleInv
<1> QED BY <1>6, <1>7

(* The user makes no second copy.                                          *)
LEMMA SingleUser ==
  ASSUME SingleInv, User
  PROVE  NoMailDoubled' /\ \A r \in store' : r.mail \in sent' /\ ~r.deleted
<1>1. ASSUME NEW m \in Mails, Deliver(m)
      PROVE  NoMailDoubled' /\ \A r \in store' : r.mail \in sent' /\ ~r.deleted
  <2> DEFINE d == [box |-> Inbox, uid |-> uidnext[Inbox], mail |-> m,
                   seen |-> FALSE, deleted |-> FALSE]
  <2>1. store' = store \cup {d} /\ sent' = sent \cup {m} /\ m \notin sent
    BY <1>1 DEF Deliver
  <2>2. d.mail = m /\ ~d.deleted
    OBVIOUS
  <2> HIDE DEF d
  <2> QED BY <2>1, <2>2 DEF SingleInv, NoMailDoubled
<1>2. ASSUME NEW r \in store, NEW b \in Boxes, Refile(r, b)
      PROVE  NoMailDoubled' /\ \A q \in store' : q.mail \in sent' /\ ~q.deleted
  BY <1>2, SingleMove DEF Refile
<1>3. ASSUME NEW r \in store, ToggleSeen(r)
      PROVE  NoMailDoubled' /\ \A q \in store' : q.mail \in sent' /\ ~q.deleted
  <2> DEFINE t == [r EXCEPT !.seen = ~r.seen]
  <2>1. store' = (store \ {r}) \cup {t} /\ sent' = sent
    BY <1>3 DEF ToggleSeen
  <2>2. t.mail = r.mail /\ t.deleted = r.deleted
    BY DEF SingleInv, MatchInv, StoreInv, LossInv, TypeOK, ImapTypeOK, Message
  <2> HIDE DEF t
  <2> QED BY <2>1, <2>2 DEF SingleInv, NoMailDoubled
<1>4. ASSUME NEW f \in Filters, ToggleFilter(f)
      PROVE  NoMailDoubled' /\ \A q \in store' : q.mail \in sent' /\ ~q.deleted
  BY <1>4 DEF ToggleFilter, imap, SingleInv, NoMailDoubled
<1> QED BY <1>1, <1>2, <1>3, <1>4 DEF User

(* Of the other steps only a filter's move changes the mailboxes.          *)
LEMMA SingleSteps ==
  ASSUME HasMove, SingleInv, Next
  PROVE  \/ User /\ pc' = pc
         \/ \E p \in Procs, f \in Filters : PerformMove(p, f)
         \/ UNCHANGED imap
<1>1. SUFFICES ASSUME ~User, \A p \in Procs, f \in Filters : ~PerformMove(p, f)
               PROVE  UNCHANGED imap
  BY DEF User, Deliver, Refile, ToggleSeen, ToggleFilter
<1>2. \A p \in Procs : \A f \in Filters :
        ~PerformCopy(p, f) /\ ~PerformStore(p, f) /\ ~PerformExpunge(p, f)
  BY DEF SingleInv, PerformCopy, PerformStore, PerformExpunge
<1>3. \A p \in Procs : ~PerformAction(p)
  BY <1>1, <1>2 DEF PerformAction
<1>4. ASSUME NEW p \in Requests, ReadSetting(p) \/ RequestStep(p) PROVE UNCHANGED imap
  BY <1>3, <1>4 DEF Procs, ReadSetting, RequestStep, StatusRecent, StatusQuiet, Search,
                    FetchForFilter, EnqueueJob, SaveLastUid
<1>5. ASSUME NEW w \in Workers, WorkerStep(w) \/ FailJob(w) PROVE UNCHANGED imap
  BY <1>3, <1>5 DEF Procs, WorkerStep, TakeJob, FetchForFilter, FinishJob, FailJob
<1>6. ASSUME NEW p \in Procs, Fault(p) PROVE UNCHANGED imap
  BY <1>6 DEF Fault, Abort, PerformFail
<1> QED BY <1>1, <1>4, <1>5, <1>6 DEF Next

(* No process gets to STORE or EXPUNGE.                                    *)
LEMMA SinglePcs ==
  ASSUME HasMove, SingleInv, Next, NEW q \in Procs
  PROVE  pc'[q] \notin {"store", "expunge"}
<1>1. pc \in [Procs -> {"idle", "status", "search", "first", "fetch", "act", "store",
                        "expunge", "handoff", "save"}]
  BY DEF SingleInv, MatchInv, StoreInv, LossInv, TypeOK, ProcTypeOK
<1>2. \A p \in Procs : pc[p] \notin {"store", "expunge"}
  BY DEF SingleInv
<1>3. CASE pc' = pc
  BY <1>2, <1>3
<1>4. ASSUME NEW p, NEW l, l \notin {"store", "expunge"}, pc' = [pc EXCEPT ![p] = l]
      PROVE  pc'[q] \notin {"store", "expunge"}
  BY <1>1, <1>2, <1>4
<1>5. CASE User
  BY <1>3, <1>5 DEF User, Deliver, Refile, ToggleSeen, ToggleFilter
<1>6. \A a, t : Continue(a, t) \notin {"store", "expunge"}
  BY DEF Continue
<1>7. ASSUME NEW p \in Procs, FetchForFilter(p) \/ PerformAction(p) \/ Fault(p)
      PROVE  \E l : l \notin {"store", "expunge"} /\ pc' = [pc EXCEPT ![p] = l]
  <2>1. CASE Abort(p)
    BY <2>1 DEF Abort, Leave, Goto
  <2>2. CASE FetchForFilter(p)
    BY <1>6, <2>2 DEF FetchForFilter, Goto
  <2>3. ASSUME NEW f \in Filters, PerformMove(p, f) \/ PerformFail(p, f)
        PROVE  \E l : l \notin {"store", "expunge"} /\ pc' = [pc EXCEPT ![p] = l]
    BY <1>6, <2>3 DEF PerformMove, PerformFail, Acted, Goto
  <2>4. \A f \in Filters : ~PerformCopy(p, f) /\ ~PerformStore(p, f) /\ ~PerformExpunge(p, f)
    BY <1>2 DEF PerformCopy, PerformStore, PerformExpunge
  <2> QED BY <1>7, <2>1, <2>2, <2>3, <2>4 DEF PerformAction, Fault
<1>8. ASSUME NEW p \in Requests, ReadSetting(p) \/ RequestStep(p)
      PROVE  \E l : l \notin {"store", "expunge"} /\ pc' = [pc EXCEPT ![p] = l]
  BY <1>7, <1>8 DEF Procs, ReadSetting, RequestStep, StatusRecent, StatusQuiet, Search,
                    EnqueueJob, SaveLastUid, Leave, Goto
<1>9. ASSUME NEW w \in Workers, WorkerStep(w) \/ FailJob(w)
      PROVE  \E l : l \notin {"store", "expunge"} /\ pc' = [pc EXCEPT ![w] = l]
  BY <1>7, <1>9 DEF Procs, WorkerStep, TakeJob, FinishJob, FailJob, Leave, Goto
<1> QED BY <1>4, <1>5, <1>7, <1>8, <1>9 DEF Next

(* No mail has two copies at the start.                                    *)
LEMMA SingleInit == Init => SingleInv
BY MatchInit DEF Init, SingleInv, NoMailDoubled

(* With MOVE no step makes a second copy.                                  *)
LEMMA SingleNext == HasMove /\ SingleInv /\ [Next]_vars => SingleInv'
<1> SUFFICES ASSUME HasMove, SingleInv, [Next]_vars PROVE SingleInv'
  OBVIOUS
<1>1. MatchInv'
  BY MatchNext DEF SingleInv
<1>2. CASE UNCHANGED imap
  <2>1. NoMailDoubled' /\ \A r \in store' : r.mail \in sent' /\ ~r.deleted
    BY <1>2 DEF imap, SingleInv, NoMailDoubled
  <2>2. CASE Next
    BY <1>1, <2>1, <2>2, SinglePcs DEF SingleInv
  <2>3. CASE UNCHANGED vars
    BY <1>1, <2>1, <2>3 DEF vars, SingleInv
  <2> QED BY <2>2, <2>3
<1>3. CASE User
  BY <1>1, <1>3, SingleUser, SinglePcs DEF SingleInv, Next
<1>4. ASSUME NEW p \in Procs, NEW f \in Filters, PerformMove(p, f), Next PROVE SingleInv'
  <2>1. Named(store, Inbox, matched[p][f]) \subseteq store /\ Target[f] \in Boxes
    BY DEF Named
  <2>2. NoMailDoubled' /\ \A r \in store' : r.mail \in sent' /\ ~r.deleted
    BY <1>4, <2>1, SingleMove DEF PerformMove
  <2> QED BY <1>1, <1>4, <2>2, SinglePcs DEF SingleInv
<1> QED BY <1>2, <1>3, <1>4, SingleSteps DEF vars

(* On a server with MOVE overlapping passes never file a mail twice.       *)
THEOREM OneCopyWithMove == HasMove /\ Spec => []NoMailDoubled
<1>1. SingleInv => NoMailDoubled
  BY DEF SingleInv
<1>2. ASSUME HasMove PROVE SingleInv /\ [Next]_vars => SingleInv'
  BY <1>2, SingleNext
<1>3. ASSUME HasMove PROVE Spec => []NoMailDoubled
  BY <1>1, <1>2, <1>3, SingleInit, PTL DEF Spec
<1> QED BY <1>3
---------------------------------------------------------------------------
(* The filters keep their promise                                          *)

(* While each mail is one message its place is that message's mailbox.     *)
LEMMA PlaceOf ==
  ASSUME NoMailDoubled
  PROVE  /\ \A r \in store : r.mail \in Mails => Place[r.mail] = r.box
         /\ \A m \in Mails : (\A r \in store : r.mail # m) => Place[m] = Outside
BY DEF NoMailDoubled, Place

(* The place of every mail after messages have moved.                      *)
LEMMA PlaceMoved ==
  ASSUME SingleInv, SingleInv', NEW S, S \subseteq store, NEW dest \in Boxes, MoveTo(S, dest)
  PROVE  Place' = [m \in Mails |-> IF m \in {r.mail : r \in S} THEN dest ELSE Place[m]]
<1> DEFINE A == Arrivals(S, dest, uidnext[dest])
           moved(r) == [r EXCEPT !.box = dest, !.uid = NewUid(r, S, uidnext[dest])]
<1>1. store' = (store \ S) \cup A
  BY DEF MoveTo
<1>2. store \subseteq Message /\ store' \subseteq Message
  BY DEF SingleInv, MatchInv, StoreInv, LossInv, TypeOK, ImapTypeOK
<1>3. A = {moved(r) : r \in S}
  BY DEF Arrivals
<1>4. \A r \in S : moved(r).box = dest /\ moved(r).mail = r.mail
  BY <1>2 DEF Message
<1> HIDE DEF A, moved
<1>5. /\ \A r \in store : r.mail \in Mails => Place[r.mail] = r.box
      /\ \A m \in Mails : (\A r \in store : r.mail # m) => Place[m] = Outside
  BY PlaceOf DEF SingleInv
<1>6. /\ \A r \in store' : r.mail \in Mails => Place'[r.mail] = r.box
      /\ \A m \in Mails : (\A r \in store' : r.mail # m) => Place'[m] = Outside
  <2>1. NoMailDoubled'
    BY DEF SingleInv
  <2> QED BY <2>1 DEF NoMailDoubled, Place
<1>7. ASSUME NEW m \in Mails
      PROVE  Place'[m] = IF m \in {r.mail : r \in S} THEN dest ELSE Place[m]
  <2>1. CASE m \in {r.mail : r \in S}
    <3>1. PICK a \in A : a.box = dest /\ a.mail = m
      BY <1>3, <1>4, <2>1
    <3> QED BY <1>1, <1>6, <2>1, <3>1
  <2>2. CASE m \notin {r.mail : r \in S}
    <3>1. CASE \E r \in store : r.mail = m
      <4>1. PICK r \in store : r.mail = m
        BY <3>1
      <4>2. r \in store'
        BY <1>1, <2>2, <4>1
      <4> QED BY <1>5, <1>6, <2>2, <4>1, <4>2
    <3>2. CASE \A r \in store : r.mail # m
      <4>1. \A r \in store' : r.mail # m
        BY <1>1, <1>3, <1>4, <2>2, <3>2
      <4> QED BY <1>5, <1>6, <2>2, <3>2, <4>1
    <3> QED BY <3>1, <3>2
  <2> QED BY <2>1, <2>2
<1>8. Place' = [m \in Mails |-> Place'[m]]
  BY DEF Place
<1> QED BY <1>7, <1>8

(* The user's steps, and the arrival of a mail, are steps of the promise.  *)
LEMMA UserKeeps ==
  ASSUME SingleInv, SingleInv', User
  PROVE  [Promise!Next]_Place
<1>1. /\ \A r \in store : r.mail \in Mails => Place[r.mail] = r.box
      /\ \A m \in Mails : (\A r \in store : r.mail # m) => Place[m] = Outside
  BY PlaceOf DEF SingleInv
<1>2. store \subseteq Message
  BY DEF SingleInv, MatchInv, StoreInv, LossInv, TypeOK, ImapTypeOK
<1>3. ASSUME NEW m \in Mails, Deliver(m) PROVE Promise!Deliver(m)
  <2> DEFINE d == [box |-> Inbox, uid |-> uidnext[Inbox], mail |-> m,
                   seen |-> FALSE, deleted |-> FALSE]
  <2>1. store' = store \cup {d} /\ m \notin sent
    BY <1>3 DEF Deliver
  <2>2. d.mail = m /\ d.box = Inbox
    OBVIOUS
  <2> HIDE DEF d
  <2>3. \A r \in store : r.mail # m
    BY <2>1 DEF SingleInv
  <2>4. Place[m] = Outside
    BY <1>1, <2>3
  <2>5. ASSUME NEW n \in Mails PROVE Place'[n] = IF n = m THEN Inbox ELSE Place[n]
    <3>1. NoMailDoubled'
      BY DEF SingleInv
    <3>2. CASE n = m
      <4>1. d \in store' /\ \A r \in store' : r.mail = m => r = d
        BY <2>1, <2>2, <2>3
      <4> QED BY <2>2, <3>2, <4>1 DEF Place
    <3>3. CASE n # m
      <4>1. {r \in store' : r.mail = n} = {r \in store : r.mail = n}
        BY <2>1, <2>2, <3>3
      <4>2. CASE \E r \in store : r.mail = n
        <5>1. PICK r \in store : r.mail = n
          BY <4>2
        <5>2. r \in store'
          BY <2>1
        <5>3. Place[n] = r.box
          BY <1>1, <5>1
        <5>4. Place'[n] = r.box
          BY <3>1, <5>1, <5>2 DEF NoMailDoubled, Place
        <5> QED BY <3>3, <5>3, <5>4
      <4>3. CASE \A r \in store : r.mail # n
        <5>1. \A r \in store' : r.mail # n
          BY <2>1, <2>2, <3>3, <4>3
        <5> QED BY <1>1, <3>3, <4>3, <5>1 DEF Place
      <4> QED BY <4>2, <4>3
    <3> QED BY <3>2, <3>3
  <2>6. Place' = [Place EXCEPT ![m] = Inbox]
    <3>1. Place' = [n \in Mails |-> Place'[n]] /\ Place = [n \in Mails |-> Place[n]]
      BY DEF Place
    <3> HIDE DEF Place
    <3> QED BY <2>5, <3>1
  <2> QED BY <2>4, <2>6 DEF Promise!Deliver
<1>4. ASSUME NEW r \in store, NEW b \in Boxes, Refile(r, b) PROVE Promise!Refile(r.mail, b)
  <2>1. MoveTo({r}, b) /\ {r} \subseteq store
    BY <1>4 DEF Refile
  <2>2. Place' = [m \in Mails |-> IF m \in {q.mail : q \in {r}} THEN b ELSE Place[m]]
    BY <2>1, PlaceMoved
  <2>3. r.mail \in Mails /\ r.box \in Boxes /\ Place[r.mail] = r.box
    BY <1>1, <1>2 DEF Message
  <2>4. Place' = [Place EXCEPT ![r.mail] = b]
    <3>1. Place = [n \in Mails |-> Place[n]]
      BY DEF Place
    <3> HIDE DEF Place
    <3> QED BY <2>2, <3>1
  <2>5. (Place[r.mail] = Inbox /\ b \in UserBoxes) \/ (Place[r.mail] # Outside /\ b = Inbox)
    BY <1>4, <2>3, OutsideAssumption DEF Refile
  <2> QED BY <2>4, <2>5 DEF Promise!Refile
<1>5. ASSUME NEW r \in store, ToggleSeen(r) PROVE Place' = Place
  <2> DEFINE t == [r EXCEPT !.seen = ~r.seen]
  <2>1. store' = (store \ {r}) \cup {t}
    BY <1>5 DEF ToggleSeen
  <2>2. t.mail = r.mail /\ t.box = r.box
    BY <1>2 DEF Message
  <2> HIDE DEF t
  <2>3. ASSUME NEW n \in Mails PROVE Place'[n] = Place[n]
    <3>1. NoMailDoubled'
      BY DEF SingleInv
    <3>2. CASE \A q \in store : q.mail # n
      <4>1. \A q \in store' : q.mail # n
        BY <2>1, <2>2, <3>2
      <4> QED BY <3>2, <4>1 DEF Place
    <3>3. ASSUME NEW q \in store, q.mail = n PROVE Place'[n] = Place[n]
      <4>1. PICK s \in store' : s.mail = n /\ s.box = q.box
        BY <2>1, <2>2, <3>3
      <4>2. Place'[n] = s.box
        BY <3>1, <4>1 DEF NoMailDoubled, Place
      <4> QED BY <1>1, <3>3, <4>1, <4>2
    <3> QED BY <3>2, <3>3
  <2>4. Place' = [n \in Mails |-> Place'[n]] /\ Place = [n \in Mails |-> Place[n]]
    BY DEF Place
  <2> HIDE DEF Place
  <2> QED BY <2>3, <2>4
<1>6. ASSUME NEW f \in Filters, ToggleFilter(f) PROVE Place' = Place
  BY <1>6 DEF ToggleFilter, imap, Place
<1>7. \A r \in store : r.mail \in Mails
  BY <1>2 DEF Message
<1> QED BY <1>3, <1>4, <1>5, <1>6, <1>7 DEF User, Promise!Next

(* A filter's move is the filing of the mails it matches.                  *)
LEMMA MoveKeeps ==
  ASSUME SingleInv, SingleInv', NEW p \in Procs, NEW f \in Filters, PerformMove(p, f)
  PROVE  [Promise!Next]_Place
<1> DEFINE S == Named(store, Inbox, matched[p][f])
           F == {r.mail : r \in S}
<1>1. MoveTo(S, Target[f]) /\ S \subseteq store /\ Target[f] \in Boxes
  BY DEF PerformMove, Named
<1>2. Place' = [m \in Mails |-> IF m \in F THEN Target[f] ELSE Place[m]]
  <2> HIDE DEF S
  <2> QED BY <1>1, PlaceMoved
<1>3. store \subseteq Message
  BY DEF SingleInv, MatchInv, StoreInv, LossInv, TypeOK, ImapTypeOK
<1>4. F \subseteq Mails
  BY <1>1, <1>3 DEF Message
<1>5. \A m \in F : Place[m] = Inbox /\ Match(f, m)
  <2>1. \A r \in S : r \in store /\ r.box = Inbox /\ Match(f, r.mail)
    BY DEF Named, SingleInv, MatchInv, ActsOnOwnMatches
  <2>2. \A r \in store : r.mail \in Mails => Place[r.mail] = r.box
    BY PlaceOf DEF SingleInv
  <2> HIDE DEF S
  <2> QED BY <1>4, <2>1, <2>2
<1>6. CASE F = {}
  <2>1. Place' = [m \in Mails |-> Place[m]]
    BY <1>2, <1>6
  <2>2. Place = [m \in Mails |-> Place[m]]
    BY DEF Place
  <2> QED BY <2>1, <2>2
<1>7. CASE F # {}
  <2> HIDE DEF F
  <2>1. Promise!File(f, F)
    BY <1>2, <1>5, <1>7 DEF Promise!File, Promise!Match, Match
  <2> QED BY <1>4, <2>1 DEF Promise!Next
<1> QED BY <1>6, <1>7

(* The initial states are initial states of the promise.                   *)
LEMMA PromiseInit == Init => Promise!Init
BY DEF Init, Promise!Init, Place

(* A step is a step of the promise, or changes no place.                   *)
LEMMA PromiseNext ==
  ASSUME HasMove, SingleInv, [Next]_vars
  PROVE  [Promise!Next]_Place
<1>1. SingleInv'
  BY SingleNext
<1>2. CASE UNCHANGED imap
  BY <1>2 DEF imap, Place
<1>3. CASE User
  BY <1>1, <1>3, UserKeeps
<1>4. ASSUME NEW p \in Procs, NEW f \in Filters, PerformMove(p, f) PROVE [Promise!Next]_Place
  BY <1>1, <1>4, MoveKeeps
<1> QED BY <1>2, <1>3, <1>4, SingleSteps DEF vars

(* With MOVE the requests, the jobs and the server together implement      *)
(* FilterPromise: a mail leaves the inbox only by the user's hand or by a  *)
(* filter that matches it, to that filter's target, and is never at two    *)
(* places.                                                                 *)
THEOREM FiltersKeepPromise == HasMove /\ Spec => PromiseKept
<1>1. ASSUME HasMove PROVE SingleInv /\ [Next]_vars => SingleInv'
  BY <1>1, SingleNext
<1>2. ASSUME HasMove PROVE SingleInv /\ [Next]_vars => [Promise!Next]_Place
  BY <1>2, PromiseNext
<1>3. ASSUME HasMove PROVE Spec => PromiseKept
  BY <1>1, <1>2, <1>3, SingleInit, PromiseInit, PTL DEF Spec, PromiseKept, Promise!Spec
<1> QED BY <1>3
===========================================================================
