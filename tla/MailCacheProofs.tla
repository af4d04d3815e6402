-------------------------- MODULE MailCacheProofs --------------------------
(***************************************************************************)
(* Theorems about MailCache: cached headers belong to the mails they are   *)
(* shown for, and no mail is lost but in the trash, for any mailboxes,     *)
(* names and mails, any number of windows, requests cut short and folders  *)
(* that come and go, with or without MOVE.                                 *)
(***************************************************************************)
EXTENDS MailCache, ImapStoreTheorems

Fields == {"name", "box", "uids", "want", "got", "dest", "todo"}

(* What the server keeps to.                                               *)
Stored ==
  /\ store \subseteq Message /\ IsFiniteSet(store)
  /\ uidNext \in [Boxes -> Nat]
  /\ \A r \in store : r.uid < uidNext[r.box]
  /\ \A r, q \in store : r.box = q.box /\ r.uid = q.uid => r = q
Naming ==
  /\ named \in [Boxes -> Names \cup {NoName}]
  /\ \A a, b \in Boxes : named[a] = named[b] /\ named[a] # NoName => a = b
  /\ \A b \in Boxes : named[b] # NoName => uidNext[b] # 0
Tasks ==
  /\ DOMAIN pc = Requests /\ DOMAIN job = Requests /\ shown \in [Names -> SUBSET Nat]
  /\ \A p \in Requests :
       /\ DOMAIN job[p] = Fields
       /\ job[p].box \in Boxes /\ job[p].uids \subseteq Nat /\ job[p].todo \subseteq Names
       /\ pc[p] # "idle" => job[p].name \in Names
       /\ pc[p] = "move" => job[p].dest \in Names
Types == Stored /\ Naming /\ Tasks

(* What is in the store was there before, or has a UID of its own.         *)
StoreGrows ==
  /\ \A b \in Boxes : uidNext[b] <= uidNext'[b]
  /\ \A r \in store' : \/ \E q \in store : q.box = r.box /\ q.uid = r.uid /\ q.mail = r.mail
                       \/ uidNext[r.box] <= r.uid

(* A header that a request has fetched, or that is cached under a name of  *)
(* which the headers are known, is below UIDNEXT and of the right mail.    *)
Right(b, uid, mail) ==
  uid < uidNext[b] /\ \A r \in store : r.box = b /\ r.uid = uid => r.mail = mail
Fetched ==
  \A p \in Requests : pc[p] = "import" =>
    \A g \in job[p].got : g.uid \in Nat /\ Right(job[p].box, g.uid, g.mail)
Cached ==
  \A x \in nodes : x.name \notin blurred =>
    x.uid \in Nat /\ \E b \in Boxes : named[b] = x.name /\ x.name # NoName /\ Right(b, x.uid, x.mail)

(* A request that has copied its mails is about to mark the originals.     *)
Threat(p, r) == pc[p] = "store" /\ job[p].box = r.box /\ r.uid \in job[p].uids
Safe(m) == \E r \in store : r.mail = m /\ ~r.deleted /\ \A p \in Requests : ~Threat(p, r)
ThreatsKnown ==
  ~ahead => \A p \in Requests : pc[p] = "store" => \A u \in job[p].uids : u < uidNext[job[p].box]
MailsSafe == ~ahead => \A m \in MailsOf(FirstStore) : Safe(m) \/ m \in discarded
---------------------------------------------------------------------------
(* BoxOf is the mailbox of that name.                                      *)
LEMMA BoxOfFacts == ASSUME NEW n, Exists(n) PROVE BoxOf(n) \in Boxes /\ named[BoxOf(n)] = n
  BY DEF Exists, BoxOf

(* An idle request has an empty job.                                       *)
LEMMA NoJobFields ==
  /\ DOMAIN NoJob = Fields
  /\ NoJob.box \in Boxes /\ NoJob.uids \subseteq Nat /\ NoJob.todo \subseteq Names
  BY InboxAssumption DEF NoJob, Fields

(* Messages are taken away; a mailbox may be created.                      *)
LEMMA StoreShrinks ==
  ASSUME Stored, store' \subseteq store,
         uidNext' = uidNext \/ \E b \in Boxes : uidNext[b] = 0 /\ uidNext' = [uidNext EXCEPT ![b] = 1]
  PROVE  Stored' /\ StoreGrows
<1>1. uidNext' \in [Boxes -> Nat] /\ \A b \in Boxes : uidNext[b] <= uidNext'[b]
  BY DEF Stored
<1>2. store' \subseteq Message /\ IsFiniteSet(store')
  BY FS_Subset DEF Stored
<1>3. \A r \in store' : r.uid < uidNext'[r.box]
  <2> SUFFICES ASSUME NEW r \in store' PROVE r.uid < uidNext'[r.box]
    OBVIOUS
  <2>1. r.box \in Boxes /\ r.uid \in Nat /\ r.uid < uidNext[r.box]
    BY DEF Stored, Message
  <2>2. uidNext[r.box] \in Nat /\ uidNext'[r.box] \in Nat /\ uidNext[r.box] <= uidNext'[r.box]
    BY <1>1, <2>1 DEF Stored
  <2> QED BY <2>1, <2>2
<1> QED BY <1>1, <1>2, <1>3 DEF Stored, StoreGrows

(* Messages of one mailbox are copied or moved to another.                 *)
LEMMA StoreEnters ==
  ASSUME Stored, NEW d \in Boxes, uidNext[d] # 0, NEW T \in SUBSET store,
         NEW S \in SUBSET store, \A r, q \in S : r.box = q.box,
         store' = T \cup Arrivals(S, d, uidNext[d]),
         uidNext' = [uidNext EXCEPT ![d] = @ + Cardinality(S)]
  PROVE  Stored' /\ StoreGrows
<1> DEFINE N == Arrivals(S, d, uidNext[d])
<1>1. S \subseteq Message /\ IsFiniteSet(S) /\ IsFiniteSet(T) /\ uidNext[d] \in Nat \ {0}
  BY FS_Subset DEF Stored
<1>2. /\ N \subseteq Message /\ IsFiniteSet(N)
      /\ \A a \in N : a.box = d /\ uidNext[d] <= a.uid /\ a.uid < uidNext[d] + Cardinality(S)
  BY <1>1, ArrivalsFacts
<1>3. \A a, c \in N : a.uid = c.uid => a = c
  BY <1>1, ArrivalsApart DEF Stored
<1>4. Cardinality(S) \in Nat
  BY <1>1, FS_CardinalityType
<1>5. /\ uidNext' \in [Boxes -> Nat] /\ uidNext'[d] = uidNext[d] + Cardinality(S)
      /\ \A b \in Boxes : uidNext[b] <= uidNext'[b]
  BY <1>4 DEF Stored
<1>6. IsFiniteSet(T \cup N)
  BY <1>1, <1>2, FS_Union
<1> HIDE DEF N
<1>7. \A r \in T : r.box \in Boxes /\ r.uid \in Nat /\ r.uid < uidNext[r.box] /\ uidNext[r.box] \in Nat
  BY DEF Stored, Message
<1>8. \A r \in store' : r.uid < uidNext'[r.box]
  <2>1. ASSUME NEW r \in T PROVE r.uid < uidNext'[r.box]
    <3>1. uidNext[r.box] <= uidNext'[r.box] /\ uidNext'[r.box] \in Nat
      BY <1>5, <1>7
    <3> QED BY <1>7, <3>1
  <2> QED BY <1>2, <1>5, <2>1 DEF N
<1>9. \A r, q \in store' : r.box = q.box /\ r.uid = q.uid => r = q
  <2>1. \A r \in T : \A a \in N : r.box # a.box \/ r.uid # a.uid
    <3> SUFFICES ASSUME NEW r \in T, NEW a \in N, r.box = a.box, r.uid = a.uid PROVE FALSE
      OBVIOUS
    <3>1. a.box = d /\ uidNext[d] <= a.uid /\ r.uid < uidNext[d] /\ r.uid \in Nat /\ uidNext[d] \in Nat
      BY <1>2, <1>7
    <3> QED BY <3>1
  <2>2. \A r, q \in T : r.box = q.box /\ r.uid = q.uid => r = q
    BY DEF Stored
  <2>3. store' = T \cup N
    BY DEF N
  <2> QED BY <1>3, <2>1, <2>2, <2>3
<1>10. store' \subseteq Message /\ IsFiniteSet(store')
  BY <1>2, <1>6 DEF N, Stored
<1>11. StoreGrows
  BY <1>2, <1>5 DEF N, StoreGrows
<1> QED BY <1>5, <1>8, <1>9, <1>10,
     <1>11 DEF Stored

(* Messages are marked.                                                    *)
LEMMA StoreMarks ==
  ASSUME Stored, NEW b \in Boxes, NEW uids, store' = MarkDeleted(store, b, uids), uidNext' = uidNext
  PROVE  Stored' /\ StoreGrows
<1>1. /\ store' \subseteq Message /\ IsFiniteSet(store')
      /\ \A a \in store' : \E r \in store : a.box = r.box /\ a.uid = r.uid /\ a.mail = r.mail
  BY MarkDeletedFacts DEF Stored
<1>2. \A r \in store' : r.uid < uidNext'[r.box]
  BY <1>1 DEF Stored
<1>3. \A a, c \in store' : a.box = c.box /\ a.uid = c.uid => a = c
  <2> DEFINE marked(r) == [r EXCEPT !.deleted = TRUE]
  <2>1. ASSUME NEW a \in store'
        PROVE  \/ a \in store \ Named(store, b, uids)
               \/ \E r \in Named(store, b, uids) : a = marked(r) /\ a.box = r.box /\ a.uid = r.uid
    BY DEF MarkDeleted, Named, Stored, Message
  <2>2. \A r, q \in store : r.box = q.box /\ r.uid = q.uid => r = q
    BY DEF Stored
  <2>3. Named(store, b, uids) \subseteq store
    BY DEF Named
  <2> HIDE DEF marked
  <2> QED BY <2>1, <2>2, <2>3
<1>4. StoreGrows
  <2>1. \A x \in Boxes : uidNext[x] <= uidNext'[x]
    BY DEF Stored
  <2> QED BY <1>1, <2>1 DEF StoreGrows
<1> QED BY <1>1, <1>2, <1>3, <1>4 DEF Stored

(* Every step keeps to what the server keeps to.                           *)
LEMMA StoreNext == Types /\ [Next]_vars => Stored' /\ StoreGrows
<1> SUFFICES ASSUME Types, [Next]_vars PROVE Stored' /\ StoreGrows
  OBVIOUS
<1> USE DEF Types, history, count
<1>1. ASSUME NEW p \in Requests, NEW n \in Names, List(p, n)
      PROVE  Stored' /\ StoreGrows
  <2>1. UNCHANGED <<store, uidNext>>
    BY <1>1 DEF List
  <2> QED BY <2>1, StoreShrinks
<1>2. ASSUME NEW p \in Requests, NEW n \in Names, NEW uids \in SUBSET shown[n],
             TrashMails(p, n, uids) \/ \E dest \in Names : Move(p, n, dest, uids)
      PROVE  Stored' /\ StoreGrows
  <2>1. UNCHANGED <<store, uidNext>>
    BY <1>2 DEF TrashMails, Move, Begin
  <2> QED BY <2>1, StoreShrinks
<1>3. ASSUME NEW p \in Requests, Empty(p)
      PROVE  Stored' /\ StoreGrows
  <2>1. UNCHANGED <<store, uidNext>>
    BY <1>3 DEF Empty
  <2> QED BY <2>1, StoreShrinks
<1>4. ASSUME NEW p \in Requests, LoadFromCache(p)
      PROVE  Stored' /\ StoreGrows
  <2>1. UNCHANGED <<store, uidNext>>
    BY <1>4 DEF LoadFromCache, Lookup
  <2> QED BY <2>1, StoreShrinks
<1>5. ASSUME NEW p \in Requests, FetchHeaders(p)
      PROVE  Stored' /\ StoreGrows
  <2>1. UNCHANGED <<store, uidNext>>
    BY <1>5 DEF FetchHeaders
  <2> QED BY <2>1, StoreShrinks
<1>6. ASSUME NEW p \in Requests, Import(p)
      PROVE  Stored' /\ StoreGrows
  <2>1. UNCHANGED <<store, uidNext>>
    BY <1>6 DEF Import
  <2> QED BY <2>1, StoreShrinks
<1>7. ASSUME NEW p \in Requests, MoveAll(p)
      PROVE  Stored' /\ StoreGrows
  <2> DEFINE from == BoxOf(job[p].name)
             d == BoxOf(job[p].dest)
             S == Named(store, from, job[p].uids)
  <2>1. CASE UNCHANGED <<store, uidNext>>
    BY <2>1, StoreShrinks
  <2>2. CASE ~UNCHANGED <<store, uidNext>>
    <3>1. /\ Exists(job[p].dest) /\ pc[p] = "move"
          /\ uidNext' = [uidNext EXCEPT ![d] = @ + Cardinality(S)]
          /\ \E T \in {store, store \ S} : store' = T \cup Arrivals(S, d, uidNext[d])
      BY <1>7, <2>2 DEF MoveAll, Enter
    <3>2. d \in Boxes /\ uidNext[d] # 0
      BY <3>1, BoxOfFacts, MailCacheAssumption DEF Types, Naming, Tasks
    <3>3. S \in SUBSET store /\ \A r, q \in S : r.box = q.box
      BY DEF Named
    <3> HIDE DEF d, S
    <3> QED BY <3>1, <3>2, <3>3, StoreEnters
  <2> QED BY <2>1, <2>2
<1>8. ASSUME NEW p \in Requests, StoreDeleted(p)
      PROVE  Stored' /\ StoreGrows
  <2>1. uidNext' = uidNext /\ (store' = store \/ store' = MarkDeleted(store, job[p].box, job[p].uids))
    BY <1>8 DEF StoreDeleted
  <2> QED BY <2>1, StoreShrinks, StoreMarks DEF Types, Tasks
<1>9. ASSUME NEW p \in Requests, DeleteAll(p)
      PROVE  Stored' /\ StoreGrows
  <2>1. uidNext' = uidNext /\ (\/ store' = store
                              \/ /\ Exists(job[p].name)
                                 /\ store' = MarkDeleted(store, BoxOf(job[p].name), job[p].uids))
    BY <1>9 DEF DeleteAll
  <2> QED BY <2>1, StoreShrinks, StoreMarks, BoxOfFacts
<1>10. ASSUME NEW p \in Requests, ExpungeBox(p)
      PROVE  Stored' /\ StoreGrows
  <2>1. uidNext' = uidNext /\ store' \subseteq store
    BY <1>10 DEF ExpungeBox, Expunge
  <2> QED BY <2>1, StoreShrinks
<1>11. ASSUME NEW p \in Requests, NEW n \in job[p].todo, EmptyFolder(p, n)
      PROVE  Stored' /\ StoreGrows
  <2>1. uidNext' = uidNext /\ store' \subseteq store
    BY <1>11 DEF EmptyFolder, Drop
  <2> QED BY <2>1, StoreShrinks
<1>12. ASSUME NEW p \in Requests, EmptyMails(p)
      PROVE  Stored' /\ StoreGrows
  <2>1. UNCHANGED <<store, uidNext>>
    BY <1>12 DEF EmptyMails
  <2> QED BY <2>1, StoreShrinks
<1>13. ASSUME NEW p \in Requests, Fault(p)
      PROVE  Stored' /\ StoreGrows
  <2>1. UNCHANGED <<store, uidNext>>
    BY <1>13 DEF Fault
  <2> QED BY <2>1, StoreShrinks
<1>14. ASSUME NEW n \in Names, NEW uids \in SUBSET shown[n], NEW dest \in Names, CopyMails(n, dest, uids)
      PROVE  Stored' /\ StoreGrows
  <2> DEFINE d == BoxOf(dest)
             S == Named(store, BoxOf(n), uids)
  <2>1. /\ Exists(dest) /\ uidNext' = [uidNext EXCEPT ![d] = @ + Cardinality(S)]
        /\ store' = store \cup Arrivals(S, d, uidNext[d])
    BY <1>14 DEF CopyMails, Enter
  <2>2. d \in Boxes /\ uidNext[d] # 0
    BY <2>1, BoxOfFacts, MailCacheAssumption DEF Types, Naming, Tasks
  <2>3. S \in SUBSET store /\ \A r, q \in S : r.box = q.box
    BY DEF Named
  <2> HIDE DEF d, S
  <2> QED BY <2>1, <2>2, <2>3, StoreEnters
<1>15. ASSUME NEW n \in Names, NEW new \in Names, RenameFolder(n, new)
      PROVE  Stored' /\ StoreGrows
  <2>1. UNCHANGED <<store, uidNext>>
    BY <1>15 DEF RenameFolder, Renaming
  <2> QED BY <2>1, StoreShrinks
<1>16. ASSUME NEW n \in Names, NEW b \in Boxes, CreateFolder(n, b)
      PROVE  Stored' /\ StoreGrows
  <2>1. /\ store' \subseteq store
        /\ uidNext[b] = 0 /\ uidNext' = [uidNext EXCEPT ![b] = 1]
    BY <1>16 DEF CreateFolder
  <2> QED BY <2>1, StoreShrinks
<1>17. ASSUME NEW n \in Names, NEW b \in Boxes, Replace(n, b)
      PROVE  Stored' /\ StoreGrows
  <2>1. /\ store' \subseteq store
        /\ uidNext[b] = 0 /\ uidNext' = [uidNext EXCEPT ![b] = 1]
    BY <1>17 DEF Replace
  <2> QED BY <2>1, StoreShrinks
<1>18. ASSUME NEW n \in Names, DeleteFolder(n)
      PROVE  Stored' /\ StoreGrows
  <2>1. uidNext' = uidNext /\ store' \subseteq store
    BY <1>18 DEF DeleteFolder, Drop
  <2> QED BY <2>1, StoreShrinks
<1>19. CASE UNCHANGED vars
  <2>1. UNCHANGED <<store, uidNext>>
    BY <1>19 DEF vars
  <2> QED BY <2>1, StoreShrinks
<1> QED
  BY <1>1, <1>2, <1>3, <1>4, <1>5, <1>6, <1>7, <1>8, <1>9, <1>10,
     <1>11, <1>12, <1>13, <1>14, <1>15, <1>16, <1>17, <1>18, <1>19
     DEF Next, Acts, Folders, RequestStep

(* Names stay.                                                             *)
LEMMA NamesStay ==
  ASSUME Types, Stored', StoreGrows, named' = named PROVE Naming'
<1>1. ASSUME NEW b \in Boxes, named'[b] # NoName PROVE uidNext'[b] # 0
  <2>1. uidNext[b] # 0 /\ uidNext[b] <= uidNext'[b] /\ uidNext[b] \in Nat /\ uidNext'[b] \in Nat
    BY <1>1 DEF Types, Naming, Stored, StoreGrows
  <2> QED BY <2>1
<1> QED BY <1>1 DEF Types, Naming

(* One mailbox gets or loses a name.                                       *)
LEMMA NameChanges ==
  ASSUME Types, Stored', StoreGrows, NEW b \in Boxes, NEW v \in Names \cup {NoName},
         v # NoName => ~Exists(v) /\ uidNext'[b] # 0, named' = [named EXCEPT ![b] = v]
  PROVE  Naming'
<1>1. ASSUME NEW c \in Boxes, named'[c] # NoName PROVE uidNext'[c] # 0
  <2>1. CASE c = b
    BY <1>1, <2>1 DEF Types, Naming
  <2>2. CASE c # b
    <3>1. uidNext[c] # 0 /\ uidNext[c] <= uidNext'[c] /\ uidNext[c] \in Nat /\ uidNext'[c] \in Nat
      BY <1>1, <2>2 DEF Types, Naming, Stored, StoreGrows
    <3> QED BY <3>1
  <2> QED BY <2>1, <2>2
<1>2. named' \in [Boxes -> Names \cup {NoName}]
  BY DEF Types, Naming
<1>3. \A c, e \in Boxes : named'[c] = named'[e] /\ named'[c] # NoName => c = e
  BY DEF Types, Naming, Exists
<1> QED BY <1>1, <1>2, <1>3 DEF Naming

(* No step gives two mailboxes one name.                                   *)
LEMMA NamingNext == Types /\ [Next]_vars => Naming'
<1> SUFFICES ASSUME Types, [Next]_vars PROVE Naming'
  OBVIOUS
<1>0. Stored' /\ StoreGrows
  BY StoreNext
<1> USE DEF history, count
<1>1. ASSUME NEW p \in Requests, NEW n \in Names, List(p, n)
      PROVE  Naming'
  <2>1. named' = named
    BY <1>1 DEF List
  <2> QED BY <1>0, <2>1, NamesStay
<1>2. ASSUME NEW p \in Requests, NEW n \in Names, NEW uids \in SUBSET shown[n],
             TrashMails(p, n, uids) \/ \E dest \in Names : Move(p, n, dest, uids)
      PROVE  Naming'
  <2>1. named' = named
    BY <1>2 DEF TrashMails, Move, Begin
  <2> QED BY <1>0, <2>1, NamesStay
<1>3. ASSUME NEW p \in Requests, Empty(p)
      PROVE  Naming'
  <2>1. named' = named
    BY <1>3 DEF Empty
  <2> QED BY <1>0, <2>1, NamesStay
<1>4. ASSUME NEW p \in Requests, LoadFromCache(p)
      PROVE  Naming'
  <2>1. named' = named
    BY <1>4 DEF LoadFromCache, Lookup
  <2> QED BY <1>0, <2>1, NamesStay
<1>5. ASSUME NEW p \in Requests, FetchHeaders(p)
      PROVE  Naming'
  <2>1. named' = named
    BY <1>5 DEF FetchHeaders
  <2> QED BY <1>0, <2>1, NamesStay
<1>6. ASSUME NEW p \in Requests, Import(p)
      PROVE  Naming'
  <2>1. named' = named
    BY <1>6 DEF Import
  <2> QED BY <1>0, <2>1, NamesStay
<1>7. ASSUME NEW p \in Requests, MoveAll(p)
      PROVE  Naming'
  <2>1. named' = named
    BY <1>7 DEF MoveAll
  <2> QED BY <1>0, <2>1, NamesStay
<1>8. ASSUME NEW p \in Requests, StoreDeleted(p)
      PROVE  Naming'
  <2>1. named' = named
    BY <1>8 DEF StoreDeleted
  <2> QED BY <1>0, <2>1, NamesStay
<1>9. ASSUME NEW p \in Requests, DeleteAll(p)
      PROVE  Naming'
  <2>1. named' = named
    BY <1>9 DEF DeleteAll
  <2> QED BY <1>0, <2>1, NamesStay
<1>10. ASSUME NEW p \in Requests, ExpungeBox(p)
      PROVE  Naming'
  <2>1. named' = named
    BY <1>10 DEF ExpungeBox
  <2> QED BY <1>0, <2>1, NamesStay
<1>11. ASSUME NEW p \in Requests, NEW n \in job[p].todo, EmptyFolder(p, n)
      PROVE  Naming'
  <2>1. \/ named' = named
        \/ Exists(n) /\ named' = [named EXCEPT ![BoxOf(n)] = NoName]
    BY <1>11 DEF EmptyFolder, Drop
  <2> QED BY <1>0, <2>1, NamesStay, NameChanges, BoxOfFacts
<1>12. ASSUME NEW p \in Requests, EmptyMails(p)
      PROVE  Naming'
  <2>1. named' = named
    BY <1>12 DEF EmptyMails
  <2> QED BY <1>0, <2>1, NamesStay
<1>13. ASSUME NEW p \in Requests, Fault(p)
      PROVE  Naming'
  <2>1. named' = named
    BY <1>13 DEF Fault
  <2> QED BY <1>0, <2>1, NamesStay
<1>14. ASSUME NEW n \in Names, NEW uids \in SUBSET shown[n], NEW dest \in Names, CopyMails(n, dest, uids)
      PROVE  Naming'
  <2>1. named' = named
    BY <1>14 DEF CopyMails
  <2> QED BY <1>0, <2>1, NamesStay
<1>15. ASSUME NEW n \in Names, NEW new \in Names, RenameFolder(n, new)
      PROVE  Naming'
  <2>1. /\ Exists(n) /\ ~Exists(new) /\ uidNext' = uidNext
        /\ named' = [named EXCEPT ![BoxOf(n)] = new]
    BY <1>15 DEF RenameFolder, Renaming
  <2>2. BoxOf(n) \in Boxes /\ uidNext[BoxOf(n)] # 0
    BY <2>1, BoxOfFacts, MailCacheAssumption DEF Types, Naming
  <2> QED BY <1>0, <2>1, <2>2, NameChanges
<1>16. ASSUME NEW n \in Names, NEW b \in Boxes, CreateFolder(n, b)
      PROVE  Naming'
  <2>1. ~Exists(n) /\ named' = [named EXCEPT ![b] = n] /\ uidNext' = [uidNext EXCEPT ![b] = 1]
    BY <1>16 DEF CreateFolder
  <2>2. uidNext'[b] # 0
    BY <2>1 DEF Types, Stored
  <2> QED BY <1>0, <2>1, <2>2, NameChanges
<1>17. ASSUME NEW n \in Names, NEW b \in Boxes, Replace(n, b)
      PROVE  Naming'
  <2> DEFINE old == BoxOf(n)
  <2>1. /\ Exists(n) /\ uidNext[b] = 0 /\ uidNext' = [uidNext EXCEPT ![b] = 1]
        /\ named' = [named EXCEPT ![old] = NoName, ![b] = n]
    BY <1>17 DEF Replace
  <2>2. old \in Boxes /\ named[old] = n /\ n # NoName
    BY <2>1, BoxOfFacts, MailCacheAssumption
  <2> HIDE DEF old
  <2>3. named' \in [Boxes -> Names \cup {NoName}]
    BY <2>1, <2>2 DEF Types, Naming
  <2>4. old # b /\ named'[b] = n /\ named'[old] = NoName /\ \A c \in Boxes \ {old, b} : named'[c] = named[c]
    BY <2>1, <2>2 DEF Types, Naming
  <2>5. \A c, e \in Boxes : named'[c] = named'[e] /\ named'[c] # NoName => c = e
    BY <2>2, <2>4 DEF Types, Naming
  <2>6. \A c \in Boxes : named'[c] # NoName => uidNext'[c] # 0
    BY <2>1, <2>2, <2>4 DEF Types, Naming, Stored
  <2> QED BY <2>3, <2>5, <2>6 DEF Naming
<1>18. ASSUME NEW n \in Names, DeleteFolder(n)
      PROVE  Naming'
  <2>1. \/ named' = named
        \/ Exists(n) /\ named' = [named EXCEPT ![BoxOf(n)] = NoName]
    BY <1>18 DEF DeleteFolder, Drop
  <2> QED BY <1>0, <2>1, NamesStay, NameChanges, BoxOfFacts
<1>19. CASE UNCHANGED vars
  <2>1. named' = named
    BY <1>19 DEF vars
  <2> QED BY <1>0, <2>1, NamesStay
<1> QED
  BY <1>1, <1>2, <1>3, <1>4, <1>5, <1>6, <1>7, <1>8, <1>9, <1>10,
     <1>11, <1>12, <1>13, <1>14, <1>15, <1>16, <1>17, <1>18, <1>19
     DEF Next, Acts, Folders, RequestStep

(* A request takes a step of its own.                                      *)
LEMMA TaskMoves ==
  ASSUME Tasks, NEW p \in Requests, NEW l, NEW j,
         pc' = [pc EXCEPT ![p] = l], job' = [job EXCEPT ![p] = j], shown' \in [Names -> SUBSET Nat],
         DOMAIN j = Fields, j.box \in Boxes, j.uids \subseteq Nat, j.todo \subseteq Names,
         l # "idle" => j.name \in Names, l = "move" => j.dest \in Names
  PROVE  Tasks'
<1>1. DOMAIN pc' = Requests /\ DOMAIN job' = Requests
  BY DEF Tasks
<1>2. /\ pc'[p] = l /\ job'[p] = j
      /\ \A q \in Requests \ {p} : pc'[q] = pc[q] /\ job'[q] = job[q]
  BY DEF Tasks
<1> QED BY <1>1, <1>2 DEF Tasks

(* A request ends.                                                         *)
LEMMA TaskEnds ==
  ASSUME Tasks, NEW p \in Requests, Leave(p), shown' \in [Names -> SUBSET Nat] PROVE Tasks'
<1>1. pc' = [pc EXCEPT ![p] = "idle"] /\ job' = [job EXCEPT ![p] = NoJob]
  BY DEF Leave, Goto
<1> QED BY <1>1, TaskMoves, NoJobFields

(* What a job consists of.                                                 *)
LEMMA TaskFields ==
  ASSUME Tasks, NEW p \in Requests
  PROVE  /\ DOMAIN job[p] = Fields /\ job[p].box \in Boxes
         /\ job[p].uids \subseteq Nat /\ job[p].todo \subseteq Names
         /\ pc[p] # "idle" => job[p].name \in Names
         /\ pc[p] = "move" => job[p].dest \in Names
  BY DEF Tasks

(* A list is shown.                                                        *)
LEMMA ShownGrows ==
  ASSUME Tasks, NEW p \in Requests, pc[p] # "idle", Show(p) PROVE shown' \in [Names -> SUBSET Nat]
<1>1. job[p].name \in Names /\ job[p].uids \subseteq Nat
  BY DEF Tasks
<1> QED BY <1>1 DEF Show, Tasks

(* The UIDs that SEARCH returns are numbers.                               *)
LEMMA VisibleUids ==
  ASSUME Stored, NEW b PROVE UidsOf(Visible(b)) \subseteq Nat
  BY DEF UidsOf, Visible, Stored, Message

(* Every step keeps the requests in shape.                                 *)
LEMMA TasksNext == Types /\ [Next]_vars => Tasks'
<1> SUFFICES ASSUME Types, [Next]_vars PROVE Tasks'
  OBVIOUS
<1>0. Tasks /\ Stored /\ shown \in [Names -> SUBSET Nat]
  BY DEF Types, Tasks
<1> USE DEF history, count
<1>1. ASSUME NEW p \in Requests, NEW n \in Names, List(p, n)
      PROVE  Tasks'
  <2> DEFINE j == [NoJob EXCEPT !.name = n, !.box = BoxOf(n), !.uids = UidsOf(Visible(BoxOf(n)))]
  <2>1. /\ Exists(n) /\ pc' = [pc EXCEPT ![p] = "select"] /\ job' = [job EXCEPT ![p] = j] /\ shown' = shown
    BY <1>1 DEF List, Goto
  <2>2. BoxOf(n) \in Boxes /\ UidsOf(Visible(BoxOf(n))) \subseteq Nat
    BY <1>0, <2>1, BoxOfFacts, VisibleUids
  <2>3. /\ DOMAIN j = Fields /\ j.box \in Boxes /\ j.uids \subseteq Nat
        /\ j.todo \subseteq Names /\ j.name = n
    BY <2>2, InboxAssumption DEF NoJob, Fields
  <2> HIDE DEF j
  <2> QED BY <1>0, <2>1, <2>3, TaskMoves
<1>2. ASSUME NEW p \in Requests, NEW n \in Names, NEW uids \in SUBSET shown[n],
             TrashMails(p, n, uids) \/ \E dest \in Names : Move(p, n, dest, uids)
      PROVE  Tasks'
  <2>1. uids \subseteq Nat
    BY <1>0
  <2>2. ASSUME NEW dest \in Names, Move(p, n, dest, uids) PROVE Tasks'
    <3> DEFINE j == [NoJob EXCEPT !.name = n, !.uids = uids, !.dest = dest]
    <3>1. pc' = [pc EXCEPT ![p] = "move"] /\ job' = [job EXCEPT ![p] = j] /\ shown' = shown
      BY <2>2 DEF Move, Begin, Goto
    <3>2. /\ DOMAIN j = Fields /\ j.box \in Boxes /\ j.uids \subseteq Nat
          /\ j.todo \subseteq Names /\ j.name = n
      BY <2>1, InboxAssumption DEF NoJob, Fields
    <3>3. j.dest = dest
      BY DEF NoJob
    <3> HIDE DEF j
    <3> QED BY <1>0, <3>1, <3>2, <3>3, TaskMoves
  <2>3. ASSUME Begin(p, "delete", [NoJob EXCEPT !.name = n, !.uids = uids]) PROVE Tasks'
    <3> DEFINE j == [NoJob EXCEPT !.name = n, !.uids = uids]
    <3>1. pc' = [pc EXCEPT ![p] = "delete"] /\ job' = [job EXCEPT ![p] = j] /\ shown' = shown
      BY <2>3 DEF Begin, Goto
    <3>2. /\ DOMAIN j = Fields /\ j.box \in Boxes /\ j.uids \subseteq Nat
          /\ j.todo \subseteq Names /\ j.name = n
      BY <2>1, InboxAssumption DEF NoJob, Fields
    <3> HIDE DEF j
    <3> QED BY <1>0, <3>1, <3>2, TaskMoves
  <2>4. Trash \in Names
    BY MailCacheAssumption
  <2> QED BY <1>2, <2>2, <2>3, <2>4 DEF TrashMails
<1>3. ASSUME NEW p \in Requests, Empty(p)
      PROVE  Tasks'
  <2> DEFINE todo == {n \in InTrash \ {Trash} : Exists(n)}
             j == [NoJob EXCEPT !.name = Trash, !.todo = todo]
  <2>1. pc' = [pc EXCEPT ![p] = "empty"] /\ job' = [job EXCEPT ![p] = j] /\ shown' = shown
    BY <1>3 DEF Empty, Goto
  <2>2. Trash \in Names /\ todo \subseteq Names
    BY MailCacheAssumption
  <2> HIDE DEF todo
  <2>3. /\ DOMAIN j = Fields /\ j.box \in Boxes /\ j.uids \subseteq Nat
        /\ j.todo \subseteq Names /\ j.name = Trash
    BY <2>2, InboxAssumption DEF NoJob, Fields
  <2> HIDE DEF j
  <2> QED BY <1>0, <2>1, <2>2, <2>3, TaskMoves
<1>4. ASSUME NEW p \in Requests, LoadFromCache(p)
      PROVE  Tasks'
  <2>1. CASE Leave(p) /\ Show(p)
    BY <1>0, <1>4, <2>1, TaskEnds, ShownGrows DEF LoadFromCache, Lookup
  <2>2. CASE ~(Leave(p) /\ Show(p))
    <3>1. PICK missing : /\ pc[p] = "select" /\ pc' = [pc EXCEPT ![p] = "fetch"] /\ shown' = shown
                         /\ job' = [job EXCEPT ![p].want = missing]
      BY <1>4, <2>2 DEF LoadFromCache, Lookup, Goto
    <3> DEFINE j == [job[p] EXCEPT !.want = missing]
    <3>2. /\ DOMAIN j = Fields /\ j.box \in Boxes /\ j.uids \subseteq Nat
          /\ j.todo \subseteq Names /\ j.name = job[p].name
      BY <1>0, TaskFields DEF Fields
    <3>3. job' = [job EXCEPT ![p] = j]
      BY <3>1
    <3> HIDE DEF j
    <3> QED BY <1>0, <3>1, <3>2, <3>3, TaskMoves, TaskFields
  <2> QED BY <2>1, <2>2
<1>5. ASSUME NEW p \in Requests, FetchHeaders(p)
      PROVE  Tasks'
  <2>1. CASE Leave(p)
    BY <1>0, <1>5, <2>1, TaskEnds DEF FetchHeaders
  <2>2. CASE ~Leave(p)
    <3> DEFINE j == [job[p] EXCEPT !.got = Named(store, job[p].box, job[p].want)]
    <3>1. /\ pc[p] = "fetch" /\ pc' = [pc EXCEPT ![p] = "import"] /\ shown' = shown
          /\ job' = [job EXCEPT ![p] = j]
      BY <1>5, <2>2 DEF FetchHeaders, Goto
    <3>2. /\ DOMAIN j = Fields /\ j.box \in Boxes /\ j.uids \subseteq Nat
          /\ j.todo \subseteq Names /\ j.name = job[p].name
      BY <1>0, TaskFields DEF Fields
    <3> HIDE DEF j
    <3> QED BY <1>0, <3>1, <3>2, TaskMoves, TaskFields
  <2> QED BY <2>1, <2>2
<1>6. ASSUME NEW p \in Requests, Import(p)
      PROVE  Tasks'
  BY <1>0, <1>6, TaskEnds, ShownGrows DEF Import
<1>7. ASSUME NEW p \in Requests, MoveAll(p)
      PROVE  Tasks'
  <2>1. CASE Leave(p)
    BY <1>0, <1>7, <2>1, TaskEnds DEF MoveAll
  <2>2. CASE ~Leave(p)
    <3> DEFINE b == BoxOf(job[p].name)
               j == [job[p] EXCEPT !.box = b]
    <3>1. /\ pc[p] = "move" /\ pc' = [pc EXCEPT ![p] = "store"] /\ shown' = shown
          /\ job' = [job EXCEPT ![p] = j] /\ Exists(job[p].name)
      BY <1>7, <2>2 DEF MoveAll, Goto
    <3>2. b \in Boxes
      BY <3>1, BoxOfFacts
    <3> HIDE DEF b
    <3>3. /\ DOMAIN j = Fields /\ j.box \in Boxes /\ j.uids \subseteq Nat
          /\ j.todo \subseteq Names /\ j.name = job[p].name
      BY <1>0, <3>2, TaskFields DEF Fields
    <3> HIDE DEF j
    <3> QED BY <1>0, <3>1, <3>3, TaskMoves, TaskFields
  <2> QED BY <2>1, <2>2
<1>8. ASSUME NEW p \in Requests, StoreDeleted(p)
      PROVE  Tasks'
  <2>1. CASE Leave(p)
    BY <1>0, <1>8, <2>1, TaskEnds DEF StoreDeleted
  <2>2. CASE ~Leave(p)
    <3>1. /\ pc[p] = "store" /\ pc' = [pc EXCEPT ![p] = "expunge"] /\ shown' = shown /\ job' = job
      BY <1>8, <2>2 DEF StoreDeleted, Goto
    <3> QED BY <1>0, <3>1 DEF Tasks
  <2> QED BY <2>1, <2>2
<1>9. ASSUME NEW p \in Requests, DeleteAll(p)
      PROVE  Tasks'
  <2>1. CASE Leave(p)
    BY <1>0, <1>9, <2>1, TaskEnds DEF DeleteAll
  <2>2. CASE ~Leave(p)
    <3> DEFINE b == BoxOf(job[p].name)
               j == [job[p] EXCEPT !.box = b]
    <3>1. /\ pc[p] = "delete" /\ pc' = [pc EXCEPT ![p] = "expunge"] /\ shown' = shown
          /\ job' = [job EXCEPT ![p] = j] /\ Exists(job[p].name)
      BY <1>9, <2>2 DEF DeleteAll, Goto
    <3>2. b \in Boxes
      BY <3>1, BoxOfFacts
    <3> HIDE DEF b
    <3>3. /\ DOMAIN j = Fields /\ j.box \in Boxes /\ j.uids \subseteq Nat
          /\ j.todo \subseteq Names /\ j.name = job[p].name
      BY <1>0, <3>2, TaskFields DEF Fields
    <3> HIDE DEF j
    <3> QED BY <1>0, <3>1, <3>3, TaskMoves, TaskFields
  <2> QED BY <2>1, <2>2
<1>10. ASSUME NEW p \in Requests, ExpungeBox(p)
      PROVE  Tasks'
  BY <1>0, <1>10, TaskEnds DEF ExpungeBox
<1>11. ASSUME NEW p \in Requests, NEW n \in job[p].todo, EmptyFolder(p, n)
      PROVE  Tasks'
  <2>1. CASE Leave(p)
    BY <1>0, <1>11, <2>1, TaskEnds DEF EmptyFolder
  <2>2. CASE ~Leave(p)
    <3> DEFINE j == [job[p] EXCEPT !.todo = @ \ {n}]
    <3>1. /\ pc' = pc /\ shown' = shown /\ job' = [job EXCEPT ![p] = j]
      BY <1>11, <2>2 DEF EmptyFolder, Drop
    <3>2. /\ DOMAIN j = Fields /\ j.box \in Boxes /\ j.uids \subseteq Nat /\ j.todo \subseteq Names
          /\ j.name = job[p].name /\ j.dest = job[p].dest
      BY <1>0, TaskFields DEF Fields
    <3> HIDE DEF j
    <3>3. job'[p] = j /\ DOMAIN job' = Requests /\ \A q \in Requests \ {p} : job'[q] = job[q]
      BY <1>0, <3>1 DEF Tasks
    <3> QED BY <1>0, <3>1, <3>2, <3>3 DEF Tasks
  <2> QED BY <2>1, <2>2
<1>12. ASSUME NEW p \in Requests, EmptyMails(p)
      PROVE  Tasks'
  <2> DEFINE uids == UidsOf(Visible(BoxOf(Trash)))
             j == [job[p] EXCEPT !.uids = uids]
  <2>1. CASE Leave(p)
    BY <1>0, <1>12, <2>1, TaskEnds DEF EmptyMails
  <2>2. CASE ~Leave(p)
    <3>1. /\ pc[p] = "empty" /\ pc' = [pc EXCEPT ![p] = "delete"] /\ shown' = shown
          /\ job' = [job EXCEPT ![p] = j]
      BY <1>12, <2>2 DEF EmptyMails, Goto
    <3>2. uids \subseteq Nat
      BY <1>0, VisibleUids
    <3> HIDE DEF uids
    <3>3. /\ DOMAIN j = Fields /\ j.box \in Boxes /\ j.uids \subseteq Nat
          /\ j.todo \subseteq Names /\ j.name = job[p].name
      BY <1>0, <3>2, TaskFields DEF Fields
    <3> HIDE DEF j
    <3> QED BY <1>0, <3>1, <3>3, TaskMoves, TaskFields
  <2> QED BY <2>1, <2>2
<1>13. ASSUME NEW p \in Requests, Fault(p)
      PROVE  Tasks'
  BY <1>0, <1>13, TaskEnds DEF Fault
<1>14. ASSUME NEW n \in Names, NEW uids \in SUBSET shown[n], NEW dest \in Names, CopyMails(n, dest, uids)
      PROVE  Tasks'
  <2>1. pc' = pc /\ job' = job /\ shown' = shown
    BY <1>14 DEF CopyMails
  <2> QED BY <1>0, <2>1 DEF Tasks
<1>15. ASSUME NEW n \in Names, NEW new \in Names, RenameFolder(n, new)
      PROVE  Tasks'
  <2>1. pc' = pc /\ job' = job /\ shown' = shown
    BY <1>15 DEF RenameFolder, Renaming
  <2> QED BY <1>0, <2>1 DEF Tasks
<1>16. ASSUME NEW n \in Names, NEW b \in Boxes, CreateFolder(n, b)
      PROVE  Tasks'
  <2>1. pc' = pc /\ job' = job /\ shown' = shown
    BY <1>16 DEF CreateFolder
  <2> QED BY <1>0, <2>1 DEF Tasks
<1>17. ASSUME NEW n \in Names, NEW b \in Boxes, Replace(n, b)
      PROVE  Tasks'
  <2>1. pc' = pc /\ job' = job /\ shown' = shown
    BY <1>17 DEF Replace
  <2> QED BY <1>0, <2>1 DEF Tasks
<1>18. ASSUME NEW n \in Names, DeleteFolder(n)
      PROVE  Tasks'
  <2>1. pc' = pc /\ job' = job /\ shown' = shown
    BY <1>18 DEF DeleteFolder, Drop
  <2> QED BY <1>0, <2>1 DEF Tasks
<1>19. CASE UNCHANGED vars
  <2>1. pc' = pc /\ job' = job /\ shown' = shown
    BY <1>19 DEF vars
  <2> QED BY <1>0, <2>1 DEF Tasks
<1> QED
  BY <1>1, <1>2, <1>3, <1>4, <1>5, <1>6, <1>7, <1>8, <1>9, <1>10,
     <1>11, <1>12, <1>13, <1>14, <1>15, <1>16, <1>17, <1>18, <1>19
     DEF Next, Acts, Folders, RequestStep

(* A header that is right stays right.                                     *)
LEMMA RightStays ==
  ASSUME Stored, Stored', StoreGrows, NEW b \in Boxes, NEW uid \in Nat, NEW mail, Right(b, uid, mail)
  PROVE  uid < uidNext'[b] /\ \A r \in store' : r.box = b /\ r.uid = uid => r.mail = mail
<1>1. uid < uidNext[b] /\ uidNext[b] <= uidNext'[b] /\ uidNext[b] \in Nat /\ uidNext'[b] \in Nat
  BY DEF Stored, StoreGrows, Right
<1>2. ASSUME NEW r \in store', r.box = b, r.uid = uid PROVE r.mail = mail
  <2>1. ~(uidNext[b] <= uid)
    BY <1>1
  <2>2. \E q \in store : q.box = r.box /\ q.uid = r.uid /\ q.mail = r.mail
    BY <1>2, <2>1 DEF StoreGrows
  <2> QED BY <1>2, <2>2 DEF Right
<1> QED BY <1>1, <1>2

(* What the requests have fetched stays.                                   *)
FetchesStay == \A q \in Requests : pc'[q] = "import" => pc[q] = "import" /\ job'[q] = job[q]

(* Then what they have fetched stays right.                                *)
LEMMA FetchedStays ==
  ASSUME Types, Stored', StoreGrows, Fetched, FetchesStay PROVE Fetched'
<1> SUFFICES ASSUME NEW q \in Requests, pc'[q] = "import", NEW g \in job'[q].got
             PROVE  g.uid \in Nat /\ Right(job[q].box, g.uid, g.mail)'
  BY DEF Fetched
<1>1. pc[q] = "import" /\ job'[q] = job[q] /\ g \in job[q].got
  BY DEF FetchesStay
<1>2. g.uid \in Nat /\ Right(job[q].box, g.uid, g.mail) /\ job[q].box \in Boxes
  BY <1>1 DEF Fetched, Types, Tasks
<1>3. g.uid < uidNext'[job[q].box] /\ \A r \in store' : r.box = job[q].box /\ r.uid = g.uid => r.mail = g.mail
  BY <1>2, RightStays DEF Types
<1> QED BY <1>1, <1>2, <1>3 DEF Right

(* Every step keeps what has been fetched right.                           *)
LEMMA FetchedNext == Types /\ Fetched /\ [Next]_vars => Fetched'
<1> SUFFICES ASSUME Types, Fetched, [Next]_vars PROVE Fetched'
  OBVIOUS
<1>0. Tasks /\ Stored /\ Types /\ Fetched /\ Stored' /\ StoreGrows
  BY StoreNext DEF Types
<1> USE DEF history, count
<1>1. ASSUME NEW p \in Requests, NEW n \in Names, List(p, n)
      PROVE  Fetched'
  <2>1. FetchesStay
    BY <1>0, <1>1 DEF FetchesStay, Tasks, List, Goto
  <2> QED BY <1>0, <2>1, FetchedStays
<1>2. ASSUME NEW p \in Requests, NEW n \in Names, NEW uids \in SUBSET shown[n],
             TrashMails(p, n, uids) \/ \E dest \in Names : Move(p, n, dest, uids)
      PROVE  Fetched'
  <2>1. FetchesStay
    BY <1>0, <1>2 DEF FetchesStay, Tasks, TrashMails, Move, Begin, Goto
  <2> QED BY <1>0, <2>1, FetchedStays
<1>3. ASSUME NEW p \in Requests, Empty(p)
      PROVE  Fetched'
  <2>1. FetchesStay
    BY <1>0, <1>3 DEF FetchesStay, Tasks, Empty, Goto
  <2> QED BY <1>0, <2>1, FetchedStays
<1>4. ASSUME NEW p \in Requests, LoadFromCache(p)
      PROVE  Fetched'
  <2>1. FetchesStay
    BY <1>0, <1>4 DEF FetchesStay, Tasks, LoadFromCache, Lookup, Goto, Leave
  <2> QED BY <1>0, <2>1, FetchedStays
<1>5. ASSUME NEW p \in Requests, FetchHeaders(p)
      PROVE  Fetched'
  <2>1. CASE Leave(p)
    <3>1. FetchesStay
      BY <1>0, <2>1 DEF FetchesStay, Tasks, Leave, Goto
    <3> QED BY <1>0, <3>1, FetchedStays
  <2>2. CASE ~Leave(p)
    <3>1. /\ store' = store /\ uidNext' = uidNext /\ job[p].box \in Boxes
          /\ job'[p].got = Named(store, job[p].box, job[p].want) /\ job'[p].box = job[p].box
          /\ \A q \in Requests \ {p} : pc'[q] = pc[q] /\ job'[q] = job[q]
      BY <1>0, <1>5, <2>2 DEF FetchHeaders, Goto, Tasks, Fields
    <3>2. ASSUME NEW g \in job'[p].got
          PROVE  g.uid \in Nat /\ Right(job[p].box, g.uid, g.mail)
      BY <1>0, <3>1, <3>2 DEF Named, Stored, Message, Right
    <3>3. ASSUME NEW q \in Requests, pc'[q] = "import", NEW g \in job'[q].got
          PROVE  g.uid \in Nat /\ Right(job[q].box, g.uid, g.mail) /\ job'[q].box = job[q].box
      <4>1. CASE q = p
        BY <3>1, <3>2, <4>1
      <4>2. CASE q # p
        BY <1>0, <3>1, <3>3, <4>2 DEF Fetched
      <4> QED BY <4>1, <4>2
    <3> QED BY <3>1, <3>3 DEF Fetched, Right
  <2> QED BY <2>1, <2>2
<1>6. ASSUME NEW p \in Requests, Import(p)
      PROVE  Fetched'
  <2>1. FetchesStay
    BY <1>0, <1>6 DEF FetchesStay, Tasks, Import, Leave, Goto
  <2> QED BY <1>0, <2>1, FetchedStays
<1>7. ASSUME NEW p \in Requests, MoveAll(p)
      PROVE  Fetched'
  <2>1. FetchesStay
    BY <1>0, <1>7 DEF FetchesStay, Tasks, MoveAll, Leave, Goto
  <2> QED BY <1>0, <2>1, FetchedStays
<1>8. ASSUME NEW p \in Requests, StoreDeleted(p)
      PROVE  Fetched'
  <2>1. FetchesStay
    BY <1>0, <1>8 DEF FetchesStay, Tasks, StoreDeleted, Leave, Goto
  <2> QED BY <1>0, <2>1, FetchedStays
<1>9. ASSUME NEW p \in Requests, DeleteAll(p)
      PROVE  Fetched'
  <2>1. FetchesStay
    BY <1>0, <1>9 DEF FetchesStay, Tasks, DeleteAll, Leave, Goto
  <2> QED BY <1>0, <2>1, FetchedStays
<1>10. ASSUME NEW p \in Requests, ExpungeBox(p)
      PROVE  Fetched'
  <2>1. FetchesStay
    BY <1>0, <1>10 DEF FetchesStay, Tasks, ExpungeBox, Leave, Goto
  <2> QED BY <1>0, <2>1, FetchedStays
<1>11. ASSUME NEW p \in Requests, NEW n \in job[p].todo, EmptyFolder(p, n)
      PROVE  Fetched'
  <2>1. FetchesStay
    <3>1. CASE Leave(p)
      BY <1>0, <1>11, <3>1 DEF FetchesStay, Tasks, Leave, Goto
    <3>2. CASE ~Leave(p)
      <4>1. pc[p] = "empty" /\ pc' = pc /\ \A q \in Requests \ {p} : job'[q] = job[q]
        BY <1>0, <1>11, <3>2 DEF EmptyFolder, Tasks
      <4> QED BY <4>1 DEF FetchesStay
    <3> QED BY <3>1, <3>2
  <2> QED BY <1>0, <2>1, FetchedStays
<1>12. ASSUME NEW p \in Requests, EmptyMails(p)
      PROVE  Fetched'
  <2>1. FetchesStay
    BY <1>0, <1>12 DEF FetchesStay, Tasks, EmptyMails, Leave, Goto
  <2> QED BY <1>0, <2>1, FetchedStays
<1>13. ASSUME NEW p \in Requests, Fault(p)
      PROVE  Fetched'
  <2>1. FetchesStay
    BY <1>0, <1>13 DEF FetchesStay, Tasks, Fault, Leave, Goto
  <2> QED BY <1>0, <2>1, FetchedStays
<1>14. ASSUME NEW n \in Names, NEW uids \in SUBSET shown[n], NEW dest \in Names, CopyMails(n, dest, uids)
      PROVE  Fetched'
  <2>1. pc' = pc /\ job' = job
    BY <1>14 DEF CopyMails
  <2> QED BY <1>0, <2>1, FetchedStays DEF FetchesStay
<1>15. ASSUME NEW n \in Names, NEW new \in Names, RenameFolder(n, new)
      PROVE  Fetched'
  <2>1. pc' = pc /\ job' = job
    BY <1>15 DEF RenameFolder, Renaming
  <2> QED BY <1>0, <2>1, FetchedStays DEF FetchesStay
<1>16. ASSUME NEW n \in Names, NEW b \in Boxes, CreateFolder(n, b)
      PROVE  Fetched'
  <2>1. pc' = pc /\ job' = job
    BY <1>16 DEF CreateFolder
  <2> QED BY <1>0, <2>1, FetchedStays DEF FetchesStay
<1>17. ASSUME NEW n \in Names, NEW b \in Boxes, Replace(n, b)
      PROVE  Fetched'
  <2>1. pc' = pc /\ job' = job
    BY <1>17 DEF Replace
  <2> QED BY <1>0, <2>1, FetchedStays DEF FetchesStay
<1>18. ASSUME NEW n \in Names, DeleteFolder(n)
      PROVE  Fetched'
  <2>1. pc' = pc /\ job' = job
    BY <1>18 DEF DeleteFolder, Drop
  <2> QED BY <1>0, <2>1, FetchedStays DEF FetchesStay
<1>19. CASE UNCHANGED vars
  <2>1. pc' = pc /\ job' = job
    BY <1>19 DEF vars
  <2> QED BY <1>0, <2>1, FetchedStays DEF FetchesStay
<1> QED
  BY <1>1, <1>2, <1>3, <1>4, <1>5, <1>6, <1>7, <1>8, <1>9, <1>10,
     <1>11, <1>12, <1>13, <1>14, <1>15, <1>16, <1>17, <1>18, <1>19
     DEF Next, Acts, Folders, RequestStep

(* Cached headers are those that were there, under the name their mailbox  *)
(* has now.                                                                *)
NodesStay ==
  \A x \in nodes' : x.name \notin blurred' => \E y \in nodes :
    /\ y.uid = x.uid /\ y.mail = x.mail /\ y.name \notin blurred
    /\ y.name # NoName => x.name # NoName /\ \A b \in Boxes : named[b] = y.name => named'[b] = x.name

(* Then what is cached stays right.                                        *)
LEMMA CachedStays ==
  ASSUME Types, Stored', StoreGrows, Cached, NodesStay PROVE Cached'
<1> SUFFICES ASSUME NEW x \in nodes', x.name \notin blurred'
             PROVE  x.uid \in Nat /\ \E b \in Boxes : named'[b] = x.name /\ x.name # NoName
                                            /\ Right(b, x.uid, x.mail)'
  BY DEF Cached
<1>1. PICK y \in nodes :
        /\ y.uid = x.uid /\ y.mail = x.mail /\ y.name \notin blurred
        /\ y.name # NoName => x.name # NoName /\ \A b \in Boxes : named[b] = y.name => named'[b] = x.name
  BY DEF NodesStay
<1>2. y.uid \in Nat /\ \E b \in Boxes : named[b] = y.name /\ y.name # NoName /\ Right(b, y.uid, y.mail)
  BY <1>1 DEF Cached
<1>3. PICK b \in Boxes : named[b] = y.name /\ y.name # NoName /\ Right(b, y.uid, y.mail)
  BY <1>2
<1>4. x.uid < uidNext'[b] /\ \A r \in store' : r.box = b /\ r.uid = x.uid => r.mail = x.mail
  BY <1>1, <1>2, <1>3, RightStays DEF Types
<1>5. Right(b, x.uid, x.mail)'
  BY <1>4 DEF Right
<1> QED BY <1>1, <1>2, <1>3, <1>5

(* Every step keeps the cached headers right.                              *)
LEMMA CachedNext == Types /\ Fetched /\ Cached /\ [Next]_vars => Cached'
<1> SUFFICES ASSUME Types, Fetched, Cached, [Next]_vars PROVE Cached'
  OBVIOUS
<1>0. /\ Types /\ Naming /\ Tasks /\ Fetched /\ Cached
      /\ Stored' /\ StoreGrows
  BY StoreNext DEF Types
<1> USE DEF history, count
<1>1. ASSUME NEW p \in Requests, NEW n \in Names, List(p, n)
      PROVE  Cached'
  <2>1. nodes' \subseteq nodes /\ named' = named /\ blurred' = blurred
    BY <1>1 DEF List
  <2> QED BY <1>0, <2>1, CachedStays DEF NodesStay
<1>2. ASSUME NEW p \in Requests, NEW n \in Names, NEW uids \in SUBSET shown[n],
             TrashMails(p, n, uids) \/ \E dest \in Names : Move(p, n, dest, uids)
      PROVE  Cached'
  <2>1. nodes' \subseteq nodes /\ named' = named /\ blurred' = blurred
    BY <1>2 DEF TrashMails, Move, Begin
  <2> QED BY <1>0, <2>1, CachedStays DEF NodesStay
<1>3. ASSUME NEW p \in Requests, Empty(p)
      PROVE  Cached'
  <2>1. nodes' \subseteq nodes /\ named' = named /\ blurred' = blurred
    BY <1>3 DEF Empty
  <2> QED BY <1>0, <2>1, CachedStays DEF NodesStay
<1>4. ASSUME NEW p \in Requests, LoadFromCache(p)
      PROVE  Cached'
  <2>1. nodes' \subseteq nodes /\ named' = named /\ blurred' = blurred
    BY <1>4 DEF LoadFromCache, Lookup
  <2> QED BY <1>0, <2>1, CachedStays DEF NodesStay
<1>5. ASSUME NEW p \in Requests, FetchHeaders(p)
      PROVE  Cached'
  <2>1. nodes' \subseteq nodes /\ named' = named /\ blurred' = blurred
    BY <1>5 DEF FetchHeaders
  <2> QED BY <1>0, <2>1, CachedStays DEF NodesStay
<1>6. ASSUME NEW p \in Requests, Import(p)
      PROVE  Cached'
  <2> DEFINE n == job[p].name
             b == job[p].box
             fresh == {[name |-> n, uid |-> g.uid, mail |-> g.mail, by |-> p] : g \in job[p].got}
  <2>1. /\ pc[p] = "import" /\ nodes' = nodes \cup fresh /\ named' = named
        /\ blurred' = IF named[b] = n THEN blurred ELSE blurred \cup {n}
    BY <1>6 DEF Import
  <2>2. n \in Names /\ n # NoName /\ b \in Boxes
    BY <1>0, <2>1, MailCacheAssumption DEF Tasks
  <2>3. \A g \in job[p].got : g.uid \in Nat /\ Right(b, g.uid, g.mail)
    BY <1>0, <2>1 DEF Fetched
  <2>4. store' = store /\ uidNext' = uidNext
    BY <1>6 DEF Import
  <2>5. \A x \in fresh : x.name = n /\ \E g \in job[p].got : x.uid = g.uid /\ x.mail = g.mail
    OBVIOUS
  <2> HIDE DEF n, b, fresh
  <2>6. \A x \in fresh : x.uid \in Nat /\ Right(b, x.uid, x.mail)
    BY <2>3, <2>5
  <2>7. \A x \in fresh : x.name \notin blurred' => named'[b] = x.name
    BY <2>1, <2>5
  <2>8. \A c \in Boxes : \A uid, mail : Right(c, uid, mail) = (Right(c, uid, mail))'
    BY <2>4 DEF Right
  <2>9. \A x \in nodes : x.name \notin blurred' => x.name \notin blurred
    BY <2>1
  <2> QED BY <1>0, <2>1, <2>2, <2>4, <2>5, <2>6, <2>7, <2>9 DEF Cached, Right
<1>7. ASSUME NEW p \in Requests, MoveAll(p)
      PROVE  Cached'
  <2>1. nodes' \subseteq nodes /\ named' = named /\ blurred' = blurred
    BY <1>7 DEF MoveAll
  <2> QED BY <1>0, <2>1, CachedStays DEF NodesStay
<1>8. ASSUME NEW p \in Requests, StoreDeleted(p)
      PROVE  Cached'
  <2>1. nodes' \subseteq nodes /\ named' = named /\ blurred' = blurred
    BY <1>8 DEF StoreDeleted
  <2> QED BY <1>0, <2>1, CachedStays DEF NodesStay
<1>9. ASSUME NEW p \in Requests, DeleteAll(p)
      PROVE  Cached'
  <2>1. nodes' \subseteq nodes /\ named' = named /\ blurred' = blurred
    BY <1>9 DEF DeleteAll
  <2> QED BY <1>0, <2>1, CachedStays DEF NodesStay
<1>10. ASSUME NEW p \in Requests, ExpungeBox(p)
      PROVE  Cached'
  <2>1. nodes' \subseteq nodes /\ named' = named /\ blurred' = blurred
    BY <1>10 DEF ExpungeBox
  <2> QED BY <1>0, <2>1, CachedStays DEF NodesStay
<1>11. ASSUME NEW p \in Requests, NEW n \in job[p].todo, EmptyFolder(p, n)
      PROVE  Cached'
  <2>1. /\ blurred' = blurred
        /\ \/ nodes' = nodes /\ named' = named
           \/ /\ Exists(n) /\ nodes' = {x \in nodes : x.name # n}
              /\ named' = [named EXCEPT ![BoxOf(n)] = NoName]
    BY <1>11 DEF EmptyFolder, Drop
  <2> QED BY <1>0, <2>1, CachedStays, BoxOfFacts DEF NodesStay, Naming
<1>12. ASSUME NEW p \in Requests, EmptyMails(p)
      PROVE  Cached'
  <2>1. nodes' \subseteq nodes /\ named' = named /\ blurred' = blurred
    BY <1>12 DEF EmptyMails
  <2> QED BY <1>0, <2>1, CachedStays DEF NodesStay
<1>13. ASSUME NEW p \in Requests, Fault(p)
      PROVE  Cached'
  <2>1. nodes' \subseteq nodes /\ named' = named /\ blurred' = blurred
    BY <1>13 DEF Fault
  <2> QED BY <1>0, <2>1, CachedStays DEF NodesStay
<1>14. ASSUME NEW n \in Names, NEW uids \in SUBSET shown[n], NEW dest \in Names, CopyMails(n, dest, uids)
      PROVE  Cached'
  <2>1. nodes' \subseteq nodes /\ named' = named /\ blurred' = blurred
    BY <1>14 DEF CopyMails
  <2> QED BY <1>0, <2>1, CachedStays DEF NodesStay
<1>15. ASSUME NEW n \in Names, NEW new \in Names, RenameFolder(n, new)
      PROVE  Cached'
  <2> DEFINE c == BoxOf(n)
  <2>1. /\ Exists(n) /\ ~Exists(new) /\ named' = [named EXCEPT ![c] = new]
        /\ blurred' = IF n \in blurred THEN blurred \cup {new} ELSE blurred
        /\ nodes' = {IF x.name = n THEN [x EXCEPT !.name = new] ELSE x : x \in nodes}
    BY <1>15 DEF RenameFolder, Renaming
  <2>2. c \in Boxes /\ named[c] = n /\ new # NoName /\ n # NoName
    BY <2>1, BoxOfFacts, MailCacheAssumption
  <2>3. \A y \in nodes : \E b \in Boxes : y.name \notin blurred => named[b] = y.name
    BY <1>0, InboxAssumption DEF Cached
  <2> HIDE DEF c
  <2>4. ASSUME NEW x \in nodes', x.name \notin blurred'
        PROVE  \E y \in nodes :
                 /\ y.uid = x.uid /\ y.mail = x.mail /\ y.name \notin blurred
                 /\ y.name # NoName => x.name # NoName /\ \A b \in Boxes : named[b] = y.name => named'[b] = x.name
    <3>1. PICK y \in nodes : x = IF y.name = n THEN [y EXCEPT !.name = new] ELSE y
      BY <2>1
    <3>2. CASE y.name # n
      <4>1. y.name \notin blurred
        BY <2>1, <2>4, <3>1, <3>2
      <4> QED BY <1>0, <2>1, <2>2, <3>1, <3>2, <4>1 DEF Naming
    <3>3. CASE y.name = n
      <4>1. x = [y EXCEPT !.name = new] /\ x.uid = y.uid /\ x.mail = y.mail /\ x.name = new
        BY <3>1, <3>3
      <4>2. n \notin blurred
        BY <2>1, <2>4, <4>1
      <4>3. \A b \in Boxes : named[b] = n => named'[b] = new
        BY <1>0, <2>1, <2>2 DEF Naming
      <4> QED BY <2>2, <3>3, <4>1, <4>2, <4>3
    <3> QED BY <3>2, <3>3
  <2>5. NodesStay
    BY <2>4 DEF NodesStay
  <2> QED BY <1>0, <2>5, CachedStays
<1>16. ASSUME NEW n \in Names, NEW b \in Boxes, CreateFolder(n, b)
      PROVE  Cached'
  <2>1. uidNext[b] = 0 /\ nodes' = nodes /\ blurred' = blurred /\ named' = [named EXCEPT ![b] = n]
    BY <1>16 DEF CreateFolder
  <2>2. named[b] = NoName
    BY <1>0, <2>1 DEF Naming
  <2> QED BY <1>0, <2>1, <2>2, CachedStays DEF NodesStay, Naming
<1>17. ASSUME NEW n \in Names, NEW b \in Boxes, Replace(n, b)
      PROVE  Cached'
  <2>1. /\ Exists(n) /\ uidNext[b] = 0 /\ nodes' = nodes /\ blurred' = blurred \cup {n}
        /\ named' = [named EXCEPT ![BoxOf(n)] = NoName, ![b] = n]
    BY <1>17 DEF Replace
  <2>2. named[b] = NoName
    BY <1>0, <2>1 DEF Naming
  <2>3. \A c \in Boxes : named[c] # n /\ named[c] # NoName => named'[c] = named[c]
    BY <1>0, <2>1, <2>2, BoxOfFacts DEF Naming
  <2> QED BY <1>0, <2>1, <2>3, CachedStays DEF NodesStay
<1>18. ASSUME NEW n \in Names, DeleteFolder(n)
      PROVE  Cached'
  <2>1. /\ blurred' = blurred
        /\ \/ nodes' = nodes /\ named' = named
           \/ /\ Exists(n) /\ nodes' = {x \in nodes : x.name # n}
              /\ named' = [named EXCEPT ![BoxOf(n)] = NoName]
    BY <1>18 DEF DeleteFolder, Drop
  <2> QED BY <1>0, <2>1, CachedStays, BoxOfFacts DEF NodesStay, Naming
<1>19. CASE UNCHANGED vars
  <2>1. nodes' \subseteq nodes /\ named' = named /\ blurred' = blurred
    BY <1>19 DEF vars
  <2> QED BY <1>0, <2>1, CachedStays DEF NodesStay
<1> QED
  BY <1>1, <1>2, <1>3, <1>4, <1>5, <1>6, <1>7, <1>8, <1>9, <1>10,
     <1>11, <1>12, <1>13, <1>14, <1>15, <1>16, <1>17, <1>18, <1>19
     DEF Next, Acts, Folders, RequestStep

(* No request comes to the point of marking mails.                         *)
StoresStay == \A q \in Requests : pc'[q] = "store" => pc[q] = "store" /\ job'[q] = job[q]

(* A mail that was safe is safe, or has been deleted from the trash.       *)
SafetyStays ==
  \A r \in store : ~r.deleted /\ (\A q \in Requests : ~Threat(q, r)) =>
    \/ r.mail \in discarded'
    \/ \E a \in store' : a.mail = r.mail /\ ~a.deleted /\ \A q \in Requests : ~Threat(q, a)'

(* Then what the requests mark stays known.                                *)
LEMMA KnownStays ==
  ASSUME Types, Stored', StoreGrows, ThreatsKnown, ahead' = ahead, StoresStay PROVE ThreatsKnown'
<1> SUFFICES ASSUME ~ahead, NEW q \in Requests, pc'[q] = "store", NEW u \in job'[q].uids
             PROVE  u < uidNext'[job'[q].box]
  BY DEF ThreatsKnown
<1>1. pc[q] = "store" /\ job'[q] = job[q]
  BY DEF StoresStay
<1>2. u < uidNext[job[q].box] /\ job[q].box \in Boxes /\ u \in Nat
  BY <1>1 DEF ThreatsKnown, Types, Tasks
<1>3. uidNext[job[q].box] <= uidNext'[job[q].box] /\ uidNext[job[q].box] \in Nat /\ uidNext'[job[q].box] \in Nat
  BY <1>2 DEF StoreGrows, Types, Stored
<1> QED BY <1>1, <1>2, <1>3

(* Then no mail is lost.                                                   *)
LEMMA MailsStay ==
  ASSUME MailsSafe, ahead => ahead', discarded \subseteq discarded', SafetyStays PROVE MailsSafe'
<1> SUFFICES ASSUME ~ahead, NEW m \in MailsOf(FirstStore) PROVE Safe(m)' \/ m \in discarded'
  BY DEF MailsSafe
<1>1. CASE m \in discarded
  BY <1>1
<1>2. CASE Safe(m)
  <2>1. PICK r \in store : r.mail = m /\ ~r.deleted /\ \A q \in Requests : ~Threat(q, r)
    BY <1>2 DEF Safe
  <2>2. CASE m \in discarded'
    BY <2>2
  <2>3. CASE \E a \in store' : a.mail = r.mail /\ ~a.deleted /\ \A q \in Requests : ~Threat(q, a)'
    BY <2>1, <2>3 DEF Safe, Threat
  <2> QED BY <2>1, <2>2, <2>3 DEF SafetyStays
<1> QED BY <1>1, <1>2 DEF MailsSafe

(* It is enough that a safe mail stays where it is.                        *)
LEMMA MailsStayThere ==
  ASSUME MailsSafe, ahead' = ahead, discarded \subseteq discarded', StoresStay,
         \A r \in store : ~r.deleted /\ (\A q \in Requests : ~Threat(q, r))
           => r.mail \in discarded' \/ r \in store'
  PROVE  MailsSafe'
<1>1. \A r : \A q \in Requests : Threat(q, r)' => Threat(q, r)
  BY DEF StoresStay, Threat
<1> QED BY <1>1, MailsStay DEF SafetyStays

(* No step loses a mail.                                                   *)
LEMMA SafetyNext == Types /\ ThreatsKnown /\ MailsSafe /\ [Next]_vars => ThreatsKnown' /\ MailsSafe'
<1> SUFFICES ASSUME Types, ThreatsKnown, MailsSafe, [Next]_vars PROVE ThreatsKnown' /\ MailsSafe'
  OBVIOUS
<1>0. /\ Types /\ Stored /\ Naming /\ Tasks /\ ThreatsKnown /\ MailsSafe
      /\ Stored' /\ StoreGrows
  BY StoreNext DEF Types
<1> USE DEF history, count
<1>1. ASSUME NEW p \in Requests, NEW n \in Names, List(p, n)
      PROVE  ThreatsKnown' /\ MailsSafe'
  <2>1. /\ store' = store /\ ahead' = ahead /\ discarded' = discarded
    BY <1>1 DEF List, Goto
  <2>2. StoresStay
    BY <1>0, <1>1 DEF StoresStay, Tasks, List, Goto
  <2> QED BY <1>0, <2>1, <2>2, KnownStays, MailsStayThere
<1>2. ASSUME NEW p \in Requests, NEW n \in Names, NEW uids \in SUBSET shown[n],
             TrashMails(p, n, uids) \/ \E dest \in Names : Move(p, n, dest, uids)
      PROVE  ThreatsKnown' /\ MailsSafe'
  <2>1. /\ store' = store /\ ahead' = ahead /\ discarded' = discarded
    BY <1>2 DEF TrashMails, Move, Begin, Goto
  <2>2. StoresStay
    BY <1>0, <1>2 DEF StoresStay, Tasks, TrashMails, Move, Begin, Goto
  <2> QED BY <1>0, <2>1, <2>2, KnownStays, MailsStayThere
<1>3. ASSUME NEW p \in Requests, Empty(p)
      PROVE  ThreatsKnown' /\ MailsSafe'
  <2>1. /\ store' = store /\ ahead' = ahead /\ discarded' = discarded
    BY <1>3 DEF Empty, Goto
  <2>2. StoresStay
    BY <1>0, <1>3 DEF StoresStay, Tasks, Empty, Goto
  <2> QED BY <1>0, <2>1, <2>2, KnownStays, MailsStayThere
<1>4. ASSUME NEW p \in Requests, LoadFromCache(p)
      PROVE  ThreatsKnown' /\ MailsSafe'
  <2>1. /\ store' = store /\ ahead' = ahead /\ discarded' = discarded
    BY <1>4 DEF LoadFromCache, Lookup, Goto, Leave
  <2>2. StoresStay
    BY <1>0, <1>4 DEF StoresStay, Tasks, LoadFromCache, Lookup, Goto, Leave
  <2> QED BY <1>0, <2>1, <2>2, KnownStays, MailsStayThere
<1>5. ASSUME NEW p \in Requests, FetchHeaders(p)
      PROVE  ThreatsKnown' /\ MailsSafe'
  <2>1. /\ store' = store /\ ahead' = ahead /\ discarded' = discarded
    BY <1>5 DEF FetchHeaders, Goto, Leave
  <2>2. StoresStay
    BY <1>0, <1>5 DEF StoresStay, Tasks, FetchHeaders, Goto, Leave
  <2> QED BY <1>0, <2>1, <2>2, KnownStays, MailsStayThere
<1>6. ASSUME NEW p \in Requests, Import(p)
      PROVE  ThreatsKnown' /\ MailsSafe'
  <2>1. /\ store' = store /\ ahead' = ahead /\ discarded' = discarded
    BY <1>6 DEF Import, Leave, Goto
  <2>2. StoresStay
    BY <1>0, <1>6 DEF StoresStay, Tasks, Import, Leave, Goto
  <2> QED BY <1>0, <2>1, <2>2, KnownStays, MailsStayThere
<1>7. ASSUME NEW p \in Requests, MoveAll(p)
      PROVE  ThreatsKnown' /\ MailsSafe'
  <2> DEFINE from == BoxOf(job[p].name)
             d == BoxOf(job[p].dest)
             S == Named(store, from, job[p].uids)
             new == Arrivals(S, d, uidNext[d])
  <2>1. CASE Leave(p) /\ UNCHANGED <<store, uidNext, ahead>>
    <3>1. discarded' = discarded /\ StoresStay
      BY <1>0, <1>7, <2>1 DEF MoveAll, StoresStay, Tasks, Leave, Goto
    <3> QED BY <1>0, <2>1, <3>1, KnownStays, MailsStayThere
  <2>2. CASE ~(Leave(p) /\ UNCHANGED <<store, uidNext, ahead>>)
    <3>1. /\ pc[p] = "move" /\ job[p].name # job[p].dest /\ Exists(job[p].name) /\ Exists(job[p].dest)
          /\ discarded' = discarded /\ (ahead => ahead')
          /\ uidNext' = [uidNext EXCEPT ![d] = @ + Cardinality(S)]
          /\ \/ Leave(p) /\ ahead' = ahead /\ store' = (store \ S) \cup new
             \/ /\ store' = store \cup new
                /\ pc' = [pc EXCEPT ![p] = "store"] /\ job' = [job EXCEPT ![p].box = from]
                /\ ahead' = (ahead \/ \E u \in job[p].uids : u >= uidNext[from])
      BY <1>7, <2>2 DEF MoveAll, Enter, Goto
    <3>2. /\ from \in Boxes /\ d \in Boxes /\ from # d
          /\ uidNext[d] \in Nat \ {0} /\ uidNext[from] \in Nat /\ job[p].uids \subseteq Nat
      <4>1. named[from] = job[p].name /\ named[d] = job[p].dest /\ from \in Boxes /\ d \in Boxes
        BY <3>1, BoxOfFacts
      <4>2. job[p].dest \in Names /\ job[p].uids \subseteq Nat
        BY <1>0, <3>1, TaskFields
      <4>3. uidNext[d] # 0
        BY <1>0, <4>1, <4>2, MailCacheAssumption DEF Naming
      <4> QED BY <1>0, <3>1, <4>1, <4>2, <4>3 DEF Stored
    <3>3. S \subseteq store /\ IsFiniteSet(S) /\ S \subseteq Message
      BY <1>0, FS_Subset DEF Named, Stored
    <3>4. /\ \A a \in new : a.box = d /\ uidNext[d] <= a.uid /\ a.uid \in Nat
          /\ \A r \in S : \E a \in new : a.mail = r.mail /\ a.deleted = r.deleted
      <4>1. new \subseteq Message
        BY <3>2, <3>3, ArrivalsFacts
      <4> QED BY <3>2, <3>3, <4>1, ArrivalsFacts DEF Message
    <3>5. \A r \in store : r \in S <=> r.box = from /\ r.uid \in job[p].uids
      BY DEF Named
    <3> HIDE DEF from, d, S, new
    <3>6. /\ pc'[p] = "store" => job'[p].box = from /\ job'[p].uids = job[p].uids
          /\ \A q \in Requests \ {p} : pc'[q] = pc[q] /\ job'[q] = job[q]
      BY <1>0, <3>1, TaskFields DEF Tasks, Leave, Goto, Fields
    <3>7. ThreatsKnown'
      <4> SUFFICES ASSUME ~ahead', NEW q \in Requests, pc'[q] = "store", NEW u \in job'[q].uids
                   PROVE  u < uidNext'[job'[q].box]
        BY DEF ThreatsKnown
      <4>1. job'[q].box \in Boxes /\ u \in Nat /\ u < uidNext[job'[q].box]
        <5>1. CASE q = p
          <6>1. pc' = [pc EXCEPT ![p] = "store"] /\ ~\E v \in job[p].uids : v >= uidNext[from]
            BY <1>0, <3>1, <5>1 DEF Tasks, Leave, Goto
          <6> QED BY <3>2, <3>6, <5>1, <6>1
        <5>2. CASE q # p
          BY <1>0, <3>1, <3>6, <5>2 DEF ThreatsKnown, Tasks
        <5> QED BY <5>1, <5>2
      <4>2. /\ uidNext[job'[q].box] <= uidNext'[job'[q].box]
            /\ uidNext[job'[q].box] \in Nat /\ uidNext'[job'[q].box] \in Nat
        BY <1>0, <4>1 DEF StoreGrows, Stored
      <4> QED BY <4>1, <4>2
    <3>8. ASSUME ~ahead, NEW a \in new PROVE \A q \in Requests : ~Threat(q, a)'
      <4> SUFFICES ASSUME NEW q \in Requests, pc'[q] = "store", job'[q].box = a.box, a.uid \in job'[q].uids
                   PROVE  FALSE
        BY DEF Threat
      <4>1. a.box = d /\ uidNext[d] <= a.uid /\ a.uid \in Nat /\ uidNext[d] \in Nat
        BY <3>2, <3>4
      <4>2. CASE q = p
        BY <3>2, <3>6, <4>1, <4>2
      <4>3. CASE q # p
        <5>1. a.uid < uidNext[d]
          BY <1>0, <3>6, <3>8, <4>1, <4>3 DEF ThreatsKnown
        <5> QED BY <4>1, <5>1
      <4> QED BY <4>2, <4>3
    <3>9. ASSUME ~ahead PROVE SafetyStays
      <4> SUFFICES ASSUME NEW r \in store, ~r.deleted, \A q \in Requests : ~Threat(q, r)
                   PROVE  \E a \in store' : a.mail = r.mail /\ ~a.deleted /\ \A q \in Requests : ~Threat(q, a)'
        BY DEF SafetyStays
      <4>1. CASE r \in S
        <5>1. PICK a \in new : a.mail = r.mail /\ a.deleted = r.deleted
          BY <3>4, <4>1
        <5>2. a \in store'
          BY <3>1
        <5>3. \A q \in Requests : ~Threat(q, a)'
          BY <3>8, <3>9
        <5> QED BY <5>1, <5>2, <5>3
      <4>2. CASE r \notin S
        <5>1. r \in store'
          BY <3>1, <4>2
        <5>2. \A q \in Requests : ~Threat(q, r)'
          BY <3>5, <3>6, <4>2 DEF Threat
        <5> QED BY <5>1, <5>2
      <4> QED BY <4>1, <4>2
    <3>10. MailsSafe'
      <4>1. CASE ahead
        BY <3>1, <4>1 DEF MailsSafe
      <4>2. CASE ~ahead
        BY <1>0, <3>1, <3>9, <4>2, MailsStay
      <4> QED BY <4>1, <4>2
    <3> QED BY <3>7, <3>10
  <2> QED BY <2>1, <2>2
<1>8. ASSUME NEW p \in Requests, StoreDeleted(p)
      PROVE  ThreatsKnown' /\ MailsSafe'
  <2>1. ahead' = ahead /\ discarded' = discarded /\ pc[p] = "store"
    BY <1>8 DEF StoreDeleted
  <2>2. StoresStay
    BY <1>0, <1>8 DEF StoresStay, Tasks, StoreDeleted, Leave, Goto
  <2>3. \A r \in store : ~Threat(p, r) => r \in store'
    BY <1>8 DEF StoreDeleted, MarkDeleted, Named, Threat
  <2> QED BY <1>0, <2>1, <2>2, <2>3, KnownStays, MailsStayThere
<1>9. ASSUME NEW p \in Requests, DeleteAll(p)
      PROVE  ThreatsKnown' /\ MailsSafe'
  <2>1. ahead' = ahead /\ discarded \subseteq discarded'
    BY <1>9 DEF DeleteAll
  <2>2. StoresStay
    BY <1>0, <1>9 DEF StoresStay, Tasks, DeleteAll, Leave, Goto
  <2>3. \A r \in store : ~r.deleted => r.mail \in discarded' \/ r \in store'
    BY <1>9 DEF DeleteAll, MarkDeleted, MailsOf
  <2> QED BY <1>0, <2>1, <2>2, <2>3, KnownStays, MailsStayThere
<1>10. ASSUME NEW p \in Requests, ExpungeBox(p)
      PROVE  ThreatsKnown' /\ MailsSafe'
  <2>1. /\ (\A r \in store : ~r.deleted => r \in store') /\ ahead' = ahead /\ discarded' = discarded
    BY <1>10 DEF ExpungeBox, Leave, Goto, Expunge
  <2>2. StoresStay
    BY <1>0, <1>10 DEF StoresStay, Tasks, ExpungeBox, Leave, Goto
  <2> QED BY <1>0, <2>1, <2>2, KnownStays, MailsStayThere
<1>11. ASSUME NEW p \in Requests, NEW n \in job[p].todo, EmptyFolder(p, n)
      PROVE  ThreatsKnown' /\ MailsSafe'
  <2>1. /\ ahead' = ahead
        /\ \/ store' = store /\ discarded' = discarded
           \/ /\ store' = store \ InBox(store, BoxOf(n))
              /\ discarded' = discarded \cup MailsOf(Visible(BoxOf(n)))
    BY <1>11 DEF EmptyFolder, Drop
  <2>2. StoresStay
    <3>1. CASE Leave(p)
      BY <1>0, <1>11, <3>1 DEF StoresStay, Tasks, Leave, Goto
    <3>2. CASE ~Leave(p)
      <4>1. pc[p] = "empty" /\ pc' = pc /\ \A q \in Requests \ {p} : job'[q] = job[q]
        BY <1>0, <1>11, <3>2 DEF EmptyFolder, Tasks
      <4> QED BY <4>1 DEF StoresStay
    <3> QED BY <3>1, <3>2
  <2>3. \A r \in store : ~r.deleted => r.mail \in discarded' \/ r \in store'
    BY <2>1 DEF InBox, MailsOf, Visible
  <2>4. discarded \subseteq discarded'
    BY <2>1
  <2> QED BY <1>0, <2>1, <2>2, <2>3, <2>4, KnownStays, MailsStayThere
<1>12. ASSUME NEW p \in Requests, EmptyMails(p)
      PROVE  ThreatsKnown' /\ MailsSafe'
  <2>1. /\ store' = store /\ ahead' = ahead /\ discarded' = discarded
    BY <1>12 DEF EmptyMails, Leave, Goto
  <2>2. StoresStay
    BY <1>0, <1>12 DEF StoresStay, Tasks, EmptyMails, Leave, Goto
  <2> QED BY <1>0, <2>1, <2>2, KnownStays, MailsStayThere
<1>13. ASSUME NEW p \in Requests, Fault(p)
      PROVE  ThreatsKnown' /\ MailsSafe'
  <2>1. /\ store' = store /\ ahead' = ahead /\ discarded' = discarded
    BY <1>13 DEF Fault, Leave, Goto
  <2>2. StoresStay
    BY <1>0, <1>13 DEF StoresStay, Tasks, Fault, Leave, Goto
  <2> QED BY <1>0, <2>1, <2>2, KnownStays, MailsStayThere
<1>14. ASSUME NEW n \in Names, NEW uids \in SUBSET shown[n], NEW dest \in Names, CopyMails(n, dest, uids)
      PROVE  ThreatsKnown' /\ MailsSafe'
  <2>1. store \subseteq store' /\ ahead' = ahead /\ discarded' = discarded /\ pc' = pc /\ job' = job
    BY <1>14 DEF CopyMails, Enter
  <2>2. StoresStay
    BY <2>1 DEF StoresStay
  <2> QED BY <1>0, <2>1, <2>2, KnownStays, MailsStayThere
<1>15. ASSUME NEW n \in Names, NEW new \in Names, RenameFolder(n, new)
      PROVE  ThreatsKnown' /\ MailsSafe'
  <2>1. store \subseteq store' /\ ahead' = ahead /\ discarded' = discarded /\ pc' = pc /\ job' = job
    BY <1>15 DEF RenameFolder, Renaming
  <2>2. StoresStay
    BY <2>1 DEF StoresStay
  <2> QED BY <1>0, <2>1, <2>2, KnownStays, MailsStayThere
<1>16. ASSUME NEW n \in Names, NEW b \in Boxes, CreateFolder(n, b)
      PROVE  ThreatsKnown' /\ MailsSafe'
  <2>1. store \subseteq store' /\ ahead' = ahead /\ discarded' = discarded /\ pc' = pc /\ job' = job
    BY <1>16 DEF CreateFolder
  <2>2. StoresStay
    BY <2>1 DEF StoresStay
  <2> QED BY <1>0, <2>1, <2>2, KnownStays, MailsStayThere
<1>17. ASSUME NEW n \in Names, NEW b \in Boxes, Replace(n, b)
      PROVE  ThreatsKnown' /\ MailsSafe'
  <2>1. /\ ahead' = ahead /\ pc' = pc /\ job' = job
        /\ store' = store \ InBox(store, BoxOf(n))
        /\ discarded' = discarded \cup MailsOf(Visible(BoxOf(n)))
    BY <1>17 DEF Replace
  <2>2. StoresStay
    BY <2>1 DEF StoresStay
  <2>3. \A r \in store : ~r.deleted => r.mail \in discarded' \/ r \in store'
    BY <2>1 DEF InBox, MailsOf, Visible
  <2> QED BY <1>0, <2>1, <2>2, <2>3, KnownStays, MailsStayThere
<1>18. ASSUME NEW n \in Names, DeleteFolder(n)
      PROVE  ThreatsKnown' /\ MailsSafe'
  <2>1. /\ ahead' = ahead /\ pc' = pc /\ job' = job
        /\ store' = store \ InBox(store, BoxOf(n))
        /\ discarded' = discarded \cup MailsOf(Visible(BoxOf(n)))
    BY <1>18 DEF DeleteFolder, Drop
  <2>2. StoresStay
    BY <2>1 DEF StoresStay
  <2>3. \A r \in store : ~r.deleted => r.mail \in discarded' \/ r \in store'
    BY <2>1 DEF InBox, MailsOf, Visible
  <2> QED BY <1>0, <2>1, <2>2, <2>3, KnownStays, MailsStayThere
<1>19. CASE UNCHANGED vars
  <2>1. store \subseteq store' /\ ahead' = ahead /\ discarded' = discarded /\ pc' = pc /\ job' = job
    BY <1>19 DEF vars
  <2>2. StoresStay
    BY <2>1 DEF StoresStay
  <2> QED BY <1>0, <2>1, <2>2, KnownStays, MailsStayThere
<1> QED
  BY <1>1, <1>2, <1>3, <1>4, <1>5, <1>6, <1>7, <1>8, <1>9, <1>10,
     <1>11, <1>12, <1>13, <1>14, <1>15, <1>16, <1>17, <1>18, <1>19
     DEF Next, Acts, Folders, RequestStep

---------------------------------------------------------------------------
IndInv == Types /\ Fetched /\ Cached /\ ThreatsKnown /\ MailsSafe

(* The first messages have UIDs of their own.                              *)
LEMMA InitStored == Init => Stored /\ Naming
<1> SUFFICES ASSUME Init PROVE Stored /\ Naming
  OBVIOUS
<1>1. \A b : Cardinality(InBox(FirstStore, b)) \in Nat
  <2>1. \A b : InBox(FirstStore, b) \in SUBSET FirstStore
    BY DEF InBox
  <2> QED BY <2>1, FS_Subset, FS_CardinalityType, MailCacheAssumption
<1>2. uidNext \in [Boxes -> Nat]
  BY <1>1 DEF Init
<1>3. ASSUME NEW r \in store PROVE r.uid < uidNext[r.box]
  <2>1. /\ r \in FirstStore /\ r.box \in Boxes /\ r.uid \in Nat /\ FirstNames[r.box] # NoName
        /\ r.uid <= Cardinality({q \in FirstStore : q.box = r.box})
    BY <1>3, MailCacheAssumption DEF Init, Message
  <2>2. uidNext[r.box] = 1 + Cardinality(InBox(FirstStore, r.box))
    BY <2>1 DEF Init
  <2>3. {q \in FirstStore : q.box = r.box} = InBox(FirstStore, r.box)
    BY DEF InBox
  <2> QED BY <1>1, <2>1, <2>2, <2>3
<1>4. \A b \in Boxes : named[b] # NoName => uidNext[b] # 0
  BY <1>1 DEF Init
<1>5. Stored
  BY <1>2, <1>3, MailCacheAssumption DEF Init, Stored
<1>6. Naming
  BY <1>4, MailCacheAssumption DEF Init, Naming
<1> QED BY <1>5, <1>6

(* The invariant holds at the start.                                       *)
LEMMA InitIndInv == Init => IndInv
<1> SUFFICES ASSUME Init PROVE IndInv
  OBVIOUS
<1>1. Stored /\ Naming
  BY InitStored
<1>2. Tasks
  BY NoJobFields DEF Init, Tasks
<1>3. Fetched /\ Cached /\ ThreatsKnown
  BY DEF Init, Fetched, Cached, ThreatsKnown
<1>4. MailsSafe
  <2> SUFFICES ASSUME NEW m \in MailsOf(FirstStore) PROVE Safe(m)
    BY DEF MailsSafe
  <2>1. PICK r \in FirstStore : r.mail = m
    BY DEF MailsOf
  <2> QED BY <2>1, MailCacheAssumption DEF Init, Safe, Threat
<1> QED BY <1>1, <1>2, <1>3, <1>4 DEF IndInv, Types

(* The invariant is inductive.                                             *)
LEMMA NextIndInv == IndInv /\ [Next]_vars => IndInv'
<1> SUFFICES ASSUME IndInv, [Next]_vars PROVE IndInv'
  OBVIOUS
<1>1. Types /\ Fetched /\ Cached /\ ThreatsKnown /\ MailsSafe
  BY DEF IndInv
<1>2. Stored' /\ Naming' /\ Tasks'
  BY <1>1, StoreNext, NamingNext, TasksNext
<1>3. Fetched' /\ Cached' /\ ThreatsKnown' /\ MailsSafe'
  BY <1>1, FetchedNext, CachedNext, SafetyNext
<1> QED BY <1>2, <1>3 DEF IndInv, Types

(* The invariant holds throughout.                                         *)
LEMMA IndInvHolds == Spec => []IndInv
  BY InitIndInv, NextIndInv, PTL DEF Spec

(* A cached header is shown for no other mail than its own, though         *)
(* load_from_cache looks headers up by mailbox name and UID alone          *)
(* (mail.rb:453-465): outside the names that a list or another client has  *)
(* blurred, a header is below UIDNEXT of the mailbox of its name.          *)
THEOREM HeadersTrue == Spec => []HeaderTrue
<1>1. IndInv => HeaderTrue
  <2> SUFFICES ASSUME Types, Cached, NEW x \in nodes, x.name \notin blurred,
                      NEW r \in store, named[r.box] = x.name, r.uid = x.uid
               PROVE  r.mail = x.mail
    BY DEF IndInv, HeaderTrue
  <2>1. PICK b \in Boxes : named[b] = x.name /\ x.name # NoName /\ Right(b, x.uid, x.mail)
    BY DEF Cached
  <2>2. r.box \in Boxes
    BY DEF Types, Stored, Message
  <2>3. r.box = b
    BY <2>1, <2>2 DEF Types, Naming
  <2> QED BY <2>1, <2>3 DEF Right
<1> QED BY <1>1, IndInvHolds, PTL

(* A mail leaves the account only by being deleted in the trash, or with a *)
(* mailbox another client replaces: until a request marks its original, a  *)
(* copy is in the destination under a UID that no request aims at          *)
(* (imap.rb:198-224, 271-285).                                             *)
THEOREM MailsKept == Spec => []GoneOnlyFromTrash
<1>1. IndInv => GoneOnlyFromTrash
  <2>1. \A m : Safe(m) => Held(m)
    BY DEF Safe, Held
  <2> QED BY <2>1 DEF IndInv, MailsSafe, GoneOnlyFromTrash
<1> QED BY <1>1, IndInvHolds, PTL
---------------------------------------------------------------------------
(* No header is cached twice                                               *)

(* A list whose headers are on their way, and the UIDs they are for.       *)
Fills(p) == pc[p] \in {"fetch", "import"}
Awaited(p) == IF pc[p] = "fetch" THEN job[p].want ELSE UidsOf(job[p].got)

(* But for the mailboxes noted in overlapped one list at a time fills the  *)
(* cache of a mailbox, and what it waits for is not cached yet.            *)
OneFiller ==
  \A p, q \in Requests :
    Fills(p) /\ Fills(q) /\ job[p].box = job[q].box /\ job[p].box \notin overlapped => p = q
AwaitedNew ==
  \A p \in Requests : Fills(p) /\ job[p].box \notin overlapped =>
    \A x \in nodes : x.name = named[job[p].box] /\ x.name \notin blurred => x.uid \notin Awaited(p)
GotApart == \A p \in Requests : pc[p] = "import" => \A g, h \in job[p].got : g.uid = h.uid => g = h
RowsApart == overlapped \subseteq Boxes /\ OneFiller /\ AwaitedNew /\ GotApart /\ NoRowTwice

(* The lists under way are those that were.                                *)
FillsStay == \A q \in Requests : Fills(q)' => pc'[q] = pc[q] /\ job'[q] = job[q]

(* The mailboxes that a known header's name belongs to.                    *)
OwnersStay ==
  \A x \in nodes' : x.name \notin blurred' =>
    \A b \in Boxes : named'[b] = x.name <=> named[b] = x.name

(* Then no new pair of rows can come.                                      *)
LEMMA RowsStay ==
  ASSUME Tasks, RowsApart, nodes' \subseteq nodes, blurred \subseteq blurred',
         overlapped' = overlapped, FillsStay, OwnersStay
  PROVE  RowsApart'
<1>1. OneFiller' /\ GotApart'
  BY DEF RowsApart, OneFiller, GotApart, FillsStay, Fills
<1>2. AwaitedNew'
  <2> SUFFICES ASSUME NEW p \in Requests, Fills(p)', job'[p].box \notin overlapped',
                      NEW x \in nodes', x.name = named'[job'[p].box], x.name \notin blurred'
               PROVE  x.uid \notin Awaited(p)'
    BY DEF AwaitedNew
  <2>1. pc'[p] = pc[p] /\ job'[p] = job[p] /\ Fills(p) /\ job[p].box \in Boxes
    BY DEF FillsStay, Fills, Tasks
  <2>2. x.name = named[job[p].box] /\ x.name \notin blurred
    BY <2>1 DEF OwnersStay
  <2>3. x.uid \notin Awaited(p)
    BY <2>1, <2>2 DEF RowsApart, AwaitedNew
  <2> QED BY <2>1, <2>3 DEF Awaited
<1>3. NoRowTwice'
  <2> SUFFICES ASSUME NEW x \in nodes', NEW y \in nodes', x.name = y.name, x.uid = y.uid,
                      x.name \notin blurred', x # y
               PROVE  \E b \in overlapped' : named'[b] = x.name
    BY DEF NoRowTwice
  <2>1. PICK b \in overlapped : named[b] = x.name
    BY DEF RowsApart, NoRowTwice
  <2> QED BY <2>1 DEF RowsApart, OwnersStay
<1> QED BY <1>1, <1>2, <1>3 DEF RowsApart

(* A list begins to fetch what is not cached.                              *)
LEMMA LookupApart ==
  ASSUME Tasks, RowsApart, NEW p \in Requests, LoadFromCache(p)
  PROVE  RowsApart'
<1> DEFINE b == job[p].box
           missing == job[p].uids \ UidsOf(Nodes(job[p].name, job[p].uids))
<1>1. nodes' = nodes /\ named' = named /\ blurred' = blurred /\ pc[p] = "select"
  BY DEF LoadFromCache, Lookup
<1>2. OwnersStay
  BY <1>1 DEF OwnersStay
<1>3. CASE missing = {}
  <2>1. Leave(p) /\ overlapped' = overlapped
    BY <1>3 DEF LoadFromCache, Lookup
  <2>2. FillsStay
    BY <2>1 DEF Leave, Goto, FillsStay, Fills, Tasks
  <2> QED BY <1>1, <1>2, <2>1, <2>2, RowsStay
<1>4. CASE missing # {}
  <2>1. /\ job' = [job EXCEPT ![p].want = missing] /\ pc' = [pc EXCEPT ![p] = "fetch"]
        /\ overlapped' = IF Filling(b) = {} /\ named[b] = job[p].name
                         THEN overlapped ELSE overlapped \cup {b}
    BY <1>4 DEF LoadFromCache, Lookup, Goto
  <2>2. /\ pc'[p] = "fetch" /\ job'[p].box = b /\ job'[p].want = missing /\ b \in Boxes
        /\ \A q \in Requests \ {p} : pc'[q] = pc[q] /\ job'[q] = job[q]
    BY <2>1, TaskFields DEF Tasks, Fields
  <2>3. \A x \in nodes : x.name = job[p].name => x.uid \notin missing
    BY DEF Nodes, UidsOf
  <2>4. \A q \in Requests : Fills(q) /\ job[q].box = b => q \in Filling(b)
    BY DEF Filling, Fills
  <2> HIDE DEF missing, b
  <2>5. overlapped \subseteq overlapped' /\ overlapped' \subseteq Boxes
    BY <2>1, <2>2 DEF RowsApart
  <2>6. b \notin overlapped' => named[b] = job[p].name /\ Filling(b) = {}
    BY <2>1
  <2>7. OneFiller'
    BY <2>2, <2>4, <2>5, <2>6 DEF OneFiller, Fills, RowsApart
  <2>8. AwaitedNew'
    <3> SUFFICES ASSUME NEW q \in Requests, Fills(q)', job'[q].box \notin overlapped',
                        NEW x \in nodes, x.name = named[job'[q].box], x.name \notin blurred
                 PROVE  x.uid \notin Awaited(q)'
      BY <1>1 DEF AwaitedNew
    <3>1. CASE q = p
      <4>1. x.name = job[p].name
        BY <2>2, <2>6, <3>1
      <4> QED BY <2>2, <2>3, <3>1, <4>1 DEF Awaited
    <3>2. CASE q # p
      <4>1. pc'[q] = pc[q] /\ job'[q] = job[q] /\ Fills(q) /\ job[q].box \notin overlapped
        BY <2>2, <2>5, <3>2 DEF Fills
      <4>2. x.uid \notin Awaited(q)
        BY <4>1 DEF RowsApart, AwaitedNew
      <4> QED BY <4>1, <4>2 DEF Awaited
    <3> QED BY <3>1, <3>2
  <2>9. GotApart'
    BY <2>2 DEF GotApart, RowsApart
  <2>10. NoRowTwice'
    BY <1>1, <2>5 DEF NoRowTwice, RowsApart
  <2> QED BY <2>5, <2>7, <2>8, <2>9, <2>10 DEF RowsApart
<1> QED BY <1>3, <1>4

(* The headers come: at most those asked for, one for each UID.            *)
LEMMA FetchApart ==
  ASSUME Stored, Tasks, RowsApart, NEW p \in Requests, FetchHeaders(p)
  PROVE  RowsApart'
<1> DEFINE b == job[p].box
           got == Named(store, b, job[p].want)
<1>1. /\ nodes' = nodes /\ named' = named /\ blurred' = blurred /\ overlapped' = overlapped
      /\ pc[p] = "fetch"
  BY DEF FetchHeaders, history
<1>2. OwnersStay
  BY <1>1 DEF OwnersStay
<1>3. CASE named[b] = NoName
  <2>1. Leave(p)
    BY <1>3 DEF FetchHeaders
  <2>2. FillsStay
    BY <2>1 DEF Leave, Goto, FillsStay, Fills, Tasks
  <2> QED BY <1>1, <1>2, <2>2, RowsStay
<1>4. CASE named[b] # NoName
  <2>1. job' = [job EXCEPT ![p].got = got] /\ pc' = [pc EXCEPT ![p] = "import"]
    BY <1>4 DEF FetchHeaders, Goto
  <2>2. /\ pc'[p] = "import" /\ job'[p].box = b /\ job'[p].got = got
        /\ \A q \in Requests \ {p} : pc'[q] = pc[q] /\ job'[q] = job[q]
    BY <2>1, TaskFields DEF Tasks, Fields
  <2>3. UidsOf(got) \subseteq job[p].want /\ \A g, h \in got : g.uid = h.uid => g = h
    BY DEF UidsOf, Named, Stored
  <2> HIDE DEF got, b
  <2>4. \A q \in Requests : Fills(q)' => Fills(q) /\ job'[q].box = job[q].box
    BY <1>1, <2>2 DEF Fills, b
  <2>5. \A q \in Requests : Fills(q)' => Awaited(q)' \subseteq Awaited(q)
    BY <1>1, <2>2, <2>3 DEF Awaited, Fills
  <2>6. OneFiller'
    BY <1>1, <2>4 DEF OneFiller, RowsApart
  <2>7. AwaitedNew'
    BY <1>1, <2>4, <2>5 DEF AwaitedNew, RowsApart
  <2>8. GotApart'
    BY <2>2, <2>3 DEF GotApart, RowsApart
  <2>9. NoRowTwice'
    BY <1>1 DEF NoRowTwice, RowsApart
  <2> QED BY <1>1, <2>6, <2>7, <2>8, <2>9 DEF RowsApart
<1> QED BY <1>3, <1>4

(* The headers are stored.  Under the name of their mailbox none of them   *)
(* was cached; any other name is blurred from here on.                     *)
LEMMA ImportApart ==
  ASSUME Naming, Tasks, RowsApart, NEW p \in Requests, Import(p)
  PROVE  RowsApart'
<1> DEFINE n == job[p].name
           b == job[p].box
           fresh == {[name |-> n, uid |-> g.uid, mail |-> g.mail, by |-> p] : g \in job[p].got}
<1>1. /\ pc[p] = "import" /\ nodes' = nodes \cup fresh /\ named' = named
      /\ blurred' = (IF named[b] = n THEN blurred ELSE blurred \cup {n})
      /\ overlapped' = overlapped /\ Leave(p)
  BY DEF Import
<1>2. n \in Names /\ n # NoName /\ b \in Boxes
  BY <1>1, MailCacheAssumption DEF Tasks
<1>3. \A x \in fresh : x.name = n /\ x.uid \in Awaited(p)
  BY <1>1 DEF Awaited, UidsOf
<1>4. \A x, y \in fresh : x.uid = y.uid => x = y
  <2>1. \A g, h \in job[p].got : g.uid = h.uid => g = h
    BY <1>1 DEF RowsApart, GotApart
  <2> QED BY <2>1
<1>5. FillsStay /\ ~Fills(p)'
  BY <1>1 DEF Leave, Goto, FillsStay, Fills, Tasks
<1> HIDE DEF n, b, fresh
<1>6. n \notin blurred' => named[b] = n
  BY <1>1
<1>7. OneFiller' /\ GotApart'
  BY <1>1, <1>5 DEF RowsApart, OneFiller, GotApart, FillsStay, Fills
<1>8. AwaitedNew'
  <2> SUFFICES ASSUME NEW q \in Requests, Fills(q)', job'[q].box \notin overlapped,
                      NEW x \in nodes', x.name = named[job'[q].box], x.name \notin blurred'
               PROVE  x.uid \notin Awaited(q)'
    BY <1>1 DEF AwaitedNew
  <2>1. pc'[q] = pc[q] /\ job'[q] = job[q] /\ Fills(q) /\ job[q].box \in Boxes /\ q # p
    BY <1>5 DEF FillsStay, Fills, Tasks
  <2>2. Awaited(q)' = Awaited(q)
    BY <2>1 DEF Awaited
  <2>3. CASE x \in nodes
    BY <1>1, <2>1, <2>2, <2>3 DEF RowsApart, AwaitedNew
  <2>4. CASE x \in fresh
    <3>1. named[b] = n /\ named[job[q].box] = n
      BY <1>3, <1>6, <2>1, <2>4
    <3>2. job[q].box = b
      BY <1>2, <2>1, <3>1 DEF Naming
    <3>3. Fills(p) /\ job[p].box = b
      BY <1>1 DEF Fills, b
    <3> QED BY <2>1, <3>2, <3>3 DEF RowsApart, OneFiller
  <2> QED BY <1>1, <2>3, <2>4
<1>9. NoRowTwice'
  <2> SUFFICES ASSUME NEW x \in nodes', NEW y \in nodes', x.name = y.name, x.uid = y.uid,
                      x.name \notin blurred', x # y
               PROVE  \E c \in overlapped : named[c] = x.name
    BY <1>1 DEF NoRowTwice
  <2>1. CASE x \in nodes /\ y \in nodes
    BY <1>1, <2>1 DEF RowsApart, NoRowTwice
  <2>2. CASE x \in fresh /\ y \in fresh
    BY <1>4, <2>2
  <2>3. ASSUME NEW z \in nodes, NEW w \in fresh, z.name = w.name, z.uid = w.uid,
               w.name \notin blurred'
        PROVE  \E c \in overlapped : named[c] = w.name
    <3>1. w.name = n /\ named[b] = n /\ w.uid \in Awaited(p) /\ z.name \notin blurred
      BY <1>1, <1>3, <1>6, <2>3
    <3>2. CASE b \in overlapped
      BY <3>1, <3>2
    <3>3. CASE b \notin overlapped
      <4>1. Fills(p) /\ job[p].box = b
        BY <1>1 DEF Fills, b
      <4> QED BY <2>3, <3>1, <3>3, <4>1 DEF RowsApart, AwaitedNew
    <3> QED BY <3>2, <3>3
  <2> QED BY <1>1, <2>1, <2>2, <2>3
<1> QED BY <1>1, <1>7, <1>8, <1>9 DEF RowsApart

(* The rows follow a renamed mailbox; the name it gets had no known rows.  *)
LEMMA RenameApart ==
  ASSUME Naming, Tasks, Cached, RowsApart, NEW n \in Names, NEW new \in Names, RenameFolder(n, new)
  PROVE  RowsApart'
<1> DEFINE c == BoxOf(n)
           ren(x) == IF x.name = n THEN [x EXCEPT !.name = new] ELSE x
<1>1. /\ Exists(n) /\ ~Exists(new) /\ named' = [named EXCEPT ![c] = new]
      /\ blurred' = (IF n \in blurred THEN blurred \cup {new} ELSE blurred)
      /\ nodes' = {ren(x) : x \in nodes}
      /\ pc' = pc /\ job' = job /\ overlapped' = overlapped
  BY DEF RenameFolder, Renaming
<1>2. c \in Boxes /\ named[c] = n /\ new # NoName /\ n # NoName /\ n # new
  BY <1>1, BoxOfFacts, MailCacheAssumption
<1>3. \A x \in nodes : x.name \notin blurred => x.name # new
  BY <1>1 DEF Cached, Exists
<1>4. /\ \A b \in Boxes : named[b] = n => b = c
      /\ \A b \in Boxes : named'[b] = IF b = c THEN new ELSE named[b]
      /\ \A b \in Boxes : named[b] # new
  BY <1>1, <1>2 DEF Naming, Exists
(* A known row comes from one of the name its mailbox had. *)
<1>5. ASSUME NEW x \in nodes', x.name \notin blurred'
      PROVE  \E y \in nodes : /\ x = ren(y) /\ x.uid = y.uid /\ y.name \notin blurred
                              /\ x.name = (IF y.name = n THEN new ELSE y.name) /\ y.name # new
  <2>1. PICK y \in nodes : x = ren(y)
    BY <1>1
  <2>2. CASE y.name = n
    <3>1. x = [y EXCEPT !.name = new]
      BY <2>1, <2>2
    <3>2. x.uid = y.uid /\ x.name = new
      BY <3>1
    <3>3. y.name \notin blurred /\ y.name # new
      BY <1>1, <1>2, <1>5, <2>2, <3>2
    <3> HIDE DEF ren
    <3> QED BY <2>1, <2>2, <3>2, <3>3
  <2>3. CASE y.name # n
    <3>1. x = y
      BY <2>1, <2>3
    <3> QED BY <1>1, <1>3, <1>5, <2>1, <2>3, <3>1
  <2> QED BY <2>2, <2>3
<1> HIDE DEF ren, c
<1>6. OneFiller' /\ GotApart'
  BY <1>1 DEF RowsApart, OneFiller, GotApart, Fills
<1>7. AwaitedNew'
  <2> SUFFICES ASSUME NEW p \in Requests, Fills(p), job[p].box \notin overlapped,
                      NEW x \in nodes', x.name = named'[job[p].box], x.name \notin blurred'
               PROVE  x.uid \notin Awaited(p)
    BY <1>1 DEF AwaitedNew, Fills, Awaited
  <2>1. PICK y \in nodes : /\ x.uid = y.uid /\ y.name \notin blurred
                           /\ x.name = (IF y.name = n THEN new ELSE y.name) /\ y.name # new
    BY <1>5
  <2>2. job[p].box \in Boxes
    BY DEF Tasks
  <2>3. y.name = named[job[p].box]
    BY <1>2, <1>4, <2>1, <2>2
  <2> QED BY <2>1, <2>3 DEF RowsApart, AwaitedNew
<1>8. NoRowTwice'
  <2> SUFFICES ASSUME NEW x \in nodes', NEW y \in nodes', x.name = y.name, x.uid = y.uid,
                      x.name \notin blurred', x # y
               PROVE  \E b \in overlapped : named'[b] = x.name
    BY <1>1 DEF NoRowTwice
  <2>1. PICK v \in nodes : /\ x = ren(v) /\ x.uid = v.uid /\ v.name \notin blurred
                           /\ x.name = (IF v.name = n THEN new ELSE v.name) /\ v.name # new
    BY <1>5
  <2>2. PICK w \in nodes : /\ y = ren(w) /\ y.uid = w.uid /\ w.name \notin blurred
                           /\ y.name = (IF w.name = n THEN new ELSE w.name) /\ w.name # new
    BY <1>5
  <2>3. v.name = w.name /\ v.uid = w.uid /\ v # w
    BY <2>1, <2>2
  <2>4. PICK b \in overlapped : named[b] = v.name
    BY <2>1, <2>3 DEF RowsApart, NoRowTwice
  <2>5. b \in Boxes
    BY DEF RowsApart
  <2>6. named'[b] = x.name
    BY <1>2, <1>4, <2>1, <2>4, <2>5
  <2> QED BY <2>6
<1> QED BY <1>1, <1>6, <1>7, <1>8 DEF RowsApart

(* No other step adds a row, or lets a list wait for what is cached.       *)
LEMMA RowsNext == IndInv /\ RowsApart /\ [Next]_vars => RowsApart'
<1> SUFFICES ASSUME IndInv, RowsApart, [Next]_vars PROVE RowsApart'
  OBVIOUS
<1>0. Types /\ Stored /\ Naming /\ Tasks /\ Cached /\ RowsApart
  BY DEF IndInv, Types
<1> USE DEF history, count
<1>1. ASSUME NEW p \in Requests, NEW n \in Names, List(p, n)
      PROVE  RowsApart'
  <2>1. nodes' \subseteq nodes /\ named' = named /\ blurred' = blurred /\ overlapped' = overlapped
    BY <1>1 DEF List
  <2>2. FillsStay
    BY <1>0, <1>1 DEF List, Goto, FillsStay, Fills, Tasks
  <2> QED BY <1>0, <2>1, <2>2, RowsStay DEF OwnersStay
<1>2. ASSUME NEW p \in Requests, NEW n \in Names, NEW uids \in SUBSET shown[n],
             TrashMails(p, n, uids) \/ \E dest \in Names : Move(p, n, dest, uids)
      PROVE  RowsApart'
  <2>1. nodes' \subseteq nodes /\ named' = named /\ blurred' = blurred /\ overlapped' = overlapped
    BY <1>2 DEF TrashMails, Move, Begin
  <2>2. FillsStay
    BY <1>0, <1>2 DEF TrashMails, Move, Begin, Goto, FillsStay, Fills, Tasks
  <2> QED BY <1>0, <2>1, <2>2, RowsStay DEF OwnersStay
<1>3. ASSUME NEW p \in Requests, Empty(p)
      PROVE  RowsApart'
  <2>1. nodes' \subseteq nodes /\ named' = named /\ blurred' = blurred /\ overlapped' = overlapped
    BY <1>3 DEF Empty
  <2>2. FillsStay
    BY <1>0, <1>3 DEF Empty, Goto, FillsStay, Fills, Tasks
  <2> QED BY <1>0, <2>1, <2>2, RowsStay DEF OwnersStay
<1>4. ASSUME NEW p \in Requests, LoadFromCache(p)
      PROVE  RowsApart'
  BY <1>0, <1>4, LookupApart
<1>5. ASSUME NEW p \in Requests, FetchHeaders(p)
      PROVE  RowsApart'
  BY <1>0, <1>5, FetchApart
<1>6. ASSUME NEW p \in Requests, Import(p)
      PROVE  RowsApart'
  BY <1>0, <1>6, ImportApart
<1>7. ASSUME NEW p \in Requests, MoveAll(p)
      PROVE  RowsApart'
  <2>1. nodes' \subseteq nodes /\ named' = named /\ blurred' = blurred /\ overlapped' = overlapped
    BY <1>7 DEF MoveAll
  <2>2. FillsStay
    BY <1>0, <1>7 DEF MoveAll, Leave, Goto, FillsStay, Fills, Tasks
  <2> QED BY <1>0, <2>1, <2>2, RowsStay DEF OwnersStay
<1>8. ASSUME NEW p \in Requests, StoreDeleted(p)
      PROVE  RowsApart'
  <2>1. nodes' \subseteq nodes /\ named' = named /\ blurred' = blurred /\ overlapped' = overlapped
    BY <1>8 DEF StoreDeleted
  <2>2. FillsStay
    BY <1>0, <1>8 DEF StoreDeleted, Leave, Goto, FillsStay, Fills, Tasks
  <2> QED BY <1>0, <2>1, <2>2, RowsStay DEF OwnersStay
<1>9. ASSUME NEW p \in Requests, DeleteAll(p)
      PROVE  RowsApart'
  <2>1. nodes' \subseteq nodes /\ named' = named /\ blurred' = blurred /\ overlapped' = overlapped
    BY <1>9 DEF DeleteAll
  <2>2. FillsStay
    BY <1>0, <1>9 DEF DeleteAll, Leave, Goto, FillsStay, Fills, Tasks
  <2> QED BY <1>0, <2>1, <2>2, RowsStay DEF OwnersStay
<1>10. ASSUME NEW p \in Requests, ExpungeBox(p)
       PROVE  RowsApart'
  <2>1. nodes' \subseteq nodes /\ named' = named /\ blurred' = blurred /\ overlapped' = overlapped
    BY <1>10 DEF ExpungeBox
  <2>2. FillsStay
    BY <1>0, <1>10 DEF ExpungeBox, Leave, Goto, FillsStay, Fills, Tasks
  <2> QED BY <1>0, <2>1, <2>2, RowsStay DEF OwnersStay
<1>11. ASSUME NEW p \in Requests, NEW n \in job[p].todo, EmptyFolder(p, n)
       PROVE  RowsApart'
  <2>1. /\ blurred' = blurred /\ overlapped' = overlapped
        /\ \/ nodes' = nodes /\ named' = named
           \/ /\ Exists(n) /\ nodes' = {x \in nodes : x.name # n}
              /\ named' = [named EXCEPT ![BoxOf(n)] = NoName]
    BY <1>11 DEF EmptyFolder, Drop
  <2>2. FillsStay
    BY <1>0, <1>11 DEF EmptyFolder, Leave, Goto, FillsStay, Fills, Tasks
  <2>3. OwnersStay
    BY <1>0, <2>1, BoxOfFacts DEF OwnersStay, Naming, Cached
  <2> QED BY <1>0, <2>1, <2>2, <2>3, RowsStay
<1>12. ASSUME NEW p \in Requests, EmptyMails(p)
       PROVE  RowsApart'
  <2>1. nodes' \subseteq nodes /\ named' = named /\ blurred' = blurred /\ overlapped' = overlapped
    BY <1>12 DEF EmptyMails
  <2>2. FillsStay
    BY <1>0, <1>12 DEF EmptyMails, Leave, Goto, FillsStay, Fills, Tasks
  <2> QED BY <1>0, <2>1, <2>2, RowsStay DEF OwnersStay
<1>13. ASSUME NEW p \in Requests, Fault(p)
       PROVE  RowsApart'
  <2>1. nodes' \subseteq nodes /\ named' = named /\ blurred' = blurred /\ overlapped' = overlapped
    BY <1>13 DEF Fault
  <2>2. FillsStay
    BY <1>0, <1>13 DEF Fault, Leave, Goto, FillsStay, Fills, Tasks
  <2> QED BY <1>0, <2>1, <2>2, RowsStay DEF OwnersStay
<1>14. ASSUME NEW n \in Names, NEW uids \in SUBSET shown[n], NEW dest \in Names, CopyMails(n, dest, uids)
       PROVE  RowsApart'
  <2>1. nodes' \subseteq nodes /\ named' = named /\ blurred' = blurred /\ overlapped' = overlapped
    BY <1>14 DEF CopyMails
  <2>2. FillsStay
    BY <1>0, <1>14 DEF CopyMails, Goto, FillsStay, Fills, Tasks
  <2> QED BY <1>0, <2>1, <2>2, RowsStay DEF OwnersStay
<1>15. ASSUME NEW n \in Names, NEW new \in Names, RenameFolder(n, new)
       PROVE  RowsApart'
  BY <1>0, <1>15, RenameApart
<1>16. ASSUME NEW n \in Names, NEW b \in Boxes, CreateFolder(n, b)
       PROVE  RowsApart'
  <2>1. /\ uidNext[b] = 0 /\ ~Exists(n) /\ named' = [named EXCEPT ![b] = n]
        /\ nodes' = nodes /\ blurred' = blurred /\ overlapped' = overlapped
        /\ pc' = pc /\ job' = job
    BY <1>16 DEF CreateFolder
  <2>2. named[b] = NoName
    BY <1>0, <2>1 DEF Naming
  <2>3. OwnersStay
    BY <1>0, <2>1, <2>2 DEF OwnersStay, Naming, Cached, Exists
  <2>4. FillsStay
    BY <2>1 DEF FillsStay
  <2> QED BY <1>0, <2>1, <2>3, <2>4, RowsStay
<1>17. ASSUME NEW n \in Names, NEW b \in Boxes, Replace(n, b)
       PROVE  RowsApart'
  <2>1. /\ Exists(n) /\ uidNext[b] = 0 /\ named' = [named EXCEPT ![BoxOf(n)] = NoName, ![b] = n]
        /\ nodes' = nodes /\ blurred' = blurred \cup {n} /\ overlapped' = overlapped
        /\ pc' = pc /\ job' = job
    BY <1>17 DEF Replace
  <2>2. named[b] = NoName /\ named[BoxOf(n)] = n /\ BoxOf(n) \in Boxes
    BY <1>0, <2>1, BoxOfFacts DEF Naming
  <2>3. OwnersStay
    BY <1>0, <2>1, <2>2 DEF OwnersStay, Naming, Cached
  <2>4. FillsStay
    BY <2>1 DEF FillsStay
  <2> QED BY <1>0, <2>1, <2>3, <2>4, RowsStay
<1>18. ASSUME NEW n \in Names, DeleteFolder(n)
       PROVE  RowsApart'
  <2>1. /\ blurred' = blurred /\ overlapped' = overlapped
        /\ \/ nodes' = nodes /\ named' = named
           \/ /\ Exists(n) /\ nodes' = {x \in nodes : x.name # n}
              /\ named' = [named EXCEPT ![BoxOf(n)] = NoName]
    BY <1>18 DEF DeleteFolder, Drop
  <2>2. FillsStay
    BY <1>0, <1>18 DEF DeleteFolder, Leave, Goto, FillsStay, Fills, Tasks
  <2>3. OwnersStay
    BY <1>0, <2>1, BoxOfFacts DEF OwnersStay, Naming, Cached
  <2> QED BY <1>0, <2>1, <2>2, <2>3, RowsStay
<1>19. CASE UNCHANGED vars
  BY <1>0, <1>19, RowsStay DEF vars, OwnersStay, FillsStay
<1> QED
  BY <1>1, <1>2, <1>3, <1>4, <1>5, <1>6, <1>7, <1>8, <1>9, <1>10,
     <1>11, <1>12, <1>13, <1>14, <1>15, <1>16, <1>17, <1>18, <1>19
     DEF Next, Acts, Folders, RequestStep

(* A header is cached twice only under a blurred name, or in a mailbox     *)
(* that two lists filled at once or one filled during a rename, although   *)
(* MailNode.import looks at nothing before it inserts (mail_node.rb): the  *)
(* one list that fills a mailbox waits only for what is not cached.        *)
THEOREM RowsOnce == Spec => []NoRowTwice
<1>1. Init => RowsApart
  BY DEF Init, RowsApart, OneFiller, AwaitedNew, GotApart, NoRowTwice, Fills
<1>2. IndInv /\ RowsApart /\ [Next]_vars => RowsApart'
  BY RowsNext
<1>3. RowsApart => NoRowTwice
  BY DEF RowsApart
<1> QED BY <1>1, <1>2, <1>3, IndInvHolds, PTL DEF Spec
===========================================================================
