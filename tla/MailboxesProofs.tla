-------------------------- MODULE MailboxesProofs --------------------------
(***************************************************************************)
(* Theorems about Mailboxes, for any names, requests and filters and any   *)
(* number of changes: the types, one row per mailbox under the named lock, *)
(* the rows that mirror the server when all requests have ended, and the   *)
(* filters that go on naming their mailboxes.                              *)
(***************************************************************************)
EXTENDS Mailboxes, FiniteSetTheorems, SequenceTheorems, NaturalsInduction, TLAPS

Labels == {"idle", "ready", "reread", "delete", "commit", "lock", "rows",
           "list", "special", "sweep", "save"}
Events == {"creates", "changes", "settings", "outside", "timeouts", "crashes"}
Row == [id : Nat, name : Name]
Tx == [ins : SUBSET Name, ren : SUBSET Row, del : SUBSET Nat,
       follow : SUBSET [filter : Filters, name : Name], off : SUBSET Filters]

(* The server, the rows and the filters; an id names one row.              *)
Served ==
  /\ serial \in Nat \ {0}
  /\ server \subseteq [name : Name, key : Nat]
  /\ \A b \in server : b.key # 0 /\ b.key < serial
Tabled ==
  /\ rows \subseteq Row
  /\ \A r \in rows : r.id # 0 /\ r.id < serial
  /\ \A r, q \in rows : r.id = q.id => r = q
Filtered ==
  /\ target \in [Filters -> Name \cup {NoBox}] /\ enabled \subseteq Filters
  /\ \A f \in enabled : target[f] # NoBox

(* The requests and their transactions, which insert one row at most.      *)
Working ==
  /\ DOMAIN pc = Requests /\ DOMAIN next = Requests
  /\ DOMAIN seen = Requests /\ DOMAIN boxes = Requests /\ DOMAIN todo = Requests
  /\ \A p \in Requests : /\ pc[p] \in Labels /\ next[p] \in {"idle", "reread"}
                         /\ seen[p] \subseteq Row /\ boxes[p] \subseteq Name /\ todo[p] \subseteq Row
Writing ==
  /\ DOMAIN tx = Requests
  /\ \A p \in Requests : /\ tx[p] \in Tx /\ \A m, n \in tx[p].ins : m = n
                         /\ pc[p] # "commit" => tx[p] = NoTx
Locking == holder \subseteq Requests /\ \A p, q \in holder : p = q
Counting == shown \subseteq Name /\ DOMAIN count = Events /\ \A e \in Events : count[e] \in Nat

Types == Served /\ Tabled /\ Filtered /\ Working /\ Writing /\ Locking /\ Counting
---------------------------------------------------------------------------
(* Names                                                                   *)

(* A renamed name is a name.                                               *)
LEMMA RenamedName ==
  ASSUME NEW n \in Name, NEW old \in Name, NEW new \in Name, Under(n, old)
  PROVE  RenamePath(n, old, new) \in Name
<1> DEFINE rest == SubSeq(n, Len(old) + 1, Len(n))
<1>1. /\ n \in Seq(Titles) /\ Len(n) \in Nat /\ \A i \in 1 .. Len(n) : n[i] \in Titles
      /\ Len(old) \in Nat /\ new \in Seq(Titles) /\ new # <<>>
  BY LenProperties, ElementOfSeq DEF Name
<1>2. rest \in Seq(Titles)
  <2>1. \A i \in Len(old) + 1 .. Len(n) : n[i] \in Titles
    BY <1>1
  <2> QED BY <1>1, <2>1, SubSeqProperties
<1> HIDE DEF rest
<1>3. new \o rest \in Seq(Titles) /\ (new \o rest = <<>> => new = <<>>)
  BY <1>1, <1>2, ConcatProperties, ConcatEqualIffEmpty, EmptySeq, LenProperties
<1> QED BY <1>1, <1>3 DEF RenamePath, Name, rest

(* A name lies in its own tree.                                            *)
LEMMA UnderItself == ASSUME NEW n \in Name PROVE Under(n, n)
  BY SubSeqFull, LenProperties DEF Name, Under

(* RENAME keeps the keys and makes names of names.                         *)
LEMMA RenamedBoxes ==
  ASSUME Served, NEW old \in Name, NEW new \in Name
  PROVE  /\ Renamed(server, old, new) \subseteq [name : Name, key : Nat]
         /\ \A b \in Renamed(server, old, new) : b.key # 0 /\ b.key < serial
<1> SUFFICES ASSUME NEW b \in Renamed(server, old, new)
             PROVE  b \in [name : Name, key : Nat] /\ b.key # 0 /\ b.key < serial
  OBVIOUS
<1>1. PICK c \in server :
        b = IF Under(c.name, old) THEN [c EXCEPT !.name = RenamePath(c.name, old, new)] ELSE c
  BY DEF Renamed
<1>2. c \in [name : Name, key : Nat] /\ c.key # 0 /\ c.key < serial
  BY DEF Served
<1>3. CASE ~Under(c.name, old)
  BY <1>1, <1>2, <1>3
<1>4. CASE Under(c.name, old)
  <2> DEFINE n == RenamePath(c.name, old, new)
  <2>1. n \in Name /\ b = [c EXCEPT !.name = n]
    BY <1>1, <1>2, <1>4, RenamedName
  <2> HIDE DEF n
  <2> QED BY <1>2, <2>1
<1> QED BY <1>3, <1>4

(* The rows saved with a row lie in its tree.                              *)
LEMMA TreeRows ==
  ASSUME NEW S \in SUBSET Row, NEW r \in S
  PROVE  /\ Descendants(r, S) \subseteq S /\ SavedWith(r, S) \subseteq S
         /\ \A c \in Descendants(r, S) : Under(c.name, r.name)
         /\ \A c \in SavedWith(r, S) : Under(c.name, r.name)
<1>1. r.name \in Name
  BY DEF Row
<1>2. Under(r.name, r.name)
  BY <1>1, UnderItself
<1> QED BY <1>2 DEF Descendants, SavedWith
---------------------------------------------------------------------------
(* The types                                                               *)

LEMMA NoTxFacts == NoTx \in Tx /\ NoTx.ins = {} /\ NoTx.ren = {} /\ NoTx.del = {}
                   /\ NoTx.follow = {} /\ NoTx.off = {}
  BY DEF NoTx, Tx

(* What the transaction of a change has written.                           *)
LEMMA TxFacts ==
  /\ \A n \in Name : LET t == [NoTx EXCEPT !.ins = {n}] IN t \in Tx /\ t.ins = {n}
  /\ \A R \in SUBSET Row, F \in SUBSET [filter : Filters, name : Name] :
       LET t == [NoTx EXCEPT !.ren = R, !.follow = F]
       IN t \in Tx /\ t.ins = {} /\ t.ren = R /\ t.follow = F /\ t.del = {} /\ t.off = {}
  /\ \A D \in SUBSET Nat, F \in SUBSET Filters :
       LET t == [NoTx EXCEPT !.del = D, !.off = F]
       IN t \in Tx /\ t.ins = {} /\ t.del = D /\ t.off = F /\ t.ren = {} /\ t.follow = {}
  BY DEF NoTx, Tx

(* The variables start with values of their types.                         *)
LEMMA InitTypes == Init => Types
<1> SUFFICES ASSUME Init PROVE Types
  OBVIOUS
<1>1. /\ Len(Existing) \in Nat /\ DOMAIN Existing = 1 .. Len(Existing)
      /\ \A i \in DOMAIN Existing : Existing[i] \in Name
  BY MailboxesAssumption, LenProperties, ElementOfSeq
<1>2. Served
  BY <1>1 DEF Init, Served
<1>3. Tabled
  BY <1>1 DEF Init, Tabled, Row
<1>4. Filtered /\ Working /\ Writing /\ Locking
  BY NoTxFacts DEF Init, Filtered, Working, Writing, Locking, Labels
<1>5. Counting
  BY DEF Init, Counting, Events
<1> QED BY <1>2, <1>3, <1>4, <1>5 DEF Types

(* Counting an event.                                                      *)
LEMMA BumpCounts ==
  ASSUME Counting, NEW e \in Events, count' = [count EXCEPT ![e] = @ + 1], shown' \subseteq Name
  PROVE  Counting'
  BY DEF Counting

(* The steps of a request that write nothing others see.                   *)
LEMMA QuietTypes ==
  ASSUME Types, NEW p \in Requests,
         Load(p) \/ Reread(p) \/ Browse(p) \/ LockTimeout(p) \/ GetLock(p) \/ ReadRows(p)
           \/ ReadList(p) \/ SweepDone(p) \/ SyncDone(p) \/ Crash(p)
           \/ \E r \in seen[p] : DeleteBox(p, r)
  PROVE  Types'
<1>1. UNCHANGED data
  BY DEF Load, Reread, Browse, LockTimeout, GetLock, ReadRows, ReadList, SweepDone, SyncDone,
         Crash, DeleteBox
<1>2. Served' /\ Tabled' /\ Filtered'
  BY <1>1 DEF Types, Served, Tabled, Filtered, data
<1>3. ASSUME NEW T \in SUBSET Row PROVE Names(T) \subseteq Name
  BY DEF Names, Row
<1>4. Names(server) \subseteq Name
  BY DEF Names, Types, Served
<1>5. Counting'
  <2>1. CASE UNCHANGED <<shown, count>>
    BY <2>1 DEF Types, Counting
  <2>2. CASE shown' = shown \cup Names(rows) /\ count' = count
    BY <1>3, <2>2 DEF Types, Counting, Tabled
  <2>3. CASE Bump("timeouts") /\ shown' = shown
    BY <2>3, BumpCounts DEF Types, Counting, Bump, Events
  <2>4. CASE Bump("crashes") /\ shown' = shown
    BY <2>4, BumpCounts DEF Types, Counting, Bump, Events
  <2>5. CASE Bump("changes") /\ shown' = shown
    BY <2>5, BumpCounts DEF Types, Counting, Bump, Events
  <2> QED
    BY <2>1, <2>2, <2>3, <2>4, <2>5 DEF Load, Reread, Browse, LockTimeout, GetLock, ReadRows,
       ReadList, SweepDone, SyncDone, Crash, DeleteBox, history
<1>6. Locking'
  BY DEF Types, Locking, Load, Reread, Browse, LockTimeout, GetLock, ReadRows, ReadList,
         SweepDone, SyncDone, Crash, DeleteBox, Leave
<1>7. Writing'
  <2>1. \/ tx' = tx /\ pc[p] # "commit" /\ \E l : pc' = [pc EXCEPT ![p] = l]
        \/ tx' = [tx EXCEPT ![p] = NoTx] /\ \E l : pc' = [pc EXCEPT ![p] = l]
    BY DEF Load, Reread, Browse, LockTimeout, GetLock, ReadRows, ReadList, SweepDone, SyncDone,
           Crash, DeleteBox, Leave, Goto, local
  <2> QED BY <2>1, NoTxFacts DEF Types, Writing, Working
<1>8. Working'
  <2>1. CASE Load(p) \/ Reread(p) \/ Browse(p) \/ LockTimeout(p) \/ GetLock(p)
    BY <2>1 DEF Types, Working, Tabled, Labels, Load, Reread, Browse, LockTimeout, GetLock, Goto,
                local
  <2>2. CASE ReadRows(p) \/ SweepDone(p) \/ SyncDone(p) \/ Crash(p)
    BY <2>2 DEF Types, Working, Tabled, Labels, ReadRows, SweepDone, SyncDone, Crash, Goto, Leave,
                local
  <2>3. CASE ReadList(p)
    BY <1>4, <2>3 DEF Types, Working, Labels, ReadList, Goto
  <2>4. CASE \E r \in seen[p] : DeleteBox(p, r)
    <3>1. \A r \in seen[p] : Descendants(r, seen[p]) \subseteq Row
      BY TreeRows DEF Types, Working
    <3> QED BY <2>4, <3>1 DEF Types, Working, Labels, DeleteBox, Goto
  <2> QED BY <2>1, <2>2, <2>3, <2>4
<1> QED BY <1>2, <1>5, <1>6, <1>7, <1>8 DEF Types

(* A creation, and what its transaction writes.                            *)
LEMMA CreateTypes ==
  ASSUME Types, NEW p \in Requests, NEW n \in Typed, CreateBox(p, n)
  PROVE  Types'
<1>1. n \in Name
  BY MailboxesAssumption
<1>2. /\ pc[p] = "ready" /\ Bump("creates")
      /\ UNCHANGED <<rows, target, enabled, holder, next, seen, boxes, aim, shown, doubled>>
  BY DEF CreateBox
<1>3. Counting'
  BY <1>2, BumpCounts DEF Types, Counting, Bump, Events
<1>4. CASE n \in Names(server)
  <2>1. Refused(p)
    BY <1>4 DEF CreateBox
  <2>2. Served' /\ Tabled' /\ Filtered' /\ Locking'
    BY <1>2, <2>1 DEF Types, Served, Tabled, Filtered, Locking, Refused
  <2>3. Working' /\ Writing'
    BY <1>2, <2>1 DEF Types, Working, Writing, Refused, Goto, Labels
  <2> QED BY <1>3, <2>2, <2>3 DEF Types
<1>5. CASE n \notin Names(server)
  <2>1. /\ server' = server \cup {[name |-> n, key |-> serial]}
        /\ serial' = serial + 1
        /\ tx' = [tx EXCEPT ![p] = [NoTx EXCEPT !.ins = {n}]]
        /\ pc' = [pc EXCEPT ![p] = "commit"] /\ todo' = todo
    BY <1>5 DEF CreateBox, Goto
  <2>2. Served'
    BY <1>1, <2>1 DEF Types, Served
  <2>3. Tabled'
    <3>1. serial \in Nat /\ \A q \in rows : q.id \in Nat
      BY DEF Types, Served, Tabled, Row
    <3> QED BY <1>2, <2>1, <3>1 DEF Types, Tabled
  <2>4. Filtered' /\ Locking'
    BY <1>2, <2>1 DEF Types, Filtered, Locking
  <2>5. Working'
    BY <1>2, <2>1 DEF Types, Working, Labels
  <2>6. Writing'
    <3> DEFINE t == [NoTx EXCEPT !.ins = {n}]
    <3>1. t \in Tx /\ t.ins = {n} /\ tx' = [tx EXCEPT ![p] = t]
      BY <1>1, <2>1, TxFacts
    <3> HIDE DEF t
    <3>2. \A u, v \in t.ins : u = v
      BY <3>1
    <3>3. /\ DOMAIN tx' = Requests /\ tx'[p] = t /\ pc'[p] = "commit"
          /\ \A q \in Requests \ {p} : tx'[q] = tx[q] /\ pc'[q] = pc[q]
      BY <2>1, <3>1 DEF Types, Writing, Working
    <3> QED BY <3>1, <3>2, <3>3 DEF Types, Writing
  <2> QED BY <1>3, <2>2, <2>3, <2>4, <2>5, <2>6 DEF Types
<1> QED BY <1>4, <1>5

(* A rename, and what its transaction writes.                              *)
LEMMA RenameTypes ==
  ASSUME Types, NEW p \in Requests, NEW r \in seen[p], NEW new \in Name,
         NEW saved \in SUBSET seen[p], \A c \in saved : Under(c.name, r.name),
         RenameMailbox(p, r, new, saved)
  PROVE  Types'
<1>1. r \in Row /\ r.name \in Name /\ saved \subseteq Row
  BY DEF Types, Working, Row
<1>2. /\ pc[p] = "ready" /\ Bump("changes")
      /\ UNCHANGED <<rows, target, enabled, holder, next, seen, boxes, aim, shown, doubled>>
  BY DEF RenameMailbox
<1>3. Counting'
  BY <1>2, BumpCounts DEF Types, Counting, Bump, Events
<1>4. CASE Refused(p)
  <2>2. Served' /\ Tabled' /\ Filtered' /\ Locking'
    BY <1>2, <1>4 DEF Types, Served, Tabled, Filtered, Locking, Refused
  <2>3. Working' /\ Writing'
    BY <1>2, <1>4 DEF Types, Working, Writing, Refused, Goto, Labels
  <2> QED BY <1>3, <2>2, <2>3 DEF Types
<1>5. CASE ~Refused(p)
  <2> DEFINE R == {[id |-> c.id, name |-> RenamePath(c.name, r.name, new)] : c \in saved}
             F == {[filter |-> f, name |-> RenamePath(target[f], r.name, new)] :
                     f \in FiltersOn(Names(saved))}
  <2>1. /\ server' = Renamed(server, r.name, new) /\ UNCHANGED <<serial, todo>>
        /\ tx' = [tx EXCEPT ![p] = [NoTx EXCEPT !.ren = R, !.follow = F]]
        /\ pc' = [pc EXCEPT ![p] = "commit"]
    BY <1>5 DEF RenameMailbox, Goto
  <2>2. Served'
    BY <1>1, <2>1, RenamedBoxes DEF Types, Served
  <2>3. Tabled' /\ Filtered' /\ Locking'
    BY <1>2, <2>1 DEF Types, Served, Tabled, Filtered, Locking
  <2>4. Working'
    BY <1>2, <2>1 DEF Types, Working, Labels
  <2>5. R \subseteq Row
    <3>1. \A c \in saved : c.id \in Nat /\ RenamePath(c.name, r.name, new) \in Name
      BY <1>1, RenamedName DEF Row
    <3> QED BY <3>1 DEF Row
  <2>6. F \subseteq [filter : Filters, name : Name]
    <3>1. \A f \in FiltersOn(Names(saved)) : \E c \in saved : target[f] = c.name
      BY DEF FiltersOn, Names
    <3>2. \A f \in FiltersOn(Names(saved)) : RenamePath(target[f], r.name, new) \in Name
      BY <1>1, <3>1, RenamedName DEF Row
    <3>3. FiltersOn(Names(saved)) \subseteq Filters
      BY DEF FiltersOn
    <3> QED BY <3>2, <3>3
  <2> HIDE DEF R, F
  <2>7. Writing'
    <3> DEFINE t == [NoTx EXCEPT !.ren = R, !.follow = F]
    <3>1. t \in Tx /\ t.ins = {} /\ tx' = [tx EXCEPT ![p] = t]
      BY <2>1, <2>5, <2>6, TxFacts
    <3> HIDE DEF t
    <3>2. \A u, v \in t.ins : u = v
      BY <3>1
    <3>3. /\ DOMAIN tx' = Requests /\ tx'[p] = t /\ pc'[p] = "commit"
          /\ \A q \in Requests \ {p} : tx'[q] = tx[q] /\ pc'[q] = pc[q]
      BY <2>1, <3>1 DEF Types, Writing, Working
    <3> QED BY <3>1, <3>2, <3>3 DEF Types, Writing
  <2> QED BY <1>3, <2>2, <2>3, <2>4, <2>7 DEF Types
<1> QED BY <1>4, <1>5

(* Of finitely or infinitely many names one is shortest.                   *)
LEMMA ShortestName ==
  ASSUME NEW S, S \subseteq Name, S # {}
  PROVE  (CHOOSE n \in S : \A m \in S : Len(n) <= Len(m)) \in S
<1> DEFINE L == {Len(n) : n \in S}
<1>1. L \subseteq Nat /\ L # {}
  BY LenProperties DEF Name
<1>2. \E k \in L : \A j \in L : ~(j < k)
  <2>1. IsWellFoundedOn(OpToRel(<, Nat), Nat)
    BY NatLessThanWellFounded
  <2>2. PICK k \in L : \A j \in L : <<j, k>> \notin OpToRel(<, Nat)
    BY <1>1, <2>1, WFMin
  <2> QED BY <1>1, <2>2 DEF OpToRel
<1>3. \E n \in S : \A m \in S : Len(n) <= Len(m)
  <2>1. PICK k \in L : \A j \in L : ~(j < k)
    BY <1>2
  <2>2. PICK n \in S : Len(n) = k
    OBVIOUS
  <2>3. k \in Nat /\ \A m \in S : Len(m) \in L /\ Len(m) \in Nat
    BY <1>1
  <2> HIDE DEF L
  <2> QED BY <2>1, <2>2, <2>3
<1> QED BY <1>3

(* delete_mailbox, and what its transaction writes.                        *)
LEMMA DeleteTypes ==
  ASSUME Types, NEW p \in Requests, NEW d \in todo[p], DeleteMailbox(p, d)
  PROVE  Types'
<1> DEFINE gone == Descendants(d, seen[p])
           t == [NoTx EXCEPT !.del = Ids(gone), !.off = FiltersOn(Names(gone))]
<1>1. /\ pc[p] = "delete"
      /\ UNCHANGED <<rows, target, enabled, holder, next, seen, boxes, history>>
  BY DEF DeleteMailbox
<1>2. Counting'
  BY <1>1 DEF Types, Counting, history
<1>3. CASE Refused(p)
  <2>2. Served' /\ Tabled' /\ Filtered' /\ Locking'
    BY <1>1, <1>3 DEF Types, Served, Tabled, Filtered, Locking, Refused
  <2>3. Working' /\ Writing'
    BY <1>1, <1>3 DEF Types, Working, Writing, Refused, Goto, Labels
  <2> QED BY <1>2, <2>2, <2>3 DEF Types
<1>4. CASE ~Refused(p)
  <2>1. /\ server' = {b \in server : b.name # d.name} /\ serial' = serial
        /\ tx' = [tx EXCEPT ![p] = t] /\ todo' = [todo EXCEPT ![p] = @ \ {d}]
        /\ pc' = [pc EXCEPT ![p] = "commit"]
    BY <1>4 DEF DeleteMailbox, Goto
  <2>2. Served' /\ Tabled' /\ Filtered' /\ Locking'
    BY <1>1, <2>1 DEF Types, Served, Tabled, Filtered, Locking
  <2>3. Working'
    BY <1>1, <2>1 DEF Types, Working, Labels
  <2>4. gone \subseteq Row
    BY DEF Types, Working, Descendants
  <2>5. t \in Tx /\ t.ins = {}
    <3>1. Ids(gone) \subseteq Nat
      BY <2>4 DEF Ids, Row
    <3>2. FiltersOn(Names(gone)) \subseteq Filters
      BY DEF FiltersOn
    <3> HIDE DEF gone
    <3> QED BY <3>1, <3>2, TxFacts
  <2> HIDE DEF t
  <2>6. Writing'
    BY <2>1, <2>5 DEF Types, Writing, Working
  <2> QED BY <1>2, <2>2, <2>3, <2>6 DEF Types
<1> QED BY <1>3, <1>4

(* The transaction of a request takes effect.                              *)
LEMMA CommitTypes ==
  ASSUME Types, NEW p \in Requests, Commit(p)
  PROVE  Types'
<1> DEFINE t == tx[p]
           newname(r) == IF r.id \in Ids(t.ren) THEN (CHOOSE x \in t.ren : x.id = r.id).name ELSE r.name
           kept == {r \in rows : r.id \notin t.del}
           moved(r) == [r EXCEPT !.name = newname(r)]
           added == {[id |-> serial, name |-> n] : n \in t.ins}
<1>1. /\ pc[p] = "commit"
      /\ rows' = {moved(r) : r \in kept} \cup added
      /\ serial' = serial + Cardinality(t.ins)
      /\ target' = [f \in Filters |->
                      IF f \in t.off THEN NoBox
                      ELSE IF \E x \in t.follow : x.filter = f
                           THEN (CHOOSE x \in t.follow : x.filter = f).name ELSE target[f]]
      /\ enabled' = enabled \ t.off
      /\ tx' = [tx EXCEPT ![p] = NoTx]
      /\ \E l \in {"delete", "lock"} : pc' = [pc EXCEPT ![p] = l]
      /\ UNCHANGED <<server, holder, next, seen, boxes, todo, shown, count>>
  BY DEF Commit, Goto
<1>2. t \in Tx /\ (\A m, n \in t.ins : m = n) /\ serial \in Nat \ {0}
  BY DEF Types, Writing, Served
<1>3. /\ t.ins \subseteq Name /\ t.ren \subseteq Row /\ t.off \subseteq Filters
      /\ t.follow \subseteq [filter : Filters, name : Name]
  BY <1>2 DEF Tx
<1>4. /\ serial' \in Nat \ {0} /\ serial <= serial'
      /\ \A n \in t.ins : serial < serial'
  <2>1. CASE t.ins = {}
    BY <1>1, <1>2, <2>1, FS_EmptySet
  <2>2. CASE t.ins # {}
    <3>1. PICK n \in t.ins : t.ins = {n}
      BY <1>2, <2>2
    <3>2. Cardinality(t.ins) = 1
      BY <3>1, FS_Singleton
    <3> QED BY <1>1, <1>2, <3>2
  <2> QED BY <2>1, <2>2
<1>5. Served' /\ Locking' /\ Counting'
  BY <1>1, <1>4 DEF Types, Served, Locking, Counting
<1>6. Filtered'
  <2>1. \A f \in Filters : (\E x \in t.follow : x.filter = f)
          => (CHOOSE x \in t.follow : x.filter = f).name \in Name
    BY <1>3
  <2> HIDE DEF t
  <2> QED BY <1>1, <1>3, <2>1, MailboxesAssumption DEF Types, Filtered
<1>7. Working' /\ Writing'
  BY <1>1, NoTxFacts DEF Types, Working, Writing, Labels
<1>8. Tabled'
  <2>1. \A r \in rows : newname(r) \in Name
    <3>1. \A r \in rows : r.id \in Ids(t.ren) => (CHOOSE x \in t.ren : x.id = r.id) \in t.ren
      BY DEF Ids
    <3> QED BY <1>3, <3>1 DEF Types, Tabled, Row
  <2> HIDE DEF newname, t
  <2>2. \A r \in kept : r \in rows /\ moved(r) \in Row /\ moved(r).id = r.id
    BY <2>1 DEF Types, Tabled, Row
  <2>3. \A r \in added : r \in Row /\ r.id = serial /\ serial < serial'
    BY <1>2, <1>3, <1>4 DEF Row
  <2>4. \A r, q \in added : r = q
    BY <1>2
  <2>5. \A r \in rows : r.id \in Nat /\ r.id # 0 /\ r.id < serial
    BY DEF Types, Tabled, Row
  <2> HIDE DEF moved, kept, added
  <2>6. rows' \subseteq Row
    BY <1>1, <2>2, <2>3
  <2>7. \A r \in rows' : r.id # 0 /\ r.id < serial'
    <3>1. \A r \in kept : r.id # 0 /\ r.id < serial'
      BY <1>2, <1>4, <2>2, <2>5
    <3> QED BY <1>1, <1>2, <2>2, <2>3, <3>1
  <2>8. ASSUME NEW r \in rows', NEW q \in rows', r.id = q.id PROVE r = q
    <3>1. CASE r \in added /\ q \in added
      BY <2>4, <3>1
    <3>2. CASE r \notin added /\ q \notin added
      <4>1. PICK a \in kept : r = moved(a)
        BY <1>1, <3>2
      <4>2. PICK c \in kept : q = moved(c)
        BY <1>1, <3>2
      <4>3. a.id = c.id /\ a \in rows /\ c \in rows
        BY <2>2, <2>8, <4>1, <4>2
      <4>4. a = c
        BY <4>3 DEF Types, Tabled
      <4> QED BY <4>1, <4>2, <4>4
    <3>3. ASSUME NEW x \in added, NEW y \in rows', y \notin added, x.id = y.id PROVE FALSE
      <4>1. PICK a \in kept : y = moved(a)
        BY <1>1, <3>3
      <4>2. y.id = a.id /\ a \in rows /\ x.id = serial
        BY <2>2, <2>3, <4>1
      <4> QED BY <1>2, <2>5, <3>3, <4>2
    <3> QED BY <2>8, <3>1, <3>2, <3>3
  <2> QED BY <2>6, <2>7, <2>8 DEF Tabled
<1> QED BY <1>5, <1>6, <1>7, <1>8 DEF Types

(* The steps of a sync that write.                                         *)
LEMMA SyncTypes ==
  ASSUME Types, NEW p \in Requests,
         CreateSpecial(p) \/ InsertRow(p) \/ \E r \in todo[p] : DestroyRow(p, r)
  PROVE  Types'
<1>1. serial \in Nat \ {0} /\ \A r \in rows : r.id \in Nat /\ r.id # 0 /\ r.id < serial
  BY DEF Types, Served, Tabled, Row
<1>2. CASE CreateSpecial(p)
  <2>1. Trash \in Name
    BY MailboxesAssumption
  <2>2. CASE Trash \in Names(server)
    <3>1. Served' /\ Tabled' /\ Filtered' /\ Locking' /\ Counting'
      BY <1>2, <2>2 DEF Types, Served, Tabled, Filtered, Locking, Counting, CreateSpecial, Leave,
                        history
    <3>2. Working' /\ Writing'
      BY <1>2, <2>2, NoTxFacts DEF Types, Working, Writing, CreateSpecial, Leave, Goto, Labels
    <3> QED BY <3>1, <3>2 DEF Types
  <2>3. CASE Trash \notin Names(server)
    <3>1. /\ server' = server \cup {[name |-> Trash, key |-> serial]} /\ serial' = serial + 1
          /\ pc[p] = "special" /\ pc' = [pc EXCEPT ![p] = "list"]
          /\ UNCHANGED <<rows, target, enabled, holder, local, history>>
      BY <1>2, <2>3 DEF CreateSpecial, Goto
    <3>2. Served'
      BY <2>1, <3>1 DEF Types, Served
    <3>3. Tabled'
      BY <1>1, <3>1 DEF Types, Tabled
    <3>4. Filtered' /\ Locking' /\ Counting'
      BY <3>1 DEF Types, Filtered, Locking, Counting, history
    <3>5. Working' /\ Writing'
      BY <3>1 DEF Types, Working, Writing, local, Labels
    <3> QED BY <3>2, <3>3, <3>4, <3>5 DEF Types
  <2> QED BY <2>2, <2>3
<1>3. CASE InsertRow(p)
  <2> DEFINE missing == boxes[p] \ Names(seen[p])
             first   == CHOOSE n \in missing : \A m \in missing : Len(n) <= Len(m)
             row     == [id |-> serial, name |-> first]
  <2>1. /\ missing # {} /\ rows' = rows \cup {row} /\ seen' = [seen EXCEPT ![p] = @ \cup {row}]
        /\ serial' = serial + 1
        /\ UNCHANGED <<server, target, enabled, holder, pc, next, boxes, todo, tx, aim, shown, count>>
    BY <1>3 DEF InsertRow
  <2>2. first \in missing
    BY <2>1, ShortestName DEF Types, Working
  <2>3. row \in Row /\ row.id = serial
    BY <1>1, <2>2 DEF Types, Working, Row
  <2> HIDE DEF row
  <2>4. Served'
    BY <2>1 DEF Types, Served
  <2>5. Tabled'
    BY <1>1, <2>1, <2>3 DEF Types, Tabled
  <2>6. Filtered' /\ Locking' /\ Counting'
    BY <2>1 DEF Types, Filtered, Locking, Counting
  <2>7. Working' /\ Writing'
    BY <2>1, <2>3 DEF Types, Working, Writing
  <2> QED BY <2>4, <2>5, <2>6, <2>7 DEF Types
<1>4. ASSUME NEW r \in todo[p], DestroyRow(p, r) PROVE Types'
  <2>1. Served' /\ Tabled' /\ Locking' /\ Counting' /\ Working' /\ Writing'
    BY <1>4 DEF Types, Served, Tabled, Locking, Counting, Working, Writing, DestroyRow, history
  <2>2. Filtered'
    BY <1>4 DEF Types, Filtered, DestroyRow, FiltersOn
  <2> QED BY <2>1, <2>2 DEF Types
<1> QED BY <1>2, <1>3, <1>4

(* The user and other clients.                                             *)
LEMMA OtherTypes ==
  ASSUME Types, Outside \/ \E f \in Filters, n \in shown : SaveFilter(f, n)
  PROVE  Types'
<1>1. serial \in Nat \ {0} /\ \A r \in rows : r.id \in Nat /\ r.id # 0 /\ r.id < serial
  BY DEF Types, Served, Tabled, Row
<1>2. ASSUME NEW f \in Filters, NEW n \in shown, SaveFilter(f, n) PROVE Types'
  <2>1. /\ Bump("settings") /\ target' = [target EXCEPT ![f] = n] /\ enabled' = enabled \cup {f}
        /\ UNCHANGED <<server, rows, serial, holder, pc, local, shown>>
    BY <1>2 DEF SaveFilter
  <2>2. n \in Name /\ n # NoBox
    BY MailboxesAssumption DEF Types, Counting
  <2>3. Served' /\ Tabled' /\ Filtered' /\ Locking' /\ Working' /\ Writing'
    BY <2>1, <2>2 DEF Types, Served, Tabled, Filtered, Locking, Working, Writing, local
  <2>4. Counting'
    BY <2>1, BumpCounts DEF Types, Counting, Bump, Events
  <2> QED BY <2>3, <2>4 DEF Types
<1>3. CASE Outside
  <2>1. /\ Bump("outside") /\ UNCHANGED <<rows, target, enabled, holder, pc, local, shown>>
    BY <1>3 DEF Outside
  <2>2. Counting'
    BY <2>1, BumpCounts DEF Types, Counting, Bump, Events
  <2>3. Filtered' /\ Locking' /\ Working' /\ Writing'
    BY <2>1 DEF Types, Filtered, Locking, Working, Writing, local
  <2>4. serial' \in Nat /\ serial <= serial'
    BY <1>1, <1>3 DEF Outside
  <2>5. Tabled'
    BY <1>1, <2>1, <2>4 DEF Types, Tabled
  <2>6. Served'
    <3>1. ASSUME NEW n \in Foreign, server' = server \cup {[name |-> n, key |-> serial]},
                 serial' = serial + 1
          PROVE  Served'
      BY <3>1, MailboxesAssumption DEF Types, Served
    <3>2. ASSUME NEW b \in server, NEW n \in Foreign, server' = Renamed(server, b.name, n),
                 serial' = serial
          PROVE  Served'
      <4>1. b.name \in Name /\ n \in Name
        BY MailboxesAssumption DEF Types, Served
      <4> QED BY <3>2, <4>1, RenamedBoxes DEF Types, Served
    <3>3. ASSUME NEW b \in server, server' = server \ {b}, serial' = serial
          PROVE  Served'
      BY <3>3 DEF Types, Served
    <3> QED BY <1>3, <3>1, <3>2, <3>3 DEF Outside
  <2> QED BY <2>2, <2>3, <2>5, <2>6 DEF Types
<1> QED BY <1>2, <1>3

(* Every step keeps the types.                                             *)
LEMMA NextTypes == Types /\ [Next]_vars => Types'
<1> SUFFICES ASSUME Types, [Next]_vars PROVE Types'
  OBVIOUS
<1>1. CASE UNCHANGED vars
  <2>1. Served' /\ Tabled' /\ Filtered' /\ Locking' /\ Counting'
    BY <1>1 DEF Types, Served, Tabled, Filtered, Locking, Counting, vars, data, history
  <2>2. Working' /\ Writing'
    BY <1>1 DEF Types, Working, Writing, vars, local
  <2> QED BY <2>1, <2>2 DEF Types
<1>2. ASSUME NEW p \in Requests, Change(p) PROVE Types'
  <2>1. seen[p] \in SUBSET Row
    BY DEF Types, Working
  <2>2. ASSUME NEW r \in seen[p], NEW n \in Typed, RenameBox(p, r, n) PROVE Types'
    <3>1. RenameMailbox(p, r, n, SavedWith(r, seen[p])) /\ n \in Name
      BY <2>2, MailboxesAssumption DEF RenameBox
    <3> QED BY <2>1, <3>1, TreeRows, RenameTypes
  <2>3. ASSUME NEW r \in seen[p], TrashBox(p, r) PROVE Types'
    <3> DEFINE new == Trash \o <<r.name[Len(r.name)]>>
               saved == IF TitleOk(r.name) THEN SavedWith(r, seen[p]) ELSE {}
    <3>1. RenameMailbox(p, r, new, saved)
      BY <2>3 DEF TrashBox
    <3>2. saved \in SUBSET seen[p] /\ \A c \in saved : Under(c.name, r.name)
      BY <2>1, TreeRows
    <3>3. new \in Name
      <4>1. r.name \in Seq(Titles) /\ r.name # <<>> /\ Trash \in Seq(Titles) /\ Trash # <<>>
        BY <2>1, MailboxesAssumption DEF Row, Name
      <4>2. Len(r.name) \in 1 .. Len(r.name)
        BY <4>1, EmptySeq
      <4>3. <<r.name[Len(r.name)]>> \in Seq(Titles)
        BY <4>1, <4>2, ElementOfSeq
      <4> QED BY <4>1, <4>3, ConcatProperties, ConcatEqualIffEmpty, EmptySeq DEF Name
    <3> HIDE DEF new, saved
    <3> QED BY <3>1, <3>2, <3>3, RenameTypes
  <2> QED BY <1>2, <2>2, <2>3, CreateTypes, QuietTypes DEF Change
<1>3. ASSUME NEW p \in Requests, Load(p) \/ RequestStep(p) \/ LockTimeout(p) \/ Crash(p)
      PROVE  Types'
  BY <1>2, <1>3, QuietTypes, DeleteTypes, CommitTypes, SyncTypes DEF RequestStep, SyncStep
<1> QED BY <1>1, <1>3, OtherTypes DEF Next

(* The types hold in every state.                                          *)
LEMMA TypesHold == Spec => []Types
  BY InitTypes, NextTypes, PTL DEF Spec

(* The types: in particular no request leaves its transaction open, one    *)
(* request at most holds the named lock, and an enabled filter has a       *)
(* target: disable_filters clears state and name together                  *)
(* (mailbox.rb:277-279), and a rename leads from a name to a name.         *)
THEOREM TypeCorrect == Spec => []TypeOK
<1>1. Types => TypeOK
  <2> SUFFICES ASSUME Types PROVE TypeOK
    OBVIOUS
  <2>1. /\ \A b \in server : b.key \in 1 .. (serial - 1)
        /\ \A r \in rows : r.id \in 1 .. (serial - 1)
    <3>1. serial \in Nat /\ (\A b \in server : b.key \in Nat) /\ \A r \in rows : r.id \in Nat
      BY DEF Types, Served, Tabled, Row
    <3> QED BY <3>1 DEF Types, Served, Tabled
  <2>2. Cardinality(holder) <= 1
    <3>1. holder = {} \/ \E p \in holder : holder = {p}
      BY DEF Types, Locking
    <3> QED BY <3>1, FS_EmptySet, FS_Singleton
  <2> QED BY <2>1, <2>2 DEF Types, Filtered, Locking, Working, Writing, Labels, TypeOK
<1> QED BY <1>1, TypesHold, PTL
---------------------------------------------------------------------------
(* One row for a mailbox                                                   *)

(* Unless it was refused, a request that synchronises has the named lock.  *)
Syncing(p) == pc[p] \in {"rows", "list", "special", "sweep", "save"}
Locked == count.timeouts = 0 => \A p \in Requests : Syncing(p) => p \in holder

(* What has a row was seen by the request that may add rows.               *)
Undisturbed == count.timeouts = 0 /\ count.creates = 0 /\ count.changes = 0
Looked(p) == pc[p] \in {"list", "special", "sweep", "save"}
SingleRows ==
  Undisturbed =>
    /\ \A p \in Requests : pc[p] \notin {"delete", "commit"}
    /\ \A p \in Requests : Looked(p) => Names(rows) \subseteq Names(seen[p])
    /\ \A r, q \in rows : r.name = q.name => r = q
RowsInv == Types /\ Locked /\ SingleRows

(* The counters only grow.                                                 *)
LEMMA CountsGrow ==
  ASSUME Types, Next
  PROVE  \A e \in Events : count'[e] >= count[e]
<1>1. CASE count' = count
  BY <1>1 DEF Types, Counting
<1>2. ASSUME NEW e \in Events, count' = [count EXCEPT ![e] = @ + 1]
      PROVE  \A d \in Events : count'[d] >= count[d]
  BY <1>2 DEF Types, Counting
<1>3. count' = count \/ \E e \in Events : count' = [count EXCEPT ![e] = @ + 1]
  <2>1. \A e \in Events : Bump(e) => count' = [count EXCEPT ![e] = @ + 1]
    BY DEF Bump
  <2>2. Events = {"creates", "changes", "settings", "outside", "timeouts", "crashes"}
    BY DEF Events
  <2>3. ASSUME NEW p \in Requests, Change(p)
        PROVE  count' = count \/ \E e \in Events : Bump(e)
    BY <2>2, <2>3 DEF Change, CreateBox, RenameBox, TrashBox, RenameMailbox, DeleteBox
  <2>4. ASSUME NEW p \in Requests, Load(p) \/ RequestStep(p) \/ LockTimeout(p) \/ Crash(p)
        PROVE  count' = count \/ \E e \in Events : Bump(e)
    BY <2>2, <2>3, <2>4 DEF RequestStep, SyncStep, Load, Reread, Browse, DeleteMailbox, Commit,
       GetLock, LockTimeout, ReadRows, ReadList, CreateSpecial, DestroyRow, SweepDone, InsertRow,
       SyncDone, Crash, history
  <2>5. ASSUME NEW f \in Filters, NEW n \in shown, SaveFilter(f, n)
        PROVE  \E e \in Events : Bump(e)
    BY <2>2, <2>5 DEF SaveFilter
  <2>6. CASE Outside
    BY <2>1, <2>2, <2>6 DEF Outside
  <2> QED BY <2>1, <2>4, <2>5, <2>6 DEF Next
<1> QED BY <1>1, <1>2, <1>3

(* The other requests keep their place.                                    *)
Alone(p) == \A q \in Requests \ {p} : pc'[q] = pc[q] /\ seen'[q] = seen[q] /\ boxes'[q] = boxes[q]
                                      /\ todo'[q] = todo[q]
(* A step of one request leaves what the others have read.                 *)
LEMMA OneMoves ==
  ASSUME Types, NEW p \in Requests, Load(p) \/ RequestStep(p) \/ LockTimeout(p) \/ Crash(p)
  PROVE  Alone(p)
<1>1. DOMAIN pc = Requests /\ DOMAIN seen = Requests /\ DOMAIN boxes = Requests
      /\ DOMAIN todo = Requests
  BY DEF Types, Working
<1>2. ASSUME NEW r \in seen[p], NEW new, NEW saved, RenameMailbox(p, r, new, saved) PROVE Alone(p)
  BY <1>1, <1>2 DEF RenameMailbox, Refused, Goto, Alone
<1>3. ASSUME Change(p) PROVE Alone(p)
  BY <1>1, <1>2, <1>3 DEF Change, CreateBox, RenameBox, TrashBox, DeleteBox, Refused, Goto, Alone
<1>4. CASE Load(p) \/ Reread(p) \/ Browse(p) \/ GetLock(p) \/ LockTimeout(p) \/ Commit(p)
  BY <1>1, <1>4 DEF Load, Reread, Browse, GetLock, LockTimeout, Commit, Goto, Alone, local
<1>5. CASE Crash(p) \/ SyncDone(p) \/ CreateSpecial(p)
  BY <1>1, <1>5 DEF Crash, SyncDone, CreateSpecial, Leave, Goto, Alone, local
<1>6. CASE ReadRows(p) \/ ReadList(p) \/ SweepDone(p) \/ InsertRow(p)
  BY <1>1, <1>6 DEF ReadRows, ReadList, SweepDone, InsertRow, Goto, Alone, local
<1>7. CASE \E d \in todo[p] : DeleteMailbox(p, d) \/ DestroyRow(p, d)
  BY <1>1, <1>7 DEF DeleteMailbox, DestroyRow, Refused, Goto, Alone
<1> QED BY <1>3, <1>4, <1>5, <1>6, <1>7 DEF RequestStep, SyncStep

(* The lock is taken when it is free, and kept until the sync is over.     *)
LEMMA NextLocked ==
  ASSUME Types, Locked, Next PROVE Locked'
<1> SUFFICES ASSUME count'.timeouts = 0, NEW q \in Requests, Syncing(q)' PROVE q \in holder'
  BY DEF Locked
<1>1. count.timeouts = 0
  BY CountsGrow DEF Types, Counting, Events
<1>2. Syncing(q) => q \in holder
  BY <1>1 DEF Locked
<1>3. CASE Outside \/ \E f \in Filters, n \in shown : SaveFilter(f, n)
  BY <1>2, <1>3 DEF Outside, SaveFilter, Syncing
<1>4. ASSUME NEW p \in Requests, Load(p) \/ RequestStep(p) \/ LockTimeout(p) \/ Crash(p)
      PROVE  q \in holder'
  <2>1. q # p => pc'[q] = pc[q]
    BY <1>4, OneMoves DEF Alone
  <2>2. CASE GetLock(p)
    BY <1>2, <2>1, <2>2 DEF GetLock, Syncing
  <2>3. CASE LockTimeout(p)
    BY <1>1, <2>3 DEF LockTimeout, Bump, Types, Counting, Events
  <2>4. CASE Crash(p) \/ SyncDone(p) \/ CreateSpecial(p)
    <3>1. \/ holder' = holder \ {p} /\ pc'[p] \in {"idle", "reread"}
          \/ holder' = holder /\ Syncing(p)
      BY <2>4 DEF Crash, SyncDone, CreateSpecial, Leave, Goto, Types, Working, Syncing, local
    <3> QED BY <1>2, <2>1, <3>1 DEF Syncing
  <2>5. CASE ReadRows(p) \/ ReadList(p) \/ SweepDone(p) \/ InsertRow(p)
             \/ \E r \in todo[p] : DestroyRow(p, r)
    <3>1. holder' = holder /\ Syncing(p)
      BY <2>5 DEF ReadRows, ReadList, SweepDone, InsertRow, DestroyRow, Syncing
    <3> QED BY <1>2, <2>1, <3>1 DEF Syncing
  <2>6. CASE Load(p) \/ Reread(p) \/ Browse(p) \/ Commit(p)
    <3>1. holder' = holder /\ ~Syncing(p)'
      BY <2>6 DEF Load, Reread, Browse, Commit, Goto, Types, Working, Syncing
    <3> QED BY <1>2, <2>1, <3>1 DEF Syncing
  <2>7. CASE Change(p) \/ \E d \in todo[p] : DeleteMailbox(p, d)
    <3>1. holder' = holder /\ ~Syncing(p)'
      <4>1. ASSUME NEW r, NEW new, NEW saved, RenameMailbox(p, r, new, saved)
            PROVE  holder' = holder /\ ~Syncing(p)'
        BY <4>1 DEF RenameMailbox, Refused, Goto, Types, Working, Syncing
      <4> QED BY <2>7, <4>1 DEF Change, CreateBox, RenameBox, TrashBox, DeleteBox, DeleteMailbox,
                                Refused, Goto, Types, Working, Syncing
    <3> QED BY <1>2, <2>1, <3>1 DEF Syncing
  <2> QED BY <1>4, <2>2, <2>3, <2>4, <2>5, <2>6, <2>7 DEF RequestStep, SyncStep
<1> QED BY <1>3, <1>4 DEF Next

(* Under the lock only the request that adds rows changes them.            *)
LEMMA NextSingle ==
  ASSUME RowsInv, Next PROVE SingleRows'
<1> SUFFICES ASSUME Undisturbed'
             PROVE  /\ \A q \in Requests : pc'[q] \notin {"delete", "commit"}
                    /\ \A q \in Requests : Looked(q)' => Names(rows') \subseteq Names(seen'[q])
                    /\ \A r, s \in rows' : r.name = s.name => r = s
  BY DEF SingleRows
<1>1. Undisturbed /\ Types
  <2>1. \A e \in Events : count'[e] >= count[e] /\ count[e] \in Nat
    BY CountsGrow DEF RowsInv, Types, Counting
  <2> QED BY <2>1 DEF Undisturbed, Events, RowsInv
<1>2. /\ \A q \in Requests : pc[q] \notin {"delete", "commit"}
      /\ \A q \in Requests : Looked(q) => Names(rows) \subseteq Names(seen[q])
      /\ \A r, s \in rows : r.name = s.name => r = s
  BY <1>1 DEF RowsInv, SingleRows
<1>3. \A p, q \in Requests : Syncing(p) /\ Looked(q) => p = q
  BY <1>1 DEF RowsInv, Locked, Undisturbed, Types, Locking, Syncing, Looked
<1>4. CASE Outside \/ \E f \in Filters, n \in shown : SaveFilter(f, n)
  BY <1>2, <1>4 DEF Outside, SaveFilter, Looked, local
<1>5. ASSUME NEW p \in Requests, Load(p) \/ RequestStep(p) \/ LockTimeout(p) \/ Crash(p)
      PROVE  /\ \A q \in Requests : pc'[q] \notin {"delete", "commit"}
             /\ \A q \in Requests : Looked(q)' => Names(rows') \subseteq Names(seen'[q])
             /\ \A r, s \in rows' : r.name = s.name => r = s
  <2>1. \A q \in Requests \ {p} : pc'[q] = pc[q] /\ seen'[q] = seen[q] /\ (Looked(q)' <=> Looked(q))
    <3>1. Alone(p)
      BY <1>1, <1>5, OneMoves
    <3> QED BY <3>1 DEF Alone, Looked
  <2>2. ASSUME rows' = rows, pc'[p] \notin {"delete", "commit"},
               Looked(p)' => Names(rows) \subseteq Names(seen'[p])
        PROVE  /\ \A q \in Requests : pc'[q] \notin {"delete", "commit"}
               /\ \A q \in Requests : Looked(q)' => Names(rows') \subseteq Names(seen'[q])
               /\ \A r, s \in rows' : r.name = s.name => r = s
    BY <1>2, <2>1, <2>2
  <2>3. CASE Load(p) \/ Reread(p) \/ Browse(p) \/ LockTimeout(p) \/ GetLock(p) \/ Crash(p)
             \/ SyncDone(p)
    <3>1. rows' = rows /\ pc'[p] \notin {"delete", "commit"} /\ ~Looked(p)'
      BY <1>1, <2>3 DEF Load, Reread, Browse, LockTimeout, GetLock, Crash, SyncDone, Leave, Goto,
                        Types, Working, Looked, data
    <3> QED BY <2>2, <3>1
  <2>4. CASE ReadRows(p)
    <3>1. rows' = rows /\ pc'[p] = "list" /\ seen'[p] = rows
      BY <1>1, <2>4 DEF ReadRows, Goto, Types, Working, data
    <3> QED BY <2>2, <3>1
  <2>5. CASE ReadList(p) \/ SweepDone(p) \/ CreateSpecial(p)
    <3>1. /\ rows' = rows /\ pc'[p] \notin {"delete", "commit"} /\ Looked(p)
          /\ Looked(p)' => seen'[p] = seen[p]
      BY <1>1, <2>5 DEF ReadList, SweepDone, CreateSpecial, Leave, Goto, Types, Working, Looked,
                        data, local
    <3> QED BY <1>2, <2>2, <3>1
  <2>6. CASE InsertRow(p)
    <3> DEFINE missing == boxes[p] \ Names(seen[p])
               first   == CHOOSE n \in missing : \A m \in missing : Len(n) <= Len(m)
               row     == [id |-> serial, name |-> first]
    <3>1. /\ pc[p] = "save" /\ missing # {} /\ rows' = rows \cup {row}
          /\ seen'[p] = seen[p] \cup {row} /\ pc' = pc
      BY <1>1, <2>6 DEF InsertRow, Types, Working
    <3>2. first \in missing
      BY <1>1, <3>1, ShortestName DEF Types, Working
    <3>3. row.name \notin Names(seen[p])
      BY <3>2
    <3>4. Looked(p) /\ Syncing(p)
      BY <3>1 DEF Looked, Syncing
    <3> HIDE DEF row, missing
    <3>5. \A r \in rows : r.name # row.name
      BY <1>2, <3>3, <3>4 DEF Names
    <3>6. \A q \in Requests : Looked(q)' => q = p
      BY <1>3, <2>1, <3>4
    <3>7. Names(rows') \subseteq Names(seen'[p])
      BY <1>2, <3>1, <3>4 DEF Names
    <3> QED BY <1>2, <3>1, <3>5, <3>6, <3>7
  <2>7. ASSUME NEW d \in todo[p], DestroyRow(p, d)
        PROVE  /\ \A q \in Requests : pc'[q] \notin {"delete", "commit"}
               /\ \A q \in Requests : Looked(q)' => Names(rows') \subseteq Names(seen'[q])
               /\ \A r, s \in rows' : r.name = s.name => r = s
    BY <1>2, <2>7 DEF DestroyRow, Names, Looked
  <2>8. ~Change(p) /\ ~Commit(p) /\ \A d \in todo[p] : ~DeleteMailbox(p, d)
    <3>1. ~Bump("creates") /\ ~Bump("changes")
      BY <1>1 DEF Undisturbed, Bump, Types, Counting, Events
    <3> QED BY <1>2, <3>1 DEF Change, CreateBox, RenameBox, TrashBox, RenameMailbox, DeleteBox,
                              Commit, DeleteMailbox
  <2> QED BY <1>5, <2>3, <2>4, <2>5, <2>6, <2>7, <2>8 DEF RequestStep, SyncStep
<1> QED BY <1>4, <1>5 DEF Next

(* The locked requests and their rows, in every state.                     *)
LEMMA RowsInvHolds == Spec => []RowsInv
<1>1. Init => RowsInv
  <2> SUFFICES ASSUME Init PROVE RowsInv
    OBVIOUS
  <2>1. \A p \in Requests : pc[p] = "idle"
    BY DEF Init
  <2>2. \A r, q \in rows : r.name = q.name => r = q
    BY MailboxesAssumption DEF Init
  <2> QED BY <2>1, <2>2, InitTypes DEF RowsInv, Locked, SingleRows, Syncing, Looked
<1>2. RowsInv /\ [Next]_vars => RowsInv'
  <2> SUFFICES ASSUME RowsInv, [Next]_vars PROVE RowsInv'
    OBVIOUS
  <2>1. CASE UNCHANGED vars
    <3>1. Locked' /\ SingleRows'
      BY <2>1 DEF RowsInv, Locked, SingleRows, Undisturbed, Syncing, Looked, vars, data, local,
                  history
    <3> QED BY <2>1, <3>1, NextTypes DEF RowsInv
  <2>2. CASE Next
    BY <2>2, NextTypes, NextLocked, NextSingle DEF RowsInv
  <2> QED BY <2>1, <2>2
<1> QED BY <1>1, <1>2, PTL DEF Spec

(* Two requests that find a mailbox without a row insert one row           *)
(* (imap.rb:76-80, application_record.rb:13-20): whatever has a row is     *)
(* among the rows that the holder of the lock has read, so what it adds    *)
(* is new.  Killed requests and other clients do not disturb this.         *)
THEOREM OneRowUnderLock == Spec => []OneRowPerMailbox
<1>1. RowsInv => OneRowPerMailbox
  <2> SUFFICES ASSUME RowsInv, count.timeouts + count.creates + count.changes = 0
               PROVE  \A r, q \in rows : r.name = q.name => r = q
    BY DEF OneRowPerMailbox
  <2>1. count.timeouts \in Nat /\ count.creates \in Nat /\ count.changes \in Nat
    BY DEF RowsInv, Types, Counting, Events
  <2>2. Undisturbed
    BY <2>1 DEF Undisturbed
  <2> QED BY <2>2 DEF RowsInv, SingleRows
<1> QED BY <1>1, RowsInvHolds, PTL
---------------------------------------------------------------------------
(* The rows mirror the server                                              *)

(* Only those that may change a mailbox are ever about to write; of them   *)
(* one is pending as long as its sync is still to read the rows.           *)
ChangersWrite == \A p \in Requests \ Changers : pc[p] \notin {"delete", "commit"}
Calm == count.crashes = 0 /\ count.outside = 0 /\ count.timeouts = 0
Pending(p) == pc[p] \in {"delete", "commit", "lock", "rows"}
Settled == \A p \in Changers : ~Pending(p)
Mirrored == Names(server) \subseteq Names(rows) /\ Names(rows) \ Names(server) \subseteq doubled

(* A sync that has the list; no change is pending, so the list is true and *)
(* the rows are those read, but for the ones this sync has destroyed.      *)
Swept(p) ==
  /\ boxes[p] = Names(server) /\ rows \subseteq seen[p]
  /\ \A r \in seen[p] : r.name \in boxes[p] => r \in rows
  /\ \A t \in todo[p] : t.name \notin boxes[p] /\ \A r \in rows : r.id = t.id => r = t
  /\ \A r \in rows : r.name \notin boxes[p] => r.name \in doubled \/ r \in todo[p]
  /\ pc[p] = "save" => todo[p] = {}

Mirroring ==
  Calm /\ Settled =>
    /\ (\A p \in Requests : ~Looked(p)) => rows = {} \/ Mirrored
    /\ \A p \in Requests : pc[p] \in {"list", "special"} => seen[p] = rows
    /\ \A p \in Requests : pc[p] \in {"sweep", "save"} => Swept(p)
DoublesKnown == Twice(rows) \subseteq doubled
NoTrash == Calm => \A p \in Requests : pc[p] = "special" => Trash \notin Names(server)
MirrorInv == Types /\ Locked /\ ChangersWrite /\ DoublesKnown /\ NoTrash /\ Mirroring

(* Only those that may change a mailbox begin to.                          *)
LEMMA NextChangers ==
  ASSUME Types, ChangersWrite, [Next]_vars PROVE ChangersWrite'
<1>1. CASE UNCHANGED vars
  BY <1>1 DEF ChangersWrite, vars
<1>2. CASE Outside \/ \E f \in Filters, n \in shown : SaveFilter(f, n)
  BY <1>2 DEF Outside, SaveFilter, ChangersWrite
<1>3. ASSUME NEW p \in Requests, Load(p) \/ RequestStep(p) \/ LockTimeout(p) \/ Crash(p)
      PROVE  ChangersWrite'
  <2>1. \A q \in Requests \ {p} : pc'[q] = pc[q]
    BY <1>3, OneMoves DEF Alone
  <2>2. p \notin Changers => pc'[p] \notin {"delete", "commit"}
    <3> SUFFICES ASSUME p \notin Changers PROVE pc'[p] \notin {"delete", "commit"}
      OBVIOUS
    <3>1. pc[p] \notin {"delete", "commit"} /\ ~Commit(p) /\ \A d \in todo[p] : ~DeleteMailbox(p, d)
      BY DEF ChangersWrite, Commit, DeleteMailbox
    <3>2. CASE Load(p) \/ Reread(p) \/ Browse(p) \/ LockTimeout(p) \/ GetLock(p) \/ Crash(p)
      BY <3>2 DEF Load, Reread, Browse, LockTimeout, GetLock, Crash, Leave, Goto, Types, Working
    <3>3. CASE SyncStep(p)
      BY <3>1, <3>3 DEF SyncStep, ReadRows, ReadList, CreateSpecial, DestroyRow, SweepDone,
                        InsertRow, SyncDone, Leave, Goto, Types, Working
    <3> QED BY <1>3, <3>1, <3>2, <3>3 DEF RequestStep
  <2> QED BY <2>1, <2>2 DEF ChangersWrite
<1> QED BY <1>1, <1>2, <1>3 DEF Next

(* Two rows get the same name only where it is recorded.                   *)
LEMMA NextDoubles ==
  ASSUME DoublesKnown, [Next]_vars PROVE DoublesKnown'
<1>1. ASSUME rows' \subseteq rows, doubled' = doubled PROVE DoublesKnown'
  BY <1>1 DEF DoublesKnown, Twice
<1>2. ASSUME doubled' = doubled \cup Twice(rows') PROVE DoublesKnown'
  BY <1>2 DEF DoublesKnown, Twice
<1>3. ASSUME NEW p \in Requests, Commit(p) \/ InsertRow(p) PROVE doubled' = doubled \cup Twice(rows')
  BY <1>3 DEF Commit, InsertRow
<1>4. ASSUME NEW p \in Requests, Change(p) \/ \E d \in todo[p] : DeleteMailbox(p, d) \/ DestroyRow(p, d)
      PROVE  rows' \subseteq rows /\ doubled' = doubled
  BY <1>4 DEF Change, CreateBox, RenameBox, TrashBox, RenameMailbox, DeleteBox, DeleteMailbox,
              DestroyRow, data, history
<1>5. ASSUME NEW p \in Requests,
             Load(p) \/ Reread(p) \/ Browse(p) \/ GetLock(p) \/ LockTimeout(p) \/ Crash(p) \/ ReadRows(p)
               \/ ReadList(p) \/ CreateSpecial(p) \/ SweepDone(p) \/ SyncDone(p)
      PROVE  rows' \subseteq rows /\ doubled' = doubled
  BY <1>5 DEF Load, Reread, Browse, GetLock, LockTimeout, Crash, ReadRows, ReadList, CreateSpecial,
              SweepDone, SyncDone, data, history
<1>6. ASSUME Outside \/ \E f \in Filters, n \in shown : SaveFilter(f, n)
      PROVE  rows' \subseteq rows /\ doubled' = doubled
  BY <1>6 DEF Outside, SaveFilter
<1>7. CASE UNCHANGED vars
  BY <1>1, <1>7 DEF vars, data, history
<1>8. CASE Next
  BY <1>1, <1>2, <1>3, <1>4, <1>5, <1>6, <1>8 DEF Next, RequestStep, SyncStep
<1> QED BY <1>7, <1>8

(* A renamed name is not the trash, unless its new path is.                *)
LEMMA NotTrash ==
  ASSUME NEW n \in Name, NEW old \in Name, NEW new \in Name, Under(n, old), new # Trash
  PROVE  RenamePath(n, old, new) # Trash
<1> DEFINE rest == SubSeq(n, Len(old) + 1, Len(n))
<1>1. /\ n \in Seq(Titles) /\ Len(n) \in Nat /\ \A i \in 1 .. Len(n) : n[i] \in Titles
      /\ Len(old) \in Nat /\ new \in Seq(Titles) /\ Len(new) \in Nat \ {0}
  BY LenProperties, ElementOfSeq, EmptySeq DEF Name
<1>2. rest \in Seq(Titles)
  <2>1. \A i \in Len(old) + 1 .. Len(n) : n[i] \in Titles
    BY <1>1
  <2> QED BY <1>1, <2>1, SubSeqProperties
<1> HIDE DEF rest
<1>3. Len(new \o rest) = Len(new) + Len(rest) /\ Len(rest) \in Nat
  BY <1>1, <1>2, ConcatProperties, LenProperties
<1>4. CASE rest = <<>>
  BY <1>1, <1>4, ConcatEmptySeq DEF RenamePath, rest
<1>5. CASE rest # <<>>
  <2>1. Len(rest) # 0
    BY <1>2, <1>5, EmptySeq
  <2>2. Len(new \o rest) # 1
    BY <1>1, <1>3, <2>1
  <2>3. RenamePath(n, old, new) = new \o rest
    BY DEF RenamePath, rest
  <2> QED BY <2>2, <2>3, MailboxesAssumption
<1> QED BY <1>4, <1>5

(* No request gives a mailbox the name of the trash, except a sync.        *)
LEMMA ChangeNoTrash ==
  ASSUME Types, NEW p \in Requests, Change(p) \/ \E d \in todo[p] : DeleteMailbox(p, d),
         Trash \notin Names(server)
  PROVE  Trash \notin Names(server')
<1>1. ASSUME NEW r \in seen[p], NEW new \in Name, new # Trash, NEW saved, RenameMailbox(p, r, new, saved)
      PROVE  Trash \notin Names(server')
  <2>1. server' = server \/ server' = Renamed(server, r.name, new)
    BY <1>1 DEF RenameMailbox, Refused
  <2>2. ASSUME NEW b \in Renamed(server, r.name, new) PROVE b.name # Trash
    <3>1. PICK c \in server :
            b = IF Under(c.name, r.name) THEN [c EXCEPT !.name = RenamePath(c.name, r.name, new)] ELSE c
      BY DEF Renamed
    <3>2. c \in [name : Name, key : Nat] /\ r.name \in Name
      BY DEF Types, Served, Working, Row
    <3>3. CASE Under(c.name, r.name)
      <4> DEFINE n == RenamePath(c.name, r.name, new)
      <4>1. n # Trash
        BY <1>1, <3>2, <3>3, NotTrash
      <4> HIDE DEF n
      <4>2. b = [c EXCEPT !.name = n]
        BY <3>1, <3>3 DEF n
      <4> QED BY <3>2, <4>1, <4>2
    <3>4. CASE ~Under(c.name, r.name)
      BY <3>1, <3>4 DEF Names
    <3> QED BY <3>3, <3>4
  <2> QED BY <2>1, <2>2 DEF Names
<1>2. ASSUME NEW r \in seen[p], NEW n \in Typed, RenameBox(p, r, n) PROVE Trash \notin Names(server')
  BY <1>1, <1>2, MailboxesAssumption DEF RenameBox
<1>3. ASSUME NEW r \in seen[p], TrashBox(p, r) PROVE Trash \notin Names(server')
  <2> DEFINE new == Trash \o <<r.name[Len(r.name)]>>
  <2>1. r.name \in Seq(Titles) /\ r.name # <<>> /\ Trash \in Seq(Titles)
    BY MailboxesAssumption DEF Types, Working, Row, Name
  <2>2. Len(r.name) \in 1 .. Len(r.name)
    BY <2>1, EmptySeq
  <2>3. r.name[Len(r.name)] \in Titles
    BY <2>1, <2>2, ElementOfSeq
  <2>4. new = Append(Trash, r.name[Len(r.name)])
    BY <2>1, <2>3, AppendIsConcat
  <2>5. new \in Name /\ new # Trash
    <3>1. new \in Seq(Titles) /\ new # <<>> /\ Len(new) = Len(Trash) + 1 /\ Len(Trash) \in Nat
      BY <2>1, <2>3, <2>4, AppendProperties, LenProperties
    <3> HIDE DEF new
    <3> QED BY <3>1 DEF Name
  <2> QED BY <1>1, <1>3, <2>5 DEF TrashBox
<1>4. ASSUME NEW n \in Typed, CreateBox(p, n) PROVE Trash \notin Names(server')
  <2>1. n # Trash
    BY MailboxesAssumption
  <2> QED BY <1>4, <2>1 DEF CreateBox, Refused, Names
<1>5. ASSUME (\E r \in seen[p] : DeleteBox(p, r)) \/ \E d \in todo[p] : DeleteMailbox(p, d)
      PROVE  Trash \notin Names(server')
  BY <1>5 DEF DeleteBox, DeleteMailbox, Refused, Names, data
<1> QED BY <1>2, <1>3, <1>4, <1>5 DEF Change

(* While a request is about to create the required mailbox, it is missing. *)
LEMMA NextNoTrash ==
  ASSUME Types, Locked, NoTrash, Next PROVE NoTrash'
<1> SUFFICES ASSUME Calm', NEW q \in Requests, pc'[q] = "special" PROVE Trash \notin Names(server')
  BY DEF NoTrash
<1>1. Calm /\ \A e \in Events : count'[e] >= count[e] /\ count[e] \in Nat
  BY CountsGrow DEF Types, Counting, Calm, Events
<1>2. pc[q] = "special" => Trash \notin Names(server) /\ q \in holder
  BY <1>1 DEF NoTrash, Locked, Syncing, Calm
<1>3. ~Outside /\ \A f \in Filters, n \in shown : SaveFilter(f, n) => pc' = pc /\ server' = server
  BY <1>1 DEF Outside, SaveFilter, Bump, Calm, Events, Types, Counting
<1>4. ASSUME NEW p \in Requests, Load(p) \/ RequestStep(p) \/ LockTimeout(p) \/ Crash(p)
      PROVE  Trash \notin Names(server')
  <2>1. q # p => pc'[q] = pc[q]
    BY <1>4, OneMoves DEF Alone
  <2>2. CASE Change(p) \/ \E d \in todo[p] : DeleteMailbox(p, d)
    <3>1. pc'[p] # "special"
      <4>1. ASSUME NEW r, NEW new, NEW saved, RenameMailbox(p, r, new, saved) PROVE pc'[p] # "special"
        BY <4>1 DEF RenameMailbox, Refused, Goto, Types, Working
      <4> QED BY <2>2, <4>1 DEF Change, CreateBox, RenameBox, TrashBox, DeleteBox, DeleteMailbox,
                                Refused, Goto, Types, Working
    <3> QED BY <1>2, <2>1, <2>2, <3>1, ChangeNoTrash
  <2>3. CASE CreateSpecial(p)
    <3>1. p \in holder /\ pc'[p] # "special"
      BY <1>1, <2>3 DEF CreateSpecial, Leave, Goto, Locked, Calm, Syncing, Types, Working
    <3> QED BY <1>2, <2>1, <3>1 DEF Types, Locking
  <2>4. CASE ReadList(p)
    <3>1. server' = server /\ (pc'[p] = "special" => Trash \notin Names(server))
      BY <2>4 DEF ReadList, Goto, Types, Working, data
    <3> QED BY <1>2, <2>1, <3>1
  <2>5. CASE Load(p) \/ Reread(p) \/ Browse(p) \/ Commit(p) \/ GetLock(p) \/ LockTimeout(p) \/ Crash(p)
             \/ ReadRows(p) \/ SweepDone(p) \/ InsertRow(p) \/ SyncDone(p)
             \/ \E r \in todo[p] : DestroyRow(p, r)
    <3>1. server' = server
      BY <2>5 DEF Load, Reread, Browse, Commit, GetLock, LockTimeout, Crash, ReadRows, SweepDone,
                  InsertRow, SyncDone, DestroyRow, data
    <3>2. pc'[p] # "special"
      BY <2>5 DEF Load, Reread, Browse, Commit, GetLock, LockTimeout, Crash, ReadRows, SweepDone,
                  InsertRow, SyncDone, DestroyRow, Leave, Goto, Types, Working
    <3> QED BY <1>2, <2>1, <3>1, <3>2
  <2> QED BY <1>4, <2>2, <2>3, <2>4, <2>5 DEF RequestStep, SyncStep
<1> QED BY <1>2, <1>3, <1>4 DEF Next

(* A sync begins when nothing else is pending, or goes on in peace.        *)
LEMMA NextMirror ==
  ASSUME MirrorInv, Next PROVE Mirroring'
<1> SUFFICES ASSUME Calm', Settled'
             PROVE  /\ (\A q \in Requests : ~Looked(q)') => rows' = {} \/ Mirrored'
                    /\ \A q \in Requests : pc'[q] \in {"list", "special"} => seen'[q] = rows'
                    /\ \A q \in Requests : pc'[q] \in {"sweep", "save"} => Swept(q)'
  BY DEF Mirroring
<1> DEFINE Goal == /\ (\A q \in Requests : ~Looked(q)') => rows' = {} \/ Mirrored'
                   /\ \A q \in Requests : pc'[q] \in {"list", "special"} => seen'[q] = rows'
                   /\ \A q \in Requests : pc'[q] \in {"sweep", "save"} => Swept(q)'
<1>1. Calm /\ Types /\ \A e \in Events : count'[e] >= count[e] /\ count[e] \in Nat
  BY CountsGrow DEF MirrorInv, Types, Counting, Calm, Events
<1>2. \A p, q \in Requests : Syncing(p) /\ Syncing(q) => p = q
  BY <1>1 DEF MirrorInv, Locked, Calm, Types, Locking
<1>3. ~Outside /\ \A p \in Requests : ~Crash(p) /\ ~LockTimeout(p)
  BY <1>1 DEF Outside, Crash, LockTimeout, Bump, Calm, Events, Types, Counting
<1>4. ASSUME NEW f \in Filters, NEW n \in shown, SaveFilter(f, n) PROVE Goal
  <2>1. UNCHANGED <<server, rows, pc, seen, boxes, todo, doubled>>
    BY <1>4 DEF SaveFilter, local
  <2>2. Settled
    BY <2>1 DEF Settled, Pending
  <2> QED BY <1>1, <2>1, <2>2 DEF MirrorInv, Mirroring, Looked, Mirrored, Swept
<1>5. ASSUME NEW p \in Requests, Load(p) \/ RequestStep(p) PROVE Goal
  <2>1. Alone(p)
    BY <1>1, <1>5, OneMoves
  <2>2. (p \in Changers => ~Pending(p)' /\ ~Change(p) /\ ~GetLock(p))
        /\ ~Commit(p) /\ \A d \in todo[p] : ~DeleteMailbox(p, d)
    <3>1. p \in Changers => ~Pending(p)'
      BY DEF Settled
    <3>2. ASSUME NEW r, NEW new, NEW saved, RenameMailbox(p, r, new, saved) PROVE Pending(p)'
      BY <1>1, <3>2 DEF RenameMailbox, Refused, Goto, Types, Working, Pending
    <3>3. Change(p) => Pending(p)'
      BY <1>1, <3>2 DEF Change, CreateBox, RenameBox, TrashBox, DeleteBox, Refused, Goto, Types,
                        Working, Pending
    <3>4. Commit(p) \/ GetLock(p) \/ (\E d \in todo[p] : DeleteMailbox(p, d)) => Pending(p)'
      BY <1>1 DEF Commit, GetLock, DeleteMailbox, Refused, Goto, Types, Working, Pending
    <3>5. p \notin Changers => ~Commit(p) /\ \A d \in todo[p] : ~DeleteMailbox(p, d)
      BY DEF MirrorInv, ChangersWrite, Commit, DeleteMailbox
    <3> QED BY <3>1, <3>3, <3>4, <3>5
  <2>3. \A q \in Requests \ {p} : /\ Looked(q)' <=> Looked(q)
                                  /\ pc'[q] = pc[q] /\ seen'[q] = seen[q]
                                  /\ q \in Changers => ~Pending(q)
    BY <2>1 DEF Alone, Looked, Settled, Pending
  (* The last pending request reads the rows, alone under the lock. *)
  <2>4. CASE ReadRows(p)
    <3>1. pc[p] = "rows" /\ pc'[p] = "list" /\ seen'[p] = rows /\ rows' = rows
      BY <1>1, <2>4 DEF ReadRows, Goto, Types, Working, data
    <3>2. \A q \in Requests \ {p} : ~Looked(q)
      BY <1>2, <3>1 DEF Looked, Syncing
    <3> QED BY <2>3, <3>1, <3>2 DEF Looked
  <2>5. ASSUME ~ReadRows(p)
        PROVE  Settled /\ ((\A q \in Requests : ~Looked(q)) => rows = {} \/ Mirrored)
               /\ (\A q \in Requests : pc[q] \in {"list", "special"} => seen[q] = rows)
               /\ (\A q \in Requests : pc[q] \in {"sweep", "save"} => Swept(q))
    <3>1. p \in Changers => ~Pending(p)
      BY <1>5, <2>2, <2>5 DEF RequestStep, SyncStep, Load, Reread, Browse, ReadList, CreateSpecial,
                              DestroyRow, SweepDone, InsertRow, SyncDone, Pending
    <3>2. Settled
      BY <2>3, <3>1, MailboxesAssumption DEF Settled
    <3> QED BY <1>1, <3>2 DEF MirrorInv, Mirroring
  <2>6. CASE Load(p) \/ Reread(p) \/ Browse(p) \/ GetLock(p)
    <3>1. /\ UNCHANGED <<server, rows, boxes, todo, doubled>> /\ ~Looked(p) /\ ~Looked(p)'
      BY <1>1, <2>6 DEF Load, Reread, Browse, GetLock, Goto, Types, Working, Looked, data, local,
                        history
    <3>2. ~ReadRows(p)
      BY <2>6 DEF Load, Reread, Browse, GetLock, ReadRows
    <3>3. \A q \in Requests \ {p} : Swept(q) /\ pc[q] \in {"sweep", "save"} => Swept(q)'
      BY <2>3, <3>1 DEF Swept
    <3>4. Mirrored => Mirrored'
      BY <3>1 DEF Mirrored
    <3> QED BY <2>3, <2>5, <3>1, <3>2, <3>3, <3>4 DEF Looked
  (* From here on p is the one that synchronises. *)
  <2>7. ASSUME Looked(p), Looked(p)',
               pc'[p] \in {"list", "special"} => seen'[p] = rows',
               pc'[p] \in {"sweep", "save"} => Swept(p)'
        PROVE  Goal
    <3>1. \A q \in Requests \ {p} : ~Looked(q)
      BY <1>2, <2>7 DEF Looked, Syncing
    <3> QED BY <2>3, <2>7, <3>1 DEF Looked
  <2>8. CASE ReadList(p)
    <3>1. /\ pc[p] = "list" /\ UNCHANGED <<server, rows, seen, doubled>> /\ ~ReadRows(p)
          /\ \/ pc'[p] = "special"
             \/ /\ pc'[p] = "sweep" /\ boxes'[p] = Names(server)
                /\ todo'[p] = {r \in seen[p] : r.name \notin Names(server) /\ Kept(r, seen[p])}
      BY <1>1, <2>8 DEF ReadList, ReadRows, Goto, Types, Working, data, history
    <3>2. seen[p] = rows
      BY <2>5, <3>1
    <3>3. CASE pc'[p] = "special"
      BY <2>7, <3>1, <3>2, <3>3 DEF Looked
    <3>4. CASE pc'[p] = "sweep"
      <4>1. /\ boxes'[p] = Names(server) /\ seen'[p] = rows
            /\ todo'[p] = {r \in rows : r.name \notin Names(server) /\ Kept(r, rows)}
        BY <3>1, <3>2, <3>4
      <4>2. \A t \in todo'[p] : t.name \notin boxes'[p] /\ \A r \in rows : r.id = t.id => r = t
        BY <1>1, <4>1 DEF Types, Tabled
      <4>3. ASSUME NEW r \in rows, r.name \notin boxes'[p], r \notin todo'[p]
            PROVE  r.name \in doubled
        <5>1. PICK q \in rows : q.name = r.name /\ ~(q.id <= r.id)
          BY <4>1, <4>3 DEF Kept
        <5>2. r.id \in Nat
          BY <1>1 DEF Types, Tabled, Row
        <5>3. q # r
          BY <5>1, <5>2
        <5> QED BY <5>1, <5>3 DEF MirrorInv, DoublesKnown, Twice
      <4>4. \A r \in seen'[p] : r.name \in boxes'[p] => r \in rows
        BY <4>1
      <4>5. Swept(p)'
        BY <3>1, <3>4, <4>1, <4>2, <4>3, <4>4 DEF Swept
      <4> QED BY <2>7, <3>1, <3>4, <4>5 DEF Looked
    <3> QED BY <3>1, <3>3, <3>4
  <2>9. CASE CreateSpecial(p)
    <3>1. pc[p] = "special" /\ Trash \notin Names(server)
      BY <1>1, <2>9 DEF CreateSpecial, MirrorInv, NoTrash
    <3>2. pc'[p] = "list" /\ rows' = rows /\ seen' = seen /\ ~ReadRows(p)
      BY <1>1, <2>9, <3>1 DEF CreateSpecial, ReadRows, Goto, Types, Working, local
    <3> QED BY <2>5, <2>7, <3>1, <3>2 DEF Looked
  <2>10. ASSUME NEW d \in todo[p], DestroyRow(p, d) PROVE Goal
    <3>1. /\ pc[p] = "sweep" /\ rows' = {q \in rows : q.id # d.id}
          /\ todo'[p] = todo[p] \ {d} /\ UNCHANGED <<server, pc, seen, boxes, doubled>> /\ ~ReadRows(p)
      BY <1>1, <2>10 DEF DestroyRow, ReadRows, Types, Working, history
    <3>2. Swept(p)
      BY <2>5, <3>1
    <3>3. \A r \in rows : r.id = d.id => r = d /\ r.name \notin boxes[p]
      BY <3>2 DEF Swept
    <3>4. \A r \in seen[p] : r.name \in boxes[p] => r \in rows'
      BY <3>1, <3>2, <3>3 DEF Swept
    <3>5. \A r \in rows' : r # d
      BY <3>1
    <3>6. Swept(p)'
      BY <3>1, <3>2, <3>4, <3>5 DEF Swept
    <3> QED BY <2>7, <3>1, <3>6 DEF Looked
  <2>11. CASE SweepDone(p)
    <3>1. /\ pc[p] = "sweep" /\ todo[p] = {} /\ pc'[p] = "save" /\ ~ReadRows(p)
          /\ UNCHANGED <<server, rows, seen, boxes, todo, doubled>>
      BY <1>1, <2>11 DEF SweepDone, ReadRows, Goto, Types, Working, data, local, history
    <3>2. Swept(p)
      BY <2>5, <3>1
    <3>3. Swept(p)'
      BY <3>1, <3>2 DEF Swept
    <3> QED BY <2>7, <3>1, <3>3 DEF Looked
  <2>12. CASE InsertRow(p)
    <3> DEFINE missing == boxes[p] \ Names(seen[p])
               first   == CHOOSE n \in missing : \A m \in missing : Len(n) <= Len(m)
               row     == [id |-> serial, name |-> first]
    <3>1. /\ pc[p] = "save" /\ missing # {} /\ rows' = rows \cup {row} /\ ~ReadRows(p)
          /\ seen'[p] = seen[p] \cup {row} /\ doubled \subseteq doubled'
          /\ UNCHANGED <<server, pc, boxes, todo>>
      BY <1>1, <2>12 DEF InsertRow, ReadRows, Types, Working
    <3>2. first \in missing
      BY <1>1, <3>1, ShortestName DEF Types, Working
    <3>3. row.name \in boxes[p]
      BY <3>2
    <3> HIDE DEF row, missing
    <3>4. Swept(p)
      BY <2>5, <3>1
    <3>5. Swept(p)'
      BY <3>1, <3>3, <3>4 DEF Swept
    <3> QED BY <2>7, <3>1, <3>5 DEF Looked
  <2>13. CASE SyncDone(p)
    <3>1. /\ pc[p] = "save" /\ boxes[p] \subseteq Names(seen[p]) /\ pc'[p] \in {"idle", "reread"}
          /\ UNCHANGED <<server, rows, doubled>> /\ ~ReadRows(p)
      BY <1>1, <2>13 DEF SyncDone, ReadRows, Leave, Goto, Types, Working, data, history
    <3>2. Swept(p)
      BY <2>5, <3>1
    <3>3. Names(server) \subseteq Names(rows)
      BY <3>1, <3>2 DEF Swept, Names
    <3>4. Names(rows) \ Names(server) \subseteq doubled
      BY <3>1, <3>2 DEF Swept, Names
    <3>5. Mirrored'
      BY <3>1, <3>3, <3>4 DEF Mirrored
    <3>6. \A q \in Requests \ {p} : ~Looked(q)
      BY <1>2, <3>1 DEF Looked, Syncing
    <3> QED BY <2>3, <3>1, <3>5, <3>6 DEF Looked
  <2> QED
    BY <1>5, <2>2, <2>4, <2>6, <2>8, <2>9, <2>10, <2>11, <2>12, <2>13 DEF RequestStep, SyncStep
<1> QED BY <1>3, <1>4, <1>5 DEF Next

(* At the start the rows are those of the server, or there are none.       *)
AllKnown == \A i \in DOMAIN Existing : Existing[i] \in Known
NoneKnown == \A i \in DOMAIN Existing : Existing[i] \notin Known

(* Every step leaves the rows mirroring the server, or somebody about to   *)
(* see to it.                                                              *)
LEMMA MirrorStep == MirrorInv /\ [Next]_vars => MirrorInv'
<1> SUFFICES ASSUME MirrorInv, [Next]_vars PROVE MirrorInv'
  OBVIOUS
<1>1. CASE UNCHANGED vars
  <2>1. UNCHANGED <<server, rows, pc, holder, seen, boxes, todo, doubled, count>>
    BY <1>1 DEF vars, data, local, history
  <2>2. Locked' /\ NoTrash'
    BY <2>1 DEF MirrorInv, Locked, NoTrash, Calm, Syncing
  <2>3. Mirroring'
    BY <2>1 DEF MirrorInv, Mirroring, Calm, Settled, Looked, Pending, Mirrored, Swept
  <2> QED BY <1>1, <2>2, <2>3, NextTypes, NextChangers, NextDoubles DEF MirrorInv
<1>2. CASE Next
  BY <1>2, NextTypes, NextLocked, NextChangers, NextDoubles, NextNoTrash, NextMirror DEF MirrorInv
<1> QED BY <1>1, <1>2

(* The rows mirror the server, or somebody is about to see to it, in every *)
(* state.                                                                  *)
LEMMA MirrorHolds == (AllKnown \/ NoneKnown) /\ Spec => []MirrorInv
<1>1. Init /\ (AllKnown \/ NoneKnown) => MirrorInv
  <2> SUFFICES ASSUME Init, AllKnown \/ NoneKnown PROVE MirrorInv
    OBVIOUS
  <2>1. (\A p \in Requests : pc[p] = "idle") /\ Types
    BY InitTypes DEF Init
  <2>2. DoublesKnown
    <3>1. \A r, q \in rows : r.name = q.name => r = q
      BY MailboxesAssumption DEF Init
    <3> QED BY <3>1 DEF DoublesKnown, Twice
  <2>3. CASE NoneKnown
    <3>1. rows = {}
      BY <2>3 DEF Init, NoneKnown
    <3> QED BY <2>1, <2>2, <3>1 DEF MirrorInv, Locked, ChangersWrite, NoTrash, Mirroring, Syncing, Looked
  <2>4. CASE AllKnown
    <3>1. Names(rows) = Names(server)
      <4>1. rows = {[id |-> i, name |-> Existing[i]] : i \in DOMAIN Existing}
        BY <2>4 DEF Init, AllKnown
      <4>2. server = {[name |-> Existing[i], key |-> i] : i \in DOMAIN Existing}
        BY DEF Init
      <4>3. /\ \A x \in rows : \E i \in DOMAIN Existing : x.name = Existing[i]
            /\ \A i \in DOMAIN Existing : \E x \in rows : x.name = Existing[i]
        <5>1. \A i \in DOMAIN Existing : [id |-> i, name |-> Existing[i]] \in rows /\ [id |-> i, name |-> Existing[i]].name = Existing[i]
          BY <4>1
        <5>2. \A x \in rows : \E i \in DOMAIN Existing : x = [id |-> i, name |-> Existing[i]]
          BY <4>1
        <5>3. \A x \in rows : \E i \in DOMAIN Existing : x.name = Existing[i]
          BY <5>2
        <5> QED BY <5>1, <5>3
      <4>4. /\ \A x \in server : \E i \in DOMAIN Existing : x.name = Existing[i]
            /\ \A i \in DOMAIN Existing : \E x \in server : x.name = Existing[i]
        <5>1. \A i \in DOMAIN Existing : [name |-> Existing[i], key |-> i] \in server /\ [name |-> Existing[i], key |-> i].name = Existing[i]
          BY <4>2
        <5>2. \A x \in server : \E i \in DOMAIN Existing : x = [name |-> Existing[i], key |-> i]
          BY <4>2
        <5>3. \A x \in server : \E i \in DOMAIN Existing : x.name = Existing[i]
          BY <5>2
        <5> QED BY <5>1, <5>3
      <4> QED BY <4>3, <4>4 DEF Names
    <3> QED BY <2>1, <2>2, <3>1 DEF MirrorInv, Locked, ChangersWrite, NoTrash, Mirroring, Mirrored,
                                         Syncing, Looked
  <2> QED BY <2>3, <2>4
<1> QED BY <1>1, MirrorStep, PTL DEF Spec

(* However creations, renames and deletions of overlapping requests mix,   *)
(* with the rows true or none at the start every mailbox has its row when  *)
(* all requests have ended, and a row is left over only of a name that two *)
(* rows had (imap.rb:86-116): whoever changes a mailbox synchronises after *)
(* its commit, and the last to read the rows reads what all have written.  *)
THEOREM RowsMirrorServer == (AllKnown \/ NoneKnown) /\ Spec => []QuietMirror
<1>1. MirrorInv => QuietMirror
  <2> SUFFICES ASSUME MirrorInv, Idle, rows # {},
                      count.crashes + count.outside + count.timeouts = 0
               PROVE  Mirrored
    BY DEF QuietMirror, Mirrored
  <2>1. Calm
    BY DEF Calm, MirrorInv, Types, Counting, Events
  <2>2. Settled /\ \A p \in Requests : ~Looked(p)
    BY MailboxesAssumption DEF Idle, Settled, Pending, Looked
  <2> QED BY <2>1, <2>2 DEF MirrorInv, Mirroring
<1> QED BY <1>1, MirrorHolds, PTL
---------------------------------------------------------------------------
(* The filters                                                             *)

OneChanger == \A p, q \in Changers : p = q
Resting == \A p \in Changers : pc[p] \in {"idle", "ready", "reread"}

(* While nobody changes a mailbox every mailbox has a row, and so does the *)
(* one that begins to know them all.                                       *)
KeptUp == Resting => Names(server) \ {Trash} \subseteq Names(rows)
                     /\ Names(rows) \ Names(server) \subseteq doubled
Prepared == \A p \in Changers : pc[p] = "ready" => Names(server) \ {Trash} \subseteq Names(seen[p])

(* A row that a sync is to delete names no mailbox, or two rows had its    *)
(* name; a request deletes mailboxes in the trash only.                    *)
Doomed == \A p \in Requests : pc[p] = "sweep" =>
            \A r \in todo[p] : r.name \in doubled \/ (r.name \notin Names(server) /\ ~Resting)
TrashOnly == \A p \in Requests : pc[p] \in {"idle", "ready", "reread", "delete", "commit"} =>
               \A d \in todo[p] : Under(d.name, Trash)

(* What the user chose for a filter was a mailbox that existed.            *)
Keyed == /\ DOMAIN aim = Filters /\ \A f \in Filters : aim[f] \in Nat /\ aim[f] < serial
         /\ \A a, b \in server : a.key = b.key => a = b

(* A filter names its mailbox, once the open transaction has taken effect. *)
Off(f) == \E p \in Requests : f \in tx[p].off
On(f) == \E p \in Requests : \E x \in tx[p].follow : x.filter = f
Follows(f) == \E b \in server : /\ b.key = aim[f]
                                /\ \A p \in Requests : \A x \in tx[p].follow : x.filter = f => x.name = b.name
                                /\ ~On(f) => b.name = target[f]
InTrash(f) == \A b \in server : b.key = aim[f] => Under(b.name, Trash)
Following == \A f \in enabled \ missed : aim[f] # NoKey => IF Off(f) THEN InTrash(f) ELSE Follows(f)

FollowInv == MirrorInv /\ Keyed /\ TrashOnly /\ (Calm => KeptUp /\ Prepared /\ Doomed /\ Following)

(* A prefix by its elements.                                               *)
LEMMA PrefixOf ==
  ASSUME NEW n \in Seq(Titles), NEW b \in Seq(Titles), Len(b) <= Len(n)
  PROVE  SubSeq(n, 1, Len(b)) = b <=> \A i \in 1 .. Len(b) : n[i] = b[i]
<1>1. Len(n) \in Nat /\ Len(b) \in Nat /\ \A i \in 1 .. Len(n) : n[i] \in Titles
  BY LenProperties, ElementOfSeq
<1> DEFINE s == SubSeq(n, 1, Len(b))
<1>2. s \in Seq(Titles) /\ Len(s) = Len(b) /\ \A i \in 1 .. Len(b) : s[i] = n[i]
  <2>1. \A i \in 1 .. Len(b) : n[i] \in Titles
    BY <1>1
  <2> QED BY <1>1, <2>1, SubSeqProperties
<1> HIDE DEF s
<1>3. s = b <=> \A i \in 1 .. Len(b) : s[i] = b[i]
  BY <1>1, <1>2, SeqEqual
<1> QED BY <1>2, <1>3 DEF s

(* What is under a name that is under another is under that.               *)
LEMMA UnderUnder ==
  ASSUME NEW n \in Name, NEW m \in Name, NEW b \in Name, Under(n, m), Under(m, b)
  PROVE  Under(n, b)
<1>1. /\ n \in Seq(Titles) /\ m \in Seq(Titles) /\ b \in Seq(Titles)
      /\ Len(n) \in Nat /\ Len(m) \in Nat /\ Len(b) \in Nat
  BY LenProperties DEF Name
<1>2. Len(b) <= Len(m) /\ Len(m) <= Len(n) /\ SubSeq(n, 1, Len(m)) = m /\ SubSeq(m, 1, Len(b)) = b
  BY DEF Under
<1>3. \A i \in 1 .. Len(m) : n[i] = m[i]
  BY <1>1, <1>2, PrefixOf
<1>4. \A i \in 1 .. Len(b) : m[i] = b[i]
  BY <1>1, <1>2, PrefixOf
<1>5. \A i \in 1 .. Len(b) : n[i] = b[i]
  BY <1>1, <1>2, <1>3, <1>4
<1>6. SubSeq(n, 1, Len(b)) = b
  BY <1>1, <1>2, <1>5, PrefixOf
<1> QED BY <1>1, <1>2, <1>6 DEF Under

(* What disturbs has not happened before either.                           *)
LEMMA CalmBefore ==
  ASSUME Types, Next, Calm'
  PROVE  Calm /\ ~Outside /\ \A p \in Requests : ~Crash(p) /\ ~LockTimeout(p)
<1>1. Calm /\ \A e \in Events : count'[e] >= count[e] /\ count[e] \in Nat
  BY CountsGrow DEF Types, Counting, Calm, Events
<1>2. ~Outside /\ \A p \in Requests : ~Crash(p) /\ ~LockTimeout(p)
  BY <1>1 DEF Outside, Crash, LockTimeout, Bump, Calm, Events, Types, Counting
<1> QED BY <1>1, <1>2

(* A mailbox or a row more is a name more.                                 *)
LEMMA NamesGrow ==
  ASSUME NEW S, NEW n, NEW k
  PROVE  Names(S \cup {[name |-> n, key |-> k]}) = Names(S) \cup {n}
<1> DEFINE x == [name |-> n, key |-> k]
<1>1. x.name = n
  OBVIOUS
<1> HIDE DEF x
<1>2. Names(S \cup {x}) = Names(S) \cup {n}
  BY <1>1 DEF Names
<1> QED BY <1>2 DEF x

(* A change takes the request away from its rest; what it leaves alone.    *)
LEMMA ChangeMoves ==
  ASSUME Types, NEW p \in Requests, Change(p)
  PROVE  /\ pc[p] = "ready" /\ pc'[p] \in {"commit", "lock", "delete"}
         /\ UNCHANGED <<rows, target, enabled, seen, boxes, aim, doubled>>
<1>1. ASSUME NEW r, NEW new, NEW saved, RenameMailbox(p, r, new, saved)
      PROVE  /\ pc[p] = "ready" /\ pc'[p] \in {"commit", "lock", "delete"}
             /\ UNCHANGED <<rows, target, enabled, seen, boxes, aim, doubled>>
  BY <1>1 DEF RenameMailbox, Refused, Goto, Types, Working
<1> QED BY <1>1 DEF Change, CreateBox, RenameBox, TrashBox, DeleteBox, Refused, Goto, Types, Working,
                    data, history

(* So do the deletion of a mailbox and the end of the transaction.         *)
LEMMA DeleteMoves ==
  ASSUME Types, ChangersWrite, NEW p \in Requests, Commit(p) \/ \E d \in todo[p] : DeleteMailbox(p, d)
  PROVE  /\ p \in Changers /\ pc[p] \in {"commit", "delete"} /\ pc'[p] \in {"commit", "lock", "delete"}
         /\ server' \subseteq server /\ seen' = seen /\ doubled \subseteq doubled'
<1>1. pc[p] \in {"commit", "delete"}
  BY DEF Commit, DeleteMailbox
<1> QED BY <1>1 DEF Commit, DeleteMailbox, ChangersWrite, Refused, Goto, Types, Working, history

(* When nobody changes a mailbox, no sync loses the row of one.            *)
LEMMA NextKeptUp ==
  ASSUME MirrorInv, Calm => KeptUp, Next, Calm' PROVE KeptUp'
<1> SUFFICES ASSUME Resting'
             PROVE  Names(server') \ {Trash} \subseteq Names(rows')
                    /\ Names(rows') \ Names(server') \subseteq doubled'
  BY DEF KeptUp
<1> DEFINE Goal == Names(server') \ {Trash} \subseteq Names(rows')
                   /\ Names(rows') \ Names(server') \subseteq doubled'
<1>1. Types /\ Calm /\ ~Outside /\ \A p \in Requests : ~Crash(p) /\ ~LockTimeout(p)
  BY CalmBefore DEF MirrorInv
<1>2. ASSUME Resting PROVE Names(server) \ {Trash} \subseteq Names(rows)
                           /\ Names(rows) \ Names(server) \subseteq doubled
  BY <1>1, <1>2 DEF KeptUp
<1>3. ASSUME NEW f \in Filters, NEW n \in shown, SaveFilter(f, n) PROVE Goal
  <2>1. UNCHANGED <<server, rows, pc, doubled>>
    BY <1>3 DEF SaveFilter
  <2>2. Resting
    BY <2>1 DEF Resting
  <2> QED BY <1>2, <2>1, <2>2
<1>4. ASSUME NEW p \in Requests, Load(p) \/ RequestStep(p) PROVE Goal
  <2>1. \A q \in Changers \ {p} : pc[q] \in {"idle", "ready", "reread"}
    <3>1. Alone(p)
      BY <1>1, <1>4, OneMoves
    <3> QED BY <3>1, MailboxesAssumption DEF Alone, Resting
  <2>2. p \in Changers => pc'[p] \in {"idle", "ready", "reread"}
    BY DEF Resting
  <2>3. ~(p \in Changers /\ Change(p)) /\ ~Commit(p) /\ \A d \in todo[p] : ~DeleteMailbox(p, d)
    BY <1>1, <2>2, ChangeMoves, DeleteMoves DEF MirrorInv
  <2>4. CASE Load(p) \/ Reread(p) \/ Browse(p) \/ GetLock(p) \/ ReadRows(p) \/ ReadList(p) \/ SweepDone(p)
    <3>1. UNCHANGED <<server, rows, doubled>>
      BY <2>4 DEF Load, Reread, Browse, GetLock, ReadRows, ReadList, SweepDone, data, history
    <3>2. p \in Changers => pc[p] \in {"idle", "ready", "reread"}
      BY <1>1, <2>2, <2>4 DEF Load, Reread, Browse, GetLock, ReadRows, ReadList, SweepDone, Goto, Types,
                              Working
    <3>3. Resting
      BY <2>1, <3>2 DEF Resting
    <3> QED BY <1>2, <3>1, <3>3
  <2>5. ASSUME pc[p] \in {"sweep", "save"} PROVE Swept(p)
    <3>1. Settled
      BY <2>1, <2>5 DEF Settled, Pending
    <3> QED BY <1>1, <2>5, <3>1 DEF MirrorInv, Mirroring
  <2>6. CASE CreateSpecial(p)
    <3>1. pc[p] = "special" /\ Trash \notin Names(server)
      BY <1>1, <2>6 DEF CreateSpecial, MirrorInv, NoTrash
    <3>2. /\ pc'[p] = "list" /\ rows' = rows /\ doubled' = doubled
          /\ server' = server \cup {[name |-> Trash, key |-> serial]}
      BY <1>1, <2>6, <3>1 DEF CreateSpecial, Goto, Types, Working, history
    <3>3. Resting
      BY <2>1, <2>2, <3>2 DEF Resting
    <3>4. Names(server') = Names(server) \cup {Trash}
      BY <3>2, NamesGrow
    <3> QED BY <1>2, <3>2, <3>3, <3>4
  <2>7. ASSUME NEW d \in todo[p], DestroyRow(p, d) PROVE Goal
    <3>1. pc[p] = "sweep" /\ rows' = {q \in rows : q.id # d.id} /\ UNCHANGED <<server, pc, doubled>>
      BY <2>7 DEF DestroyRow, history
    <3>2. Resting
      BY <2>1, <2>2, <3>1 DEF Resting
    <3>3. \A r \in rows : r.id = d.id => r.name \notin Names(server)
      BY <2>5, <3>1 DEF Swept
    <3> QED BY <1>2, <3>1, <3>2, <3>3 DEF Names
  <2>8. CASE InsertRow(p)
    <3> DEFINE missing == boxes[p] \ Names(seen[p])
               first   == CHOOSE n \in missing : \A m \in missing : Len(n) <= Len(m)
               row     == [id |-> serial, name |-> first]
    <3>1. /\ pc[p] = "save" /\ missing # {} /\ rows' = rows \cup {row}
          /\ doubled \subseteq doubled' /\ UNCHANGED <<server, pc>>
      BY <2>8 DEF InsertRow
    <3>2. first \in missing
      BY <1>1, <3>1, ShortestName DEF Types, Working
    <3>3. Resting
      BY <2>1, <2>2, <3>1 DEF Resting
    <3>4. row.name \in Names(server)
      BY <2>5, <3>1, <3>2 DEF Swept
    <3> HIDE DEF row, missing
    <3> QED BY <1>2, <3>1, <3>3, <3>4 DEF Names
  <2>9. CASE SyncDone(p)
    <3>1. /\ pc[p] = "save" /\ boxes[p] \subseteq Names(seen[p]) /\ UNCHANGED <<server, rows, doubled>>
      BY <2>9 DEF SyncDone, data, history
    <3>2. Swept(p)
      BY <2>5, <3>1
    <3>3. Names(server) \subseteq Names(rows)
      BY <3>1, <3>2 DEF Swept, Names
    <3>4. Names(rows) \ Names(server) \subseteq doubled
      BY <3>1, <3>2 DEF Swept, Names
    <3> QED BY <3>1, <3>3, <3>4
  <2> QED BY <1>4, <2>3, <2>4, <2>6, <2>7, <2>8, <2>9 DEF RequestStep, SyncStep
<1> QED BY <1>1, <1>3, <1>4 DEF Next

(* One that begins to change a mailbox knows them all.                     *)
LEMMA NextPrepared ==
  ASSUME OneChanger, MirrorInv, Calm => KeptUp /\ Prepared, Next, Calm' PROVE Prepared'
<1> SUFFICES ASSUME NEW q \in Changers, pc'[q] = "ready"
             PROVE  Names(server') \ {Trash} \subseteq Names(seen'[q])
  BY DEF Prepared
<1>1. Types /\ Calm /\ ~Outside /\ \A p \in Requests : ~Crash(p) /\ ~LockTimeout(p)
  BY CalmBefore DEF MirrorInv
<1>2. pc[q] = "ready" => Names(server) \ {Trash} \subseteq Names(seen[q])
  BY <1>1 DEF Prepared
<1>3. q \in Requests
  BY MailboxesAssumption
<1>4. CASE \E f \in Filters, n \in shown : SaveFilter(f, n)
  BY <1>2, <1>4 DEF SaveFilter, local
<1>5. ASSUME NEW p \in Requests \ {q}, Load(p) \/ RequestStep(p)
      PROVE  Names(server') \ {Trash} \subseteq Names(seen'[q])
  <2>1. pc'[q] = pc[q] /\ seen'[q] = seen[q] /\ p \notin Changers
    BY <1>1, <1>3, <1>5, OneMoves DEF Alone, OneChanger
  <2>2. ~Commit(p) /\ \A d \in todo[p] : ~DeleteMailbox(p, d)
    BY <1>1, <2>1, DeleteMoves DEF MirrorInv
  <2>3. CASE CreateSpecial(p)
    <3>1. Trash \notin Names(server)
      BY <1>1, <2>3 DEF CreateSpecial, MirrorInv, NoTrash
    <3>2. server' = server \cup {[name |-> Trash, key |-> serial]}
      BY <2>3, <3>1 DEF CreateSpecial
    <3>3. Names(server') = Names(server) \cup {Trash}
      BY <3>2, NamesGrow
    <3> QED BY <1>2, <2>1, <3>3
  <2>4. ASSUME ~CreateSpecial(p) PROVE server' = server
    BY <1>5, <2>1, <2>2, <2>4 DEF RequestStep, SyncStep, Load, Reread, Browse, GetLock, ReadRows,
       ReadList, SweepDone, SyncDone, InsertRow, DestroyRow, data
  <2> QED BY <1>2, <2>1, <2>3, <2>4
<1>6. CASE Load(q) \/ RequestStep(q)
  <2>1. Load(q) \/ Reread(q)
    <3>1. ~Change(q) /\ ~Commit(q) /\ \A d \in todo[q] : ~DeleteMailbox(q, d)
      BY <1>1, <1>3, ChangeMoves, DeleteMoves DEF MirrorInv
    <3>2. CASE Browse(q) \/ GetLock(q) \/ SyncStep(q)
      BY <1>1, <1>3, <3>2 DEF Browse, GetLock, SyncStep, ReadRows, ReadList, CreateSpecial, DestroyRow,
                              SweepDone, InsertRow, SyncDone, Leave, Goto, Types, Working
    <3> QED BY <1>6, <3>1, <3>2 DEF RequestStep
  <2>2. /\ pc[q] \in {"idle", "reread"} /\ server' = server /\ seen'[q] = rows
    BY <1>1, <1>3, <2>1 DEF Load, Reread, Types, Working, data
  <2>3. Resting
    BY <2>2 DEF Resting, OneChanger
  <2> QED BY <1>1, <2>2, <2>3 DEF KeptUp
<1> QED BY <1>1, <1>3, <1>4, <1>5, <1>6 DEF Next

(* What a request is to delete is in the trash.                            *)
LEMMA NextTrashOnly ==
  ASSUME Types, TrashOnly, Next PROVE TrashOnly'
<1> DEFINE Calling(l) == l \in {"idle", "ready", "reread", "delete", "commit"}
<1> SUFFICES ASSUME NEW q \in Requests, Calling(pc'[q]), NEW d \in todo'[q] PROVE Under(d.name, Trash)
  BY DEF TrashOnly
<1>1. Calling(pc[q]) => \A c \in todo[q] : Under(c.name, Trash)
  BY DEF TrashOnly
<1>2. CASE Outside \/ \E f \in Filters, n \in shown : SaveFilter(f, n)
  BY <1>1, <1>2 DEF Outside, SaveFilter, local
<1>3. ASSUME NEW p \in Requests \ {q}, Load(p) \/ RequestStep(p) \/ LockTimeout(p) \/ Crash(p)
      PROVE  Under(d.name, Trash)
  BY <1>1, <1>3, OneMoves DEF Alone
<1>4. CASE Load(q) \/ RequestStep(q) \/ LockTimeout(q) \/ Crash(q)
  <2>1. CASE Change(q)
    <3>1. CASE \E r \in seen[q] : DeleteBox(q, r)
      <4>1. PICK r \in seen[q] : DeleteBox(q, r)
        BY <3>1
      <4>2. Under(r.name, Trash) /\ todo'[q] = Descendants(r, seen[q])
        BY <4>1 DEF DeleteBox, Types, Working
      <4>3. d = r \/ Under(d.name, r.name)
        BY <4>2 DEF Descendants
      <4>4. d.name \in Name /\ r.name \in Name
        <5>1. seen[q] \in SUBSET Row
          BY DEF Types, Working
        <5>2. d \in seen[q]
          BY <4>2, <5>1, TreeRows
        <5> QED BY <5>1, <5>2 DEF Row
      <4> QED BY <4>2, <4>3, <4>4, UnderUnder, MailboxesAssumption
    <3>2. ASSUME \A r \in seen[q] : ~DeleteBox(q, r) PROVE Under(d.name, Trash)
      <4>1. ASSUME NEW r, NEW new, NEW saved, RenameMailbox(q, r, new, saved)
            PROVE  pc[q] = "ready" /\ (todo'[q] = todo[q] \/ todo'[q] = {})
        BY <4>1 DEF RenameMailbox, Refused, Types, Working
      <4>2. pc[q] = "ready" /\ (todo'[q] = todo[q] \/ todo'[q] = {})
        BY <2>1, <3>2, <4>1 DEF Change, CreateBox, RenameBox, TrashBox, Refused, Types, Working
      <4> QED BY <1>1, <4>2
    <3> QED BY <3>1, <3>2
  <2>2. CASE \E c \in todo[q] : DeleteMailbox(q, c)
    BY <1>1, <2>2 DEF DeleteMailbox, Refused, Types, Working
  <2>3. CASE Load(q) \/ Reread(q) \/ Browse(q) \/ Commit(q)
    BY <1>1, <2>3 DEF Load, Reread, Browse, Commit, local
  <2>4. CASE GetLock(q) \/ LockTimeout(q) \/ ReadRows(q) \/ ReadList(q) \/ SweepDone(q) \/ InsertRow(q)
               \/ \E r \in todo[q] : DestroyRow(q, r)
    BY <2>4 DEF GetLock, LockTimeout, ReadRows, ReadList, SweepDone, InsertRow, DestroyRow, Goto, Types,
                Working
  <2>5. CASE CreateSpecial(q) \/ SyncDone(q) \/ Crash(q)
    BY <2>5 DEF CreateSpecial, SyncDone, Crash, Leave, Goto, Types, Working
  <2> QED BY <1>4, <2>1, <2>2, <2>3, <2>4, <2>5 DEF RequestStep, SyncStep
<1> QED BY <1>2, <1>3, <1>4 DEF Next

(* A row that is to be deleted stays one whose mailbox is gone: a mailbox  *)
(* gets a name only from one that has seen all rows as they are to be.     *)
LEMMA NextDoomed ==
  ASSUME OneChanger, MirrorInv, Calm => KeptUp /\ Doomed, Next, Calm' PROVE Doomed'
<1> SUFFICES ASSUME NEW q \in Requests, pc'[q] = "sweep", NEW r \in todo'[q]
             PROVE  r.name \in doubled' \/ (r.name \notin Names(server') /\ ~Resting')
  BY DEF Doomed
<1>1. Types /\ Calm /\ ~Outside /\ \A p \in Requests : ~Crash(p) /\ ~LockTimeout(p)
  BY CalmBefore DEF MirrorInv
<1>2. pc[q] = "sweep" /\ r \in todo[q] => r.name \in doubled \/ (r.name \notin Names(server) /\ ~Resting)
  BY <1>1 DEF Doomed
<1>3. CASE \E f \in Filters, n \in shown : SaveFilter(f, n)
  BY <1>2, <1>3 DEF SaveFilter, local, Resting
<1>4. ASSUME NEW p \in Requests \ {q}, Load(p) \/ RequestStep(p)
      PROVE  r.name \in doubled' \/ (r.name \notin Names(server') /\ ~Resting')
  <2>1. Alone(p)
    BY <1>1, <1>4, OneMoves
  <2>2. pc[q] = "sweep" /\ r \in todo[q]
    BY <2>1 DEF Alone
  <2>3. ~Syncing(p)
    BY <1>1, <2>2 DEF MirrorInv, Locked, Calm, Types, Locking, Syncing
  <2>4. CASE Load(p) \/ Reread(p) \/ Browse(p) \/ GetLock(p)
    <3>1. /\ UNCHANGED <<server, doubled>>
          /\ pc[p] \in {"idle", "ready", "reread"} \/ pc'[p] \notin {"idle", "ready", "reread"}
      BY <1>1, <2>4 DEF Load, Reread, Browse, GetLock, Goto, Types, Working, data, history
    <3>2. Resting' => Resting
      BY <2>1, <3>1, MailboxesAssumption DEF Resting, Alone
    <3> QED BY <1>2, <2>2, <3>1, <3>2
  <2>5. CASE p \in Changers /\ Change(p)
    <3>1. pc[p] = "ready" /\ pc'[p] \in {"commit", "lock", "delete"} /\ doubled' = doubled
      BY <1>1, <2>5, ChangeMoves
    <3>2. Resting
      BY <2>5, <3>1 DEF Resting, OneChanger
    <3> QED BY <1>2, <2>2, <3>1, <3>2
  <2>6. CASE Commit(p) \/ \E d \in todo[p] : DeleteMailbox(p, d)
    <3>1. /\ p \in Changers /\ pc'[p] \in {"commit", "lock", "delete"}
          /\ server' \subseteq server /\ doubled \subseteq doubled'
      BY <1>1, <2>6, DeleteMoves DEF MirrorInv
    <3>2. ~Resting'
      BY <3>1 DEF Resting
    <3>3. Names(server') \subseteq Names(server)
      BY <3>1 DEF Names
    <3> QED BY <1>2, <2>2, <3>1, <3>2, <3>3
  <2>7. ~SyncStep(p)
    BY <2>3 DEF SyncStep, ReadRows, ReadList, CreateSpecial, DestroyRow, SweepDone, InsertRow, SyncDone,
                Syncing
  <2> QED BY <1>4, <2>4, <2>5, <2>6, <2>7 DEF RequestStep
<1>5. CASE Load(q) \/ RequestStep(q)
  <2>1. Alone(q)
    BY <1>1, <1>5, OneMoves
  <2>2. CASE ReadList(q)
    <3>1. /\ pc[q] = "list" /\ UNCHANGED <<server, doubled>>
          /\ r \in seen[q] /\ r.name \notin Names(server)
      BY <1>1, <2>2 DEF ReadList, Goto, Types, Working, data, history
    <3>2. CASE Resting'
      <4>1. Resting
        BY <2>1, <3>2, MailboxesAssumption DEF Resting, Alone
      <4>2. Settled
        BY <4>1 DEF Settled, Resting, Pending
      <4>3. seen[q] = rows
        BY <1>1, <3>1, <4>2 DEF MirrorInv, Mirroring
      <4>4. r.name \in Names(rows)
        BY <3>1, <4>3 DEF Names
      <4> QED BY <1>1, <3>1, <4>1, <4>4 DEF KeptUp
    <3> QED BY <3>1, <3>2
  <2>3. ASSUME NEW d \in todo[q], DestroyRow(q, d)
        PROVE  r.name \in doubled' \/ (r.name \notin Names(server') /\ ~Resting')
    <3>1. r \in todo[q] /\ UNCHANGED <<server, doubled, pc>>
      BY <1>1, <2>3 DEF DestroyRow, Types, Working, history
    <3> QED BY <1>2, <3>1 DEF Resting
  <2>4. ~Change(q) /\ ~Commit(q) /\ \A d \in todo[q] : ~DeleteMailbox(q, d)
    BY <1>1, ChangeMoves, DeleteMoves DEF MirrorInv
  <2>5. ~Load(q) /\ ~Reread(q) /\ ~Browse(q) /\ ~GetLock(q) /\ ~ReadRows(q) /\ ~CreateSpecial(q)
        /\ ~SweepDone(q) /\ ~InsertRow(q) /\ ~SyncDone(q)
    BY <1>1 DEF Load, Reread, Browse, GetLock, ReadRows, CreateSpecial, SweepDone, InsertRow, SyncDone,
                Leave, Goto, Types, Working
  <2> QED BY <1>5, <2>2, <2>3, <2>4, <2>5 DEF RequestStep, SyncStep
<1> QED BY <1>1, <1>3, <1>4, <1>5 DEF Next

(* The steps that change neither mailboxes nor filters.                    *)
LEMMA QuietSteps ==
  ASSUME Types, NEW p \in Requests,
         Load(p) \/ Reread(p) \/ Browse(p) \/ GetLock(p) \/ LockTimeout(p) \/ ReadRows(p) \/ ReadList(p)
           \/ SweepDone(p) \/ InsertRow(p) \/ SyncDone(p) \/ \E r \in seen[p] : DeleteBox(p, r)
  PROVE  /\ UNCHANGED <<server, target, enabled, aim, missed>> /\ serial <= serial'
         /\ \A q \in Requests : tx'[q] = tx[q]
<1>1. serial \in Nat
  BY DEF Types, Served
<1>2. CASE ~SyncDone(p)
  BY <1>1, <1>2 DEF Load, Reread, Browse, GetLock, LockTimeout, ReadRows, ReadList, SweepDone, InsertRow,
                    DeleteBox, data, local, history
<1>3. CASE SyncDone(p)
  <2>1. /\ pc[p] = "save" /\ tx' = [tx EXCEPT ![p] = NoTx]
        /\ UNCHANGED <<server, target, enabled, aim, missed, serial>>
    BY <1>3 DEF SyncDone, Leave, data, history
  <2> QED BY <1>1, <2>1 DEF Types, Writing
<1> QED BY <1>2, <1>3

(* RENAME keeps one mailbox for a key.                                     *)
LEMMA RenamedKeys ==
  ASSUME NEW S \in SUBSET [name : Name, key : Nat], NEW old, NEW new, \A a, b \in S : a.key = b.key => a = b
  PROVE  /\ \A a, b \in Renamed(S, old, new) : a.key = b.key => a = b
         /\ \A c \in S : \E b \in Renamed(S, old, new) :
              /\ b.key = c.key
              /\ b.name = IF Under(c.name, old) THEN RenamePath(c.name, old, new) ELSE c.name
<1> DEFINE path(n) == RenamePath(n, old, new)
           moved(c) == IF Under(c.name, old) THEN [c EXCEPT !.name = path(c.name)] ELSE c
<1>1. Renamed(S, old, new) = {moved(c) : c \in S}
  BY DEF Renamed
<1> HIDE DEF path
<1>2. \A c \in S : /\ moved(c).key = c.key
                   /\ moved(c).name = IF Under(c.name, old) THEN path(c.name) ELSE c.name
  OBVIOUS
<1> HIDE DEF moved
<1>3. ASSUME NEW a \in Renamed(S, old, new), NEW b \in Renamed(S, old, new), a.key = b.key PROVE a = b
  <2>1. PICK c \in S : a = moved(c)
    BY <1>1
  <2>2. PICK d \in S : b = moved(d)
    BY <1>1
  <2>3. c = d
    BY <1>2, <1>3, <2>1, <2>2
  <2> QED BY <2>1, <2>2, <2>3
<1>4. ASSUME NEW c \in S
      PROVE  \E b \in Renamed(S, old, new) :
               b.key = c.key /\ b.name = IF Under(c.name, old) THEN path(c.name) ELSE c.name
  BY <1>1, <1>2
<1> QED BY <1>3, <1>4 DEF path

(* A commit uses up an id for a row it inserts.                            *)
LEMMA CommitSerial ==
  ASSUME Types, NEW p \in Requests, Commit(p)
  PROVE  serial <= serial'
<1> DEFINE I == tx[p].ins
<1>1. serial \in Nat /\ serial' = serial + Cardinality(I) /\ \A m, n \in I : m = n
  BY DEF Types, Served, Writing, Commit
<1> HIDE DEF I
<1>2. I = {} \/ \E n \in I : I = {n}
  BY <1>1
<1>3. Cardinality(I) \in Nat
  <2>1. ASSUME NEW n \in I, I = {n} PROVE Cardinality(I) = 1
    <3>1. Cardinality({n}) = 1
      BY FS_Singleton
    <3> QED BY <2>1, <3>1
  <2>2. I = {} => Cardinality(I) = 0
    BY FS_EmptySet
  <2> QED BY <1>2, <2>1, <2>2
<1> QED BY <1>1, <1>3

(* A key more.                                                             *)
LEMMA KeyAdded ==
  ASSUME Types, Keyed, NEW n \in Name, server' = server \cup {[name |-> n, key |-> serial]},
         serial' = serial + 1, aim' = aim
  PROVE  Keyed'
<1> DEFINE box == [name |-> n, key |-> serial]
<1>1. /\ serial \in Nat /\ box.key = serial /\ server' = server \cup {box}
      /\ \A b \in server : b.key \in Nat /\ b.key < serial
  BY DEF Types, Served
<1> HIDE DEF box
<1>2. \A a, b \in server' : a.key = b.key => a = b
  BY <1>1 DEF Keyed
<1> QED BY <1>1, <1>2 DEF Keyed

(* A mailbox keeps its key, and a filter gets one that is in use.          *)
LEMMA NextKeyed ==
  ASSUME Types, Keyed, [Next]_vars PROVE Keyed'
<1>1. /\ serial \in Nat /\ server \in SUBSET [name : Name, key : Nat]
      /\ \A b \in server : b.key \in Nat /\ b.key < serial
  BY DEF Types, Served
<1>2. ASSUME server' \subseteq server, serial' \in Nat, serial <= serial', aim' = aim PROVE Keyed'
  BY <1>1, <1>2 DEF Keyed
<1>3. ASSUME NEW old, NEW new, server' = Renamed(server, old, new), serial' = serial, aim' = aim PROVE Keyed'
  BY <1>1, <1>3, RenamedKeys DEF Keyed
<1>4. serial' \in Nat
  BY NextTypes DEF Types, Served
<1>5. CASE UNCHANGED vars
  BY <1>1, <1>2, <1>5 DEF vars, data, history
<1>6. ASSUME NEW f \in Filters, NEW n \in shown, SaveFilter(f, n) PROVE Keyed'
  <2>1. /\ aim' = [aim EXCEPT ![f] = KeyOf(n)] /\ UNCHANGED <<server, serial>>
    BY <1>6 DEF SaveFilter
  <2>2. KeyOf(n) \in Nat /\ KeyOf(n) < serial
    <3>1. n \in Names(server) => (CHOOSE b \in server : b.name = n) \in server
      BY DEF Names
    <3>2. 0 < serial
      BY DEF Types, Served
    <3> QED BY <1>1, <3>1, <3>2 DEF KeyOf, NoKey
  <2> QED BY <1>1, <2>1, <2>2 DEF Keyed
<1>7. CASE Outside
  <2>1. aim' = aim
    BY <1>7 DEF Outside
  <2>2. ASSUME NEW n \in Foreign, server' = server \cup {[name |-> n, key |-> serial]}, serial' = serial + 1
        PROVE  Keyed'
    BY <2>1, <2>2, KeyAdded, MailboxesAssumption
  <2> QED BY <1>1, <1>2, <1>3, <1>7, <2>1, <2>2 DEF Outside
<1>8. ASSUME NEW p \in Requests, Change(p) PROVE Keyed'
  <2>1. aim' = aim
    BY <1>8, ChangeMoves
  <2>2. ASSUME NEW r, NEW new, NEW saved, RenameMailbox(p, r, new, saved) PROVE Keyed'
    BY <1>1, <1>2, <1>3, <2>1, <2>2 DEF RenameMailbox, Refused
  <2>3. ASSUME NEW n \in Typed, CreateBox(p, n) PROVE Keyed'
    <3>1. CASE n \in Names(server)
      BY <1>1, <1>2, <2>1, <2>3, <3>1 DEF CreateBox, Refused
    <3>2. CASE n \notin Names(server)
      BY <2>1, <2>3, <3>2, KeyAdded, MailboxesAssumption DEF CreateBox
    <3> QED BY <3>1, <3>2
  <2>4. ASSUME NEW r \in seen[p], DeleteBox(p, r) PROVE Keyed'
    BY <1>1, <1>2, <2>1, <2>4 DEF DeleteBox, data
  <2> QED BY <1>8, <2>2, <2>3, <2>4 DEF Change, RenameBox, TrashBox
<1>9. ASSUME NEW p \in Requests, Load(p) \/ RequestStep(p) \/ LockTimeout(p) \/ Crash(p)
      PROVE  Keyed'
  <2>1. CASE Load(p) \/ Reread(p) \/ Browse(p) \/ GetLock(p) \/ LockTimeout(p) \/ ReadRows(p) \/ ReadList(p)
             \/ SweepDone(p) \/ InsertRow(p) \/ SyncDone(p)
    BY <1>2, <1>4, <2>1, QuietSteps
  <2>2. CASE Commit(p)
    <3>1. serial <= serial'
      BY <2>2, CommitSerial
    <3> QED BY <1>2, <1>4, <2>2, <3>1 DEF Commit
  <2>3. CASE CreateSpecial(p)
    <3>1. Trash \in Name /\ aim' = aim
      BY <2>3, MailboxesAssumption DEF CreateSpecial, history
    <3>2. CASE Trash \in Names(server)
      BY <1>1, <1>2, <2>3, <3>1, <3>2 DEF CreateSpecial
    <3>3. CASE Trash \notin Names(server)
      BY <2>3, <3>1, <3>3, KeyAdded DEF CreateSpecial
    <3> QED BY <3>2, <3>3
  <2>4. CASE Crash(p) \/ (\E d \in todo[p] : DeleteMailbox(p, d) \/ DestroyRow(p, d))
    <3>1. server' \subseteq server /\ serial' = serial /\ aim' = aim
      BY <2>4 DEF Crash, DeleteMailbox, DestroyRow, Refused, data, history
    <3> QED BY <1>1, <1>2, <3>1
  <2> QED BY <1>8, <1>9, <2>1, <2>2, <2>3, <2>4 DEF RequestStep, SyncStep
<1> QED BY <1>5, <1>6, <1>7, <1>9 DEF Next

(* A rename reaches the rows of its tree, where the rows say what is there *)
(* and no title is refused; of two rows of a name it reaches one.          *)
LEMMA TreeReaches ==
  ASSUME Types, NEW p \in Requests, NEW r \in seen[p], Editable(r), NEW new, NEW n \in Name,
         Under(n, r.name), ~Misses(p, r, new, n), n \in Names(server),
         Names(server) \ {Trash} \subseteq Names(seen[p])
  PROVE  TitleOk(new) /\ n \in Names(SavedWith(r, seen[p]))
<1>1. /\ TitleOk(new) /\ \A k \in Len(r.name) + 1 .. Len(n) : TitleOk(SubSeq(n, 1, k))
      /\ n = r.name \/ Kept(r, seen[p])
      /\ \A k \in Len(r.name) .. Len(n) - 1 : SubSeq(n, 1, k) \in Names(server)
  BY DEF Misses
<1>2. /\ n \in Seq(Titles) /\ Len(n) \in Nat /\ r.name \in Name /\ Len(r.name) \in Nat \ {0}
      /\ \A i \in 1 .. Len(n) : n[i] \in Titles
  BY LenProperties, ElementOfSeq, EmptySeq DEF Name, Types, Working, Row
<1>3. SubSeq(n, 1, Len(r.name)) = r.name /\ SubSeq(n, 1, Len(n)) = n /\ Len(r.name) <= Len(n)
  BY <1>2, SubSeqFull DEF Under
<1>4. ASSUME NEW k \in Len(r.name) .. Len(n) PROVE SubSeq(n, 1, k) \in Names(seen[p])
  <2> DEFINE m == SubSeq(n, 1, k)
  <2>0. k \in Nat /\ Len(r.name) <= k /\ k <= Len(n)
    BY <1>2
  <2>1. m \in Names(server)
    <3>1. CASE k = Len(n)
      BY <1>3, <3>1
    <3>2. CASE k # Len(n)
      <4>1. k \in Len(r.name) .. Len(n) - 1
        BY <1>2, <2>0, <3>2
      <4> QED BY <1>1, <4>1
    <3> QED BY <3>1, <3>2
  <2>2. Len(m) = k
    BY <1>2, SubSeqProperties
  <2>3. m # Trash
    <3>1. CASE k = 1
      <4>1. Len(r.name) = 1
        <5> DEFINE l == Len(r.name)
        <5>1. l \in Nat /\ l # 0 /\ l <= 1
          BY <1>2, <2>0, <3>1
        <5> HIDE DEF l
        <5>2. l = 1
          BY <5>1
        <5> QED BY <5>2 DEF l
      <4> QED BY <1>3, <3>1, <4>1 DEF Editable
    <3>2. CASE k # 1
      BY <2>2, <3>2, MailboxesAssumption
    <3> QED BY <3>1, <3>2
  <2> QED BY <2>1, <2>3
<1>5. PICK c \in seen[p] : c.name = n /\ (n = r.name => c = r)
  <2>1. n \in Names(seen[p])
    <3>1. Len(n) \in Len(r.name) .. Len(n)
      BY <1>2, <1>3
    <3>2. SubSeq(n, 1, Len(n)) \in Names(seen[p])
      BY <1>4, <3>1
    <3> QED BY <1>3, <3>2
  <2>2. CASE n = r.name
    BY <2>2
  <2>3. CASE n # r.name
    BY <2>1, <2>3 DEF Names
  <2> QED BY <2>2, <2>3
<1>6. c \in Descendants(r, seen[p])
  BY <1>1, <1>4, <1>5 DEF Descendants
<1>7. c \in SavedWith(r, seen[p])
  BY <1>1, <1>5, <1>6 DEF SavedWith
<1> QED BY <1>1, <1>5, <1>7 DEF Names

(* Nothing that concerns the filters happens.                              *)
LEMMA FollowQuiet ==
  ASSUME Following, UNCHANGED <<server, target, enabled, aim, missed>>, \A q \in Requests : tx'[q] = tx[q]
  PROVE  Following'
  BY DEF Following, Off, On, Follows, InTrash

(* A mailbox with a new key is no filter's.                                *)
LEMMA FollowCreate ==
  ASSUME Types, Keyed, Following, NEW n, server' = server \cup {[name |-> n, key |-> serial]},
         UNCHANGED <<target, enabled, aim, missed>>,
         \A q \in Requests : tx'[q].follow = tx[q].follow /\ tx'[q].off = tx[q].off
  PROVE  Following'
<1> DEFINE box == [name |-> n, key |-> serial]
<1>1. server' = server \cup {box} /\ box.key = serial
  OBVIOUS
<1> HIDE DEF box
<1>2. SUFFICES ASSUME NEW f \in enabled \ missed, aim[f] # NoKey
               PROVE  IF Off(f)' THEN InTrash(f)' ELSE Follows(f)'
  BY DEF Following
<1>3. (Off(f)' <=> Off(f)) /\ (On(f)' <=> On(f))
  BY DEF Off, On
<1>4. aim[f] # box.key
  BY <1>1 DEF Keyed, Types, Filtered, Served
<1>5. CASE Off(f)
  <2>1. InTrash(f)
    BY <1>2, <1>5 DEF Following
  <2> QED BY <1>1, <1>3, <1>4, <1>5, <2>1 DEF InTrash
<1>6. CASE ~Off(f)
  <2>1. Follows(f)
    BY <1>2, <1>6 DEF Following
  <2> QED BY <1>1, <1>3, <1>6, <2>1 DEF Follows
<1> QED BY <1>5, <1>6

(* Where one request at a time changes mailboxes, no other transaction is  *)
(* open next to its own.                                                   *)
LEMMA NoOthers ==
  ASSUME OneChanger, Types, ChangersWrite, NEW p \in Changers
  PROVE  /\ \A q \in Requests \ {p} : tx[q] = NoTx
         /\ pc[p] # "commit" => tx[p] = NoTx
  BY MailboxesAssumption DEF OneChanger, ChangersWrite, Types, Writing

(* A rename takes a filter along with its mailbox, or misses it.           *)
LEMMA FollowRename ==
  ASSUME OneChanger, Types, ChangersWrite, Keyed, Prepared, Following,
         NEW p \in Changers, NEW r \in seen[p], Editable(r), NEW new \in Name, NEW saved \in SUBSET seen[p],
         TitleOk(new) => saved = SavedWith(r, seen[p]), \A c \in saved : Under(c.name, r.name),
         RenameMailbox(p, r, new, saved)
  PROVE  Following'
<1>1. /\ pc[p] = "ready" /\ UNCHANGED <<target, enabled, aim>> /\ p \in Requests
      /\ \A q \in Requests : tx[q] = NoTx
  BY NoOthers, MailboxesAssumption DEF RenameMailbox
<1>2. CASE r.name \notin Names(server) \/ Taken(r.name, new)
  <2>1. UNCHANGED <<server, target, enabled, aim, missed, tx>>
    BY <1>1, <1>2 DEF RenameMailbox, Refused
  <2> QED BY <2>1, FollowQuiet
<1>3. CASE ~(r.name \notin Names(server) \/ Taken(r.name, new))
  <2> DEFINE path(n) == RenamePath(n, r.name, new)
             R == {[id |-> c.id, name |-> path(c.name)] : c \in saved}
             F == {[filter |-> f, name |-> path(target[f])] : f \in FiltersOn(Names(saved))}
             t == [NoTx EXCEPT !.ren = R, !.follow = F]
  <2>1. /\ server' = Renamed(server, r.name, new) /\ tx' = [tx EXCEPT ![p] = t]
        /\ missed' = missed \cup MissedBy(p, r, new)
    BY <1>3 DEF RenameMailbox
  <2>2. t.follow = F /\ t.off = {}
    BY DEF NoTx
  <2> HIDE DEF t
  <2>3. tx'[p] = t /\ \A q \in Requests \ {p} : tx'[q].follow = {} /\ tx'[q].off = {}
    BY <1>1, <2>1, NoTxFacts DEF Types, Writing
  <2>4. \A x \in F : x.filter \in FiltersOn(Names(saved)) /\ x.name = path(target[x.filter])
    OBVIOUS
  <2>5. \A f \in FiltersOn(Names(saved)) : \E x \in F : x.filter = f
    <3> SUFFICES ASSUME NEW f \in FiltersOn(Names(saved)) PROVE \E x \in F : x.filter = f
      OBVIOUS
    <3>1. [filter |-> f, name |-> path(target[f])] \in F
      OBVIOUS
    <3>2. [filter |-> f, name |-> path(target[f])].filter = f
      OBVIOUS
    <3> HIDE DEF F, path
    <3> QED BY <3>1, <3>2
  <2> HIDE DEF F, path
  <2>6. SUFFICES ASSUME NEW f \in enabled \ missed', aim[f] # NoKey PROVE ~Off(f)' /\ Follows(f)'
    BY <1>1 DEF Following
  <2>7. ~Off(f)' /\ (On(f)' <=> f \in FiltersOn(Names(saved)))
        /\ \A q \in Requests : \A x \in tx'[q].follow : x.filter = f => x.name = path(target[f])
    BY <1>1, <2>2, <2>3, <2>4, <2>5 DEF Off, On
  <2>8. ~Off(f) /\ ~On(f) /\ f \in enabled \ missed
    BY <1>1, <2>1, <2>6, NoTxFacts DEF Off, On
  <2>9. PICK b \in server : b.key = aim[f] /\ b.name = target[f]
    BY <2>6, <2>8 DEF Following, Follows
  <2>10. f \in Filters /\ target[f] \in Name /\ target[f] # NoBox /\ target[f] \in Names(server)
    BY <2>6, <2>9, MailboxesAssumption DEF Types, Filtered, Names
  <2>11. PICK c \in server' : c.key = b.key /\ c.name = IF Under(b.name, r.name) THEN path(b.name) ELSE b.name
    BY <2>1, RenamedKeys DEF Types, Served, Keyed, path
  <2>12. CASE Under(target[f], r.name)
    <3>1. ~Misses(p, r, new, target[f])
      BY <2>1, <2>6, <2>10, <2>12 DEF MissedBy
    <3>2. Names(server) \ {Trash} \subseteq Names(seen[p])
      BY <1>1 DEF Prepared
    <3>3. TitleOk(new) /\ target[f] \in Names(SavedWith(r, seen[p]))
      BY <1>1, <2>10, <2>12, <3>1, <3>2, TreeReaches
    <3>4. f \in FiltersOn(Names(saved))
      BY <2>10, <3>3 DEF FiltersOn
    <3> QED BY <1>1, <2>7, <2>9, <2>11, <2>12, <3>4 DEF Follows
  <2>13. CASE ~Under(target[f], r.name)
    <3>1. f \notin FiltersOn(Names(saved))
      BY <2>13 DEF FiltersOn, Names
    <3> QED BY <1>1, <2>3, <2>7, <2>9, <2>11, <2>13, <3>1 DEF Follows, On
  <2> QED BY <2>7, <2>12, <2>13
<1> QED BY <1>2, <1>3

(* A deletion switches the filters of the deleted tree off; it lies in the *)
(* trash, and the mailboxes of the others stay.                            *)
LEMMA FollowDelete ==
  ASSUME OneChanger, Types, ChangersWrite, Keyed, TrashOnly, Following, NEW p \in Changers,
         NEW d \in todo[p], DeleteMailbox(p, d)
  PROVE  Following'
<1>1. /\ pc[p] = "delete" /\ UNCHANGED <<target, enabled, aim, missed>> /\ p \in Requests
      /\ \A q \in Requests : tx[q] = NoTx
  BY NoOthers, MailboxesAssumption DEF DeleteMailbox, history
<1>2. CASE d.name \notin Names(server)
  <2>1. UNCHANGED <<server, target, enabled, aim, missed, tx>>
    BY <1>1, <1>2 DEF DeleteMailbox, Refused
  <2> QED BY <2>1, FollowQuiet
<1>3. CASE d.name \in Names(server)
  <2> DEFINE gone == Descendants(d, seen[p])
             off == FiltersOn(Names(gone))
             t == [NoTx EXCEPT !.del = Ids(gone), !.off = off]
  <2>1. server' = {b \in server : b.name # d.name} /\ tx' = [tx EXCEPT ![p] = t]
    BY <1>3 DEF DeleteMailbox
  <2>2. t.follow = {} /\ t.off = off
    BY DEF NoTx
  <2> HIDE DEF t
  <2>3. tx'[p] = t /\ \A q \in Requests \ {p} : tx'[q].follow = {} /\ tx'[q].off = {}
    BY <1>1, <2>1, NoTxFacts DEF Types, Writing
  <2>4. d.name \in Name /\ seen[p] \subseteq Row /\ Under(d.name, Trash)
    BY <1>1 DEF Types, Working, Row, TrashOnly
  <2>5. \A c \in gone : Under(c.name, Trash)
    <3> SUFFICES ASSUME NEW c \in gone PROVE Under(c.name, Trash)
      OBVIOUS
    <3>1. c = d \/ (c \in seen[p] /\ Under(c.name, d.name))
      BY DEF Descendants
    <3>2. c.name \in Name
      BY <2>4, <3>1 DEF Row
    <3> QED BY <2>4, <3>1, <3>2, UnderUnder, MailboxesAssumption
  <2>6. d \in gone
    BY DEF Descendants
  <2> HIDE DEF gone
  <2>7. SUFFICES ASSUME NEW f \in enabled \ missed, aim[f] # NoKey
                 PROVE  IF Off(f)' THEN InTrash(f)' ELSE Follows(f)'
    BY <1>1 DEF Following
  <2>8. ~On(f)' /\ (Off(f)' <=> f \in off)
    BY <1>1, <2>2, <2>3 DEF Off, On
  <2>9. ~Off(f) /\ ~On(f) /\ f \in Filters
    BY <1>1, NoTxFacts DEF Off, On, Types, Filtered
  <2>10. PICK b \in server : b.key = aim[f] /\ b.name = target[f]
    BY <2>7, <2>9 DEF Following, Follows
  <2>11. CASE f \in off
    <3>1. PICK c \in gone : c.name = target[f]
      BY <2>11 DEF FiltersOn, Names
    <3>2. Under(b.name, Trash)
      BY <2>5, <2>10, <3>1
    <3>3. InTrash(f)'
      BY <1>1, <2>1, <2>10, <3>2 DEF InTrash, Keyed
    <3> QED BY <2>8, <2>11, <3>3
  <2>12. CASE f \notin off
    <3>1. target[f] # d.name
      BY <2>6, <2>9, <2>12 DEF FiltersOn, Names
    <3>2. Follows(f)'
      BY <1>1, <2>1, <2>2, <2>3, <2>8, <2>10, <3>1 DEF Follows
    <3> QED BY <2>8, <2>12, <3>2
  <2> QED BY <2>11, <2>12
<1> QED BY <1>2, <1>3

(* The transaction gives the filters that follow the name their mailbox    *)
(* has by now.                                                             *)
LEMMA FollowCommit ==
  ASSUME OneChanger, Types, ChangersWrite, Following, NEW p \in Requests, Commit(p)
  PROVE  Following'
<1> DEFINE t == tx[p]
           named(f) == (CHOOSE x \in t.follow : x.filter = f).name
<1>1. /\ pc[p] = "commit" /\ enabled' = enabled \ t.off
      /\ tx' = [tx EXCEPT ![p] = NoTx] /\ UNCHANGED <<server, aim, missed>>
      /\ \A f \in Filters \ t.off :
           target'[f] = IF \E x \in t.follow : x.filter = f THEN named(f) ELSE target[f]
  BY DEF Commit
<1>2. p \in Changers
  BY <1>1 DEF ChangersWrite
<1>3. \A q \in Requests \ {p} : tx[q] = NoTx
  BY <1>2, NoOthers
<1>4. \A q \in Requests : tx'[q] = NoTx
  BY <1>1, <1>3 DEF Types, Writing
<1>5. SUFFICES ASSUME NEW f \in enabled \ (missed \cup t.off), aim[f] # NoKey
               PROVE  ~Off(f)' /\ Follows(f)'
  BY <1>1 DEF Following
<1>6. ~Off(f)' /\ ~On(f)'
  BY <1>4, NoTxFacts DEF Off, On
<1>7. ~Off(f) /\ f \in Filters
  BY <1>3, <1>5, NoTxFacts DEF Off, Types, Filtered
<1>8. PICK b \in server : /\ b.key = aim[f]
                          /\ \A q \in Requests : \A x \in tx[q].follow : x.filter = f => x.name = b.name
                          /\ ~On(f) => b.name = target[f]
  BY <1>5, <1>7 DEF Following, Follows
<1>9. b.name = target'[f]
  <2>1. CASE \E x \in t.follow : x.filter = f
    <3>1. named(f) = b.name
      <4> DEFINE x == CHOOSE x \in t.follow : x.filter = f
      <4>1. x \in t.follow /\ x.filter = f
        BY <2>1
      <4> HIDE DEF x
      <4>2. x.name = b.name
        BY <1>8, <4>1
      <4> QED BY <4>2 DEF x
    <3> HIDE DEF named
    <3> QED BY <1>1, <1>5, <1>7, <2>1, <3>1
  <2>2. CASE ~\E x \in t.follow : x.filter = f
    <3>1. ~On(f)
      BY <1>3, <2>2, NoTxFacts DEF On
    <3> QED BY <1>1, <1>5, <1>7, <1>8, <2>2, <3>1
  <2> QED BY <2>1, <2>2
<1> QED BY <1>1, <1>4, <1>6, <1>8, <1>9, NoTxFacts DEF Follows

(* A sync that deletes a row changes the filters that name it, and none    *)
(* that an open transaction has changed.                                   *)
LEMMA FollowDestroy ==
  ASSUME Types, Following, NEW p \in Requests, NEW d \in todo[p], DestroyRow(p, d)
  PROVE  Following'
<1>1. /\ enabled' = enabled \ FiltersOn({d.name}) /\ UNCHANGED <<server, aim, missed, tx>>
      /\ \A f \in Filters \ FiltersOn({d.name}) : target'[f] = target[f]
  BY DEF DestroyRow, history, FiltersOn
<1>2. SUFFICES ASSUME NEW f \in enabled \ (missed \cup FiltersOn({d.name})), aim[f] # NoKey
               PROVE  IF Off(f)' THEN InTrash(f)' ELSE Follows(f)'
  BY <1>1 DEF Following
<1>3. target'[f] = target[f]
  BY <1>1, <1>2 DEF Types, Filtered
<1>4. IF Off(f) THEN InTrash(f) ELSE Follows(f)
  BY <1>2 DEF Following
<1> QED BY <1>1, <1>3, <1>4 DEF Off, On, InTrash, Follows

(* The user gives a filter a name: of a mailbox, or of none.               *)
LEMMA FollowSave ==
  ASSUME Types, Keyed, Following, NEW f \in Filters, NEW n \in shown, SaveFilter(f, n)
  PROVE  Following'
<1>1. /\ \A p \in Requests : f \notin FiltersOf(p)
      /\ target' = [target EXCEPT ![f] = n] /\ enabled' = enabled \cup {f}
      /\ aim' = [aim EXCEPT ![f] = KeyOf(n)] /\ missed' = missed \ {f} /\ UNCHANGED <<server, tx>>
  BY DEF SaveFilter, local
<1>2. SUFFICES ASSUME NEW g \in enabled' \ missed', aim'[g] # NoKey
               PROVE  IF Off(g)' THEN InTrash(g)' ELSE Follows(g)'
  BY DEF Following
<1>3. (Off(g)' <=> Off(g)) /\ (On(g)' <=> On(g))
  BY <1>1 DEF Off, On
<1>4. CASE g = f
  <2>1. ~Off(f) /\ ~On(f)
    BY <1>1 DEF FiltersOf, Off, On
  <2>2. aim'[f] = KeyOf(n) /\ target'[f] = n
    BY <1>1 DEF Keyed, Types, Filtered
  <2>3. PICK b \in server : b.key = KeyOf(n) /\ b.name = n
    BY <1>2, <1>4, <2>2 DEF KeyOf, Names
  <2>4. Follows(f)'
    BY <1>1, <2>1, <2>2, <2>3 DEF Follows, On
  <2> QED BY <1>3, <1>4, <2>1, <2>4
<1>5. CASE g # f
  <2>1. target'[g] = target[g] /\ aim'[g] = aim[g] /\ g \in enabled \ missed
    BY <1>1, <1>2, <1>5 DEF Types, Filtered, Keyed
  <2>2. IF Off(g) THEN InTrash(g) ELSE Follows(g)
    BY <1>2, <2>1 DEF Following
  <2> QED BY <1>1, <1>3, <2>1, <2>2 DEF InTrash, Follows
<1> QED BY <1>4, <1>5

(* Every step leaves a filter with its mailbox.                            *)
LEMMA NextFollowing ==
  ASSUME OneChanger, FollowInv, Next, Calm' PROVE Following'
<1>1. /\ Types /\ Calm /\ ~Outside /\ \A p \in Requests : ~Crash(p) /\ ~LockTimeout(p)
      /\ MirrorInv /\ ChangersWrite /\ Keyed /\ TrashOnly /\ Prepared /\ Following
  BY CalmBefore DEF FollowInv, MirrorInv
<1>2. ASSUME NEW p \in Changers, Change(p) PROVE Following'
  <2>1. p \in Requests /\ seen[p] \in SUBSET Row
    BY <1>1, MailboxesAssumption DEF Types, Working
  <2>2. ASSUME NEW n \in Typed, CreateBox(p, n) PROVE Following'
    <3>1. UNCHANGED <<target, enabled, aim, missed>>
      BY <2>2 DEF CreateBox
    <3>2. CASE n \in Names(server)
      <4>1. server' = server /\ tx' = tx
        BY <2>2, <3>2 DEF CreateBox, Refused
      <4> QED BY <1>1, <3>1, <4>1, FollowQuiet
    <3>3. CASE n \notin Names(server)
      <4> DEFINE t == [NoTx EXCEPT !.ins = {n}]
      <4>1. tx' = [tx EXCEPT ![p] = t] /\ server' = server \cup {[name |-> n, key |-> serial]}
            /\ pc[p] = "ready"
        BY <2>2, <3>3 DEF CreateBox
      <4>2. tx[p] = NoTx /\ t.follow = {} /\ t.off = {}
        BY <1>1, <4>1, NoOthers DEF NoTx
      <4> HIDE DEF t
      <4>3. \A q \in Requests : tx'[q].follow = tx[q].follow /\ tx'[q].off = tx[q].off
        BY <1>1, <4>1, <4>2, NoTxFacts DEF Types, Writing
      <4> QED BY <1>1, <3>1, <4>1, <4>3, FollowCreate
    <3> QED BY <3>2, <3>3
  <2>3. ASSUME NEW r \in seen[p], NEW n \in Typed, RenameBox(p, r, n) PROVE Following'
    <3> DEFINE saved == SavedWith(r, seen[p])
    <3>1. saved \in SUBSET seen[p] /\ \A c \in saved : Under(c.name, r.name)
      BY <2>1, TreeRows
    <3>2. n \in Name /\ Editable(r) /\ RenameMailbox(p, r, n, saved)
      BY <2>3, MailboxesAssumption DEF RenameBox
    <3>3. TitleOk(n) => saved = SavedWith(r, seen[p])
      OBVIOUS
    <3> HIDE DEF saved
    <3> QED BY <1>1, <3>1, <3>2, <3>3, FollowRename
  <2>4. ASSUME NEW r \in seen[p], TrashBox(p, r) PROVE Following'
    <3> DEFINE title == r.name[Len(r.name)]
               new == Trash \o <<title>>
               saved == IF TitleOk(r.name) THEN SavedWith(r, seen[p]) ELSE {}
    <3>1. saved \in SUBSET seen[p] /\ \A c \in saved : Under(c.name, r.name)
      BY <2>1, TreeRows
    <3>2. Editable(r) /\ RenameMailbox(p, r, new, saved)
      BY <2>4 DEF TrashBox
    <3>3. title \in Titles /\ Trash \in Seq(Titles)
      <4>1. r.name \in Seq(Titles) /\ r.name # <<>> /\ Trash \in Seq(Titles)
        BY <2>1, MailboxesAssumption DEF Row, Name
      <4>2. Len(r.name) \in 1 .. Len(r.name)
        BY <4>1, EmptySeq
      <4> QED BY <4>1, <4>2, ElementOfSeq
    <3> HIDE DEF title
    <3>4. new = Append(Trash, title)
      BY <3>3, AppendIsConcat
    <3>5. new \in Name /\ new[Len(new)] = title
      <4>1. /\ new \in Seq(Titles) /\ new # <<>> /\ Len(new) = Len(Trash) + 1
            /\ new[Len(Trash) + 1] = title
        BY <3>3, <3>4, AppendProperties
      <4> HIDE DEF new
      <4> QED BY <4>1 DEF Name
    <3>6. TitleOk(new) => saved = SavedWith(r, seen[p])
      BY <3>5 DEF TitleOk, title
    <3> HIDE DEF new, saved
    <3> QED BY <1>1, <3>1, <3>2, <3>5, <3>6, FollowRename
  <2>5. ASSUME NEW r \in seen[p], DeleteBox(p, r) PROVE Following'
    BY <1>1, <2>1, <2>5, QuietSteps, FollowQuiet
  <2> QED BY <1>2, <2>2, <2>3, <2>4, <2>5 DEF Change
<1>3. ASSUME NEW p \in Requests, Load(p) \/ RequestStep(p) PROVE Following'
  <2>1. CASE Load(p) \/ Reread(p) \/ Browse(p) \/ GetLock(p) \/ ReadRows(p) \/ ReadList(p)
             \/ SweepDone(p) \/ InsertRow(p) \/ SyncDone(p)
    BY <1>1, <2>1, QuietSteps, FollowQuiet
  <2>2. ASSUME NEW d \in todo[p], DeleteMailbox(p, d) PROVE Following'
    <3>1. p \in Changers
      BY <2>2, <1>1 DEF DeleteMailbox, ChangersWrite
    <3> QED BY <1>1, <2>2, <3>1, FollowDelete
  <2>3. CASE CreateSpecial(p)
    <3>1. Trash \notin Names(server)
      BY <1>1, <2>3 DEF CreateSpecial, MirrorInv, NoTrash
    <3>2. /\ server' = server \cup {[name |-> Trash, key |-> serial]}
          /\ UNCHANGED <<target, enabled, aim, missed, tx>>
      BY <2>3, <3>1 DEF CreateSpecial, local, history
    <3> QED BY <1>1, <3>2, FollowCreate
  <2> QED BY <1>1, <1>2, <1>3, <2>1, <2>2, <2>3, FollowCommit, FollowDestroy DEF RequestStep, SyncStep
<1> QED BY <1>1, <1>3, FollowSave DEF Next

(* The filters and their mailboxes, in every state.                        *)
LEMMA FollowHolds == OneChanger /\ AllKnown /\ Spec => []FollowInv
<1> SUFFICES ASSUME OneChanger, AllKnown PROVE Spec => []FollowInv
  OBVIOUS
<1>1. Init /\ MirrorInv => FollowInv
  <2> SUFFICES ASSUME Init, MirrorInv PROVE FollowInv
    OBVIOUS
  <2>1. (\A p \in Requests : pc[p] = "idle" /\ todo[p] = {}) /\ enabled = {}
    BY DEF Init
  <2>2. Keyed
    <3>1. Len(Existing) \in Nat
      BY MailboxesAssumption, LenProperties
    <3> QED BY <3>1 DEF Init, Keyed, NoKey
  <2>3. Calm => KeptUp
    <3>1. Settled /\ \A p \in Requests : ~Looked(p)
      BY <2>1, MailboxesAssumption DEF Settled, Pending, Looked
    <3>2. CASE rows = {}
      <4>1. \A i \in DOMAIN Existing : [id |-> i, name |-> Existing[i]] \in rows
        BY DEF Init, AllKnown
      <4>2. server = {}
        BY <3>2, <4>1 DEF Init
      <4> QED BY <3>2, <4>2 DEF KeptUp, Names
    <3> QED BY <3>1, <3>2 DEF MirrorInv, Mirroring, Mirrored, KeptUp
  <2> QED BY <2>1, <2>2, <2>3, MailboxesAssumption DEF FollowInv, TrashOnly, Prepared, Doomed, Following
<1>2. FollowInv /\ [Next]_vars => FollowInv'
  <2> SUFFICES ASSUME FollowInv, [Next]_vars PROVE FollowInv'
    OBVIOUS
  <2>1. CASE UNCHANGED vars
    <3>1. UNCHANGED <<server, rows, target, enabled, pc, seen, todo, tx, aim, missed, doubled, count>>
      BY <2>1 DEF vars, data, local, history
    <3>2. TrashOnly' /\ (Calm' => KeptUp' /\ Prepared' /\ Doomed')
      BY <3>1 DEF FollowInv, TrashOnly, Calm, KeptUp, Prepared, Doomed, Resting
    <3>3. Calm' => Following'
      BY <3>1, FollowQuiet DEF FollowInv, Calm
    <3> QED BY <2>1, <3>2, <3>3, NextKeyed, MirrorStep DEF FollowInv, MirrorInv
  <2>2. CASE Next
    <3>1. MirrorInv' /\ Keyed' /\ TrashOnly'
      BY <2>2, MirrorStep, NextKeyed, NextTrashOnly DEF FollowInv, MirrorInv
    <3>2. ASSUME Calm' PROVE KeptUp' /\ Prepared' /\ Doomed' /\ Following'
      <4>1. MirrorInv /\ Calm
        BY <2>2, <3>2, CalmBefore DEF FollowInv, MirrorInv
      <4> QED BY <2>2, <3>2, <4>1, NextKeptUp, NextPrepared, NextDoomed, NextFollowing DEF FollowInv
    <3> QED BY <3>1, <3>2 DEF FollowInv
  <2> QED BY <2>1, <2>2
<1>3. Spec => []MirrorInv
  BY MirrorHolds
<1> QED BY <1>1, <1>2, <1>3, PTL DEF Spec

(* Where one request at a time changes mailboxes, and with the rows true   *)
(* at the start, a filter goes on naming the mailbox the user chose: the   *)
(* one that renames has seen a row of every mailbox (mailbox.rb:151-213),  *)
(* so its tree leads to the filters of all that the server renames, and    *)
(* the transaction gives them the names of that moment.                    *)
THEOREM FiltersFollow == OneChanger /\ AllKnown /\ Spec => []FilterFollows
<1>1. FollowInv => FilterFollows
  <2> SUFFICES ASSUME FollowInv, Idle, count.crashes + count.outside + count.timeouts = 0,
                      NEW f \in enabled \ missed, aim[f] # NoKey
               PROVE  \E b \in server : b.name = target[f] /\ b.key = aim[f]
    BY DEF FilterFollows
  <2>1. Calm /\ Types
    BY DEF Calm, FollowInv, MirrorInv, Types, Counting, Events
  <2>2. \A p \in Requests : tx[p].follow = {} /\ tx[p].off = {}
    BY <2>1, NoTxFacts DEF Idle, Types, Writing
  <2>3. ~Off(f) /\ ~On(f) /\ Following
    BY <2>1, <2>2 DEF Off, On, FollowInv
  <2> QED BY <2>3 DEF Following, Follows
<1> QED BY <1>1, FollowHolds, PTL

(* Under the same conditions a filter is switched off with its mailbox     *)
(* only (mailbox.rb:277-279): a commit does it to those of a tree in the   *)
(* trash, and a sync to those of a row whose name no mailbox has, which    *)
(* are not the filters of one, or of a name that two rows had.             *)
THEOREM DisabledWithMailbox == OneChanger /\ AllKnown /\ Spec => DisabledOnlyWhenGone
<1> DEFINE Kind == count.crashes + count.outside + count.timeouts = 0
                     => \A f \in enabled \ (enabled' \cup missed) : target[f] \notin doubled
                          => \A b \in server : b.key = aim[f] => Under(b.name, Trash)
<1>1. FollowInv /\ [Next]_vars => [Kind]_vars
  <2> SUFFICES ASSUME FollowInv, Next, count.crashes + count.outside + count.timeouts = 0,
                      NEW f \in enabled \ (enabled' \cup missed), target[f] \notin doubled,
                      NEW b \in server, b.key = aim[f]
               PROVE  Under(b.name, Trash)
    OBVIOUS
  <2>1. Calm /\ Types
    BY DEF Calm, FollowInv, MirrorInv, Types, Counting, Events
  <2>2. aim[f] # NoKey /\ Following /\ Doomed /\ f \in Filters
    BY <2>1 DEF FollowInv, Types, Served, Filtered, NoKey
  <2>3. ASSUME NEW p \in Requests, Commit(p) PROVE Under(b.name, Trash)
    <3>1. Off(f)
      BY <2>3 DEF Commit, Off
    <3> QED BY <2>2, <3>1 DEF Following, InTrash
  <2>4. ASSUME NEW p \in Requests, NEW r \in todo[p], DestroyRow(p, r) PROVE FALSE
    <3>1. /\ f \in FiltersOn({r.name}) /\ target[f] = r.name /\ pc[p] = "sweep"
          /\ \A q \in Requests \ {p} : f \notin FiltersOf(q)
      BY <2>2, <2>4 DEF DestroyRow, FiltersOn, LockedFilters
    <3>2. tx[p] = NoTx
      BY <2>1, <3>1 DEF Types, Writing
    <3>3. ~Off(f) /\ ~On(f)
      BY <3>1, <3>2, NoTxFacts DEF FiltersOf, Off, On
    <3>4. target[f] \in Names(server)
      BY <2>2, <3>3 DEF Following, Follows, Names
    <3> QED BY <2>2, <3>1, <3>4 DEF Doomed
  <2>5. ASSUME \A p \in Requests : ~Commit(p) /\ \A r \in todo[p] : ~DestroyRow(p, r) PROVE FALSE
    <3>1. ASSUME NEW p \in Requests, Change(p) \/ \E d \in todo[p] : DeleteMailbox(p, d)
          PROVE  enabled' = enabled
      BY <2>1, <3>1, ChangeMoves DEF DeleteMailbox
    <3>2. ASSUME NEW p \in Requests, Crash(p) \/ CreateSpecial(p) PROVE enabled' = enabled
      BY <3>2 DEF Crash, CreateSpecial, data
    <3>3. ASSUME Outside \/ \E g \in Filters, n \in shown : SaveFilter(g, n) PROVE enabled \subseteq enabled'
      BY <3>3 DEF Outside, SaveFilter
    <3> QED BY <2>1, <2>5, <3>1, <3>2, <3>3, QuietSteps DEF Next, RequestStep, SyncStep
  <2> QED BY <2>3, <2>4, <2>5
<1> QED BY <1>1, FollowHolds, PTL DEF Spec, DisabledOnlyWhenGone
===========================================================================
