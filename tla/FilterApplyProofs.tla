------------------------ MODULE FilterApplyProofs ------------------------
(***************************************************************************)
(* What holds of a filter applied by hand, for any mails, mailboxes,       *)
(* filters, slices and limits and any number of moves by another client    *)
(* and of actions that raise.                                              *)
(***************************************************************************)
EXTENDS FilterApply, ImapStoreTheorems

---------------------------------------------------------------------------
(* The order of the scheduled mails is total: of two different mails one   *)
(* comes before the other, and not both.                                   *)
LEMMA BeforeOrders ==
  ASSUME NEW x \in Boxes \X Nat, NEW y \in Boxes \X Nat, NEW z \in Boxes \X Nat
  PROVE  /\ ~Before(x, x)
         /\ x # y => Before(x, y) \/ Before(y, x)
         /\ Before(x, y) /\ Before(y, z) => Before(x, z)
<1>1. /\ x[1] \in Boxes /\ x[2] \in Nat /\ x = <<x[1], x[2]>>
      /\ y[1] \in Boxes /\ y[2] \in Nat /\ y = <<y[1], y[2]>>
      /\ z[1] \in Boxes /\ z[2] \in Nat
  OBVIOUS
<1>2. /\ ListOrder[x[1]] \in Nat /\ ListOrder[y[1]] \in Nat /\ ListOrder[z[1]] \in Nat
      /\ ListOrder[x[1]] = ListOrder[y[1]] => x[1] = y[1]
  BY <1>1, ApplyAssumption
<1>3. x # y => x[1] # y[1] \/ x[2] # y[2]
  BY <1>1
<1>4. ~Before(x, x)
  BY <1>1, <1>2 DEF Before
<1>5. x # y => Before(x, y) \/ Before(y, x)
  BY <1>1, <1>2, <1>3 DEF Before
<1>6. Before(x, y) /\ Before(y, z) => Before(x, z)
  BY <1>1, <1>2 DEF Before
<1> QED BY <1>4, <1>5, <1>6

(* schedule_mail_uids keeps at most as many mails as the limit allows, and *)
(* exactly as many when it leaves one out.                                 *)
LEMMA ScheduledFacts ==
  ASSUME NEW S, IsFiniteSet(S), S \subseteq Boxes \X Nat, NEW n \in Nat
  PROVE  /\ ScheduledFirst(n, S) \subseteq S
         /\ Cardinality(ScheduledFirst(n, S)) <= n
         /\ ScheduledFirst(n, S) # S => Cardinality(ScheduledFirst(n, S)) = n
<1> DEFINE P(x) == {y \in S : Before(y, x)}
           rank == [x \in S |-> Cardinality(P(x))]
           c == Cardinality(S)
           F == {x \in S : rank[x] < n}
           r == [x \in F |-> rank[x]]
<1>1. c \in Nat
  BY FS_CardinalityType
<1>2. ASSUME NEW x \in S
      PROVE  IsFiniteSet(P(x)) /\ Cardinality(P(x)) \in Nat /\ Cardinality(P(x)) < c
  <2>1. x \notin P(x)
    BY BeforeOrders
  <2>2. P(x) \in SUBSET S /\ P(x) # S
    BY <2>1
  <2> HIDE DEF P
  <2>3. IsFiniteSet(P(x)) /\ Cardinality(P(x)) <= Cardinality(S) /\ Cardinality(S) # Cardinality(P(x))
    BY <2>2, FS_Subset
  <2>4. Cardinality(P(x)) \in Nat
    BY <2>3, FS_CardinalityType
  <2> QED BY <1>1, <2>3, <2>4
<1>3. ASSUME NEW x \in S, NEW y \in S, Before(x, y)
      PROVE  rank[x] < rank[y]
  <2>1. \A z \in S : Before(z, x) => Before(z, y)
    BY <1>3, BeforeOrders
  <2>2. x \in P(y) /\ x \notin P(x) /\ P(x) \in SUBSET P(y)
    BY <1>3, <2>1, BeforeOrders
  <2>3. P(x) # P(y)
    BY <2>2
  <2>4. rank[x] = Cardinality(P(x)) /\ rank[y] = Cardinality(P(y))
    OBVIOUS
  <2>5. IsFiniteSet(P(y)) /\ Cardinality(P(y)) \in Nat /\ Cardinality(P(x)) \in Nat
    BY <1>2
  <2> HIDE DEF P, rank
  <2>6. Cardinality(P(x)) <= Cardinality(P(y)) /\ Cardinality(P(y)) # Cardinality(P(x))
    BY <2>2, <2>3, <2>5, FS_Subset
  <2> QED BY <2>4, <2>5, <2>6
<1>4. \A x, y \in S : x # y => rank[x] # rank[y]
  <2>1. \A x \in S : rank[x] \in Nat
    BY <1>2
  <2>2. SUFFICES ASSUME NEW x \in S, NEW y \in S, x # y
                 PROVE  rank[x] # rank[y]
    OBVIOUS
  <2>3. Before(x, y) \/ Before(y, x)
    BY <2>2, BeforeOrders
  <2> HIDE DEF rank
  <2> QED BY <1>3, <2>1, <2>3
<1>5. \A x \in S : rank[x] \in 0 .. (c - 1)
  <2>1. SUFFICES ASSUME NEW x \in S PROVE rank[x] \in 0 .. (c - 1)
    OBVIOUS
  <2>2. rank[x] = Cardinality(P(x))
    OBVIOUS
  <2> HIDE DEF rank, P, c
  <2> QED BY <1>1, <1>2, <2>2
<1>6. ScheduledFirst(n, S) = F /\ F \subseteq S
  BY DEF ScheduledFirst
<1>7. DOMAIN rank = S /\ rank \in [S -> 0 .. (c - 1)]
  BY <1>5
<1> HIDE DEF P, rank, c
<1>8. rank \in Injection(S, 0 .. (c - 1))
  BY <1>4, <1>7 DEF Injection, IsInjective
<1>9. rank \in Surjection(S, 0 .. (c - 1))
  <2>1. IsFiniteSet(0 .. (c - 1)) /\ Cardinality(0 .. (c - 1)) = c
    BY <1>1, FS_Interval
  <2> QED BY <1>8, <2>1, FS_Injection DEF c
<1>10. IsFiniteSet(0 .. (n - 1)) /\ Cardinality(0 .. (n - 1)) = n
  BY FS_Interval
<1>11. r \in Injection(F, 0 .. (n - 1))
  <2>1. \A x \in F : r[x] = rank[x] /\ rank[x] \in 0 .. (n - 1)
    BY <1>1, <1>5
  <2>2. r \in [F -> 0 .. (n - 1)]
    BY <2>1
  <2>3. \A x, y \in F : r[x] = r[y] => x = y
    BY <1>4, <2>1
  <2> HIDE DEF r, F
  <2> QED BY <2>2, <2>3 DEF Injection, IsInjective
<1>12. Cardinality(F) <= n
  BY <1>10, <1>11, FS_Injection
<1>13. ASSUME F # S PROVE Cardinality(F) = n
  <2>1. PICK x \in S : ~(rank[x] < n)
    BY <1>13
  <2>2. n <= c
    BY <1>1, <1>5, <2>1
  <2>3. ASSUME NEW k \in 0 .. (n - 1) PROVE \E y \in F : r[y] = k
    <3>1. k \in 0 .. (c - 1) /\ k < n
      BY <1>1, <2>2
    <3>2. PICK y \in S : rank[y] = k
      BY <1>9, <3>1 DEF Surjection
    <3> QED BY <3>1, <3>2
  <2>4. r \in Surjection(F, 0 .. (n - 1))
    BY <1>11, <2>3 DEF Injection, Surjection
  <2> HIDE DEF r, F
  <2> QED BY <1>10, <1>11, <2>4, FS_Injection
<1> QED BY <1>6, <1>12, <1>13
---------------------------------------------------------------------------
(* The inductive invariant                                                 *)

(* A UID names one message of a mailbox, and UIDNEXT is above them all.    *)
Server ==
  /\ store \subseteq Message /\ IsFiniteSet(store)
  /\ uidnext \in [Boxes -> Nat \ {0}]
  /\ \A r \in store : r.uid < uidnext[r.box]
  /\ \A r, q \in store : r.box = q.box /\ r.uid = q.uid => r = q

(* Where the request or the job is decides which of its variables are in   *)
(* use: actions are left only while a slice is under way, and the request  *)
(* itself has loaded the chosen filter only.                               *)
Stage ==
  /\ pc \in {"form", "slice", "done", "job"}
  /\ matched \in [Filters -> SUBSET Nat]
  /\ pc = "form" => found = {} /\ matched = Nothing
  /\ pc \in {"form", "done"} => acts = {}
  /\ acts \subseteq loaded
  /\ pc = "slice" => chosen \in Filters /\ loaded = {chosen}

(* The mails left, at once or for a job, are mails found, and no message   *)
(* that enters a mailbox later gets the UID of a mail found.               *)
Search ==
  /\ found \subseteq Boxes \X Nat /\ IsFiniteSet(found)
  /\ \A x \in found : x[2] < uidnext[x[1]]
  /\ todo \subseteq found
  /\ \A j \in jobs : \A u \in j.uids : <<j.box, u>> \in found

(* The part of the mails found that the request handles itself *)
AtOnceMails == ScheduledFirst(MaxAtOnce, found)

(* What became of a mail the request was to handle *)
Excused(r) == ~Match(chosen, r.mail) \/ Target[chosen] = r.box \/ <<r.box, r.uid>> \in missed
Awaited(r) ==
  /\ pc = "slice"
  /\ \/ <<r.box, r.uid>> \in todo
     \/ chosen \in acts /\ r.box = box /\ r.uid \in matched[chosen]

Handled ==
  pc # "form" => \A r \in store : <<r.box, r.uid>> \in AtOnceMails => Excused(r) \/ Awaited(r)

Counted ==
  /\ pc # "form" => processed = Cardinality(AtOnceMails)
  /\ pc \in {"done", "job"} => delayed = Cardinality(found \ AtOnceMails)

(* As long as the mails found are in one mailbox, the collected UIDs are   *)
(* UIDs of that mailbox, and name mails the filter matches.                *)
OneBox == \A x, y \in found : x[1] = y[1]
Collected ==
  /\ \A f \in Filters : \A u \in matched[f] : <<box, u>> \in found
  /\ \A f \in Filters : \A r \in store : r.box = box /\ r.uid \in matched[f] => Match(f, r.mail)
InOneBox == OneBox => Collected /\ MovesOnlyMatching

Inv == Server /\ Stage /\ Search /\ Handled /\ Counted /\ InOneBox
---------------------------------------------------------------------------
(* What the steps do                                                       *)

(* Moving messages of one mailbox keeps the server in order; whatever is   *)
(* in a mailbox after it was there before or has a UID not handed out yet. *)
LEMMA MoveToFacts ==
  ASSUME Server, NEW S \in SUBSET store, \A r, q \in S : r.uid = q.uid => r = q,
         NEW dest \in Boxes, MoveTo(S, dest)
  PROVE  /\ Server'
         /\ \A b \in Boxes : uidnext[b] <= uidnext'[b]
         /\ \A r \in store' : (r \in store /\ r \notin S) \/ uidnext[r.box] <= r.uid
<1> DEFINE A == Arrivals(S, dest, uidnext[dest])
           n == Cardinality(S)
           K == store \ S
<1>1. IsFiniteSet(S) /\ IsFiniteSet(K)
  BY FS_Subset DEF Server
<1>2. S \subseteq Message /\ uidnext[dest] \in Nat \ {0}
  BY DEF Server
<1>3. /\ A \subseteq Message /\ IsFiniteSet(A)
      /\ \A a \in A : a.box = dest /\ uidnext[dest] <= a.uid /\ a.uid < uidnext[dest] + n
  BY <1>1, <1>2, ArrivalsFacts
<1>4. \A a, c \in A : a.uid = c.uid => a = c
  BY <1>1, <1>2, ArrivalsApart
<1>5. n \in Nat
  BY <1>1, FS_CardinalityType
<1>6. store' = K \cup A /\ uidnext' = [uidnext EXCEPT ![dest] = uidnext[dest] + n]
  BY DEF MoveTo
<1>7. K \subseteq store
  OBVIOUS
<1>8. \A r \in store' : (r \in store /\ r \notin S) \/ (r \in A /\ uidnext[r.box] <= r.uid)
  <2>1. \A a \in A : uidnext[a.box] <= a.uid
    BY <1>3
  <2> HIDE DEF A
  <2> QED BY <1>6, <2>1
<1> HIDE DEF A, n, K
<1>9. uidnext' \in [Boxes -> Nat \ {0}] /\ \A b \in Boxes : uidnext[b] <= uidnext'[b]
  <2>1. uidnext \in [Boxes -> Nat \ {0}]
    BY DEF Server
  <2> QED BY <1>2, <1>5, <1>6, <2>1
<1>10. store' \subseteq Message /\ IsFiniteSet(store')
  <2>1. IsFiniteSet(K \cup A)
    BY <1>1, <1>3, FS_Union
  <2> QED BY <1>3, <1>6, <1>7, <2>1 DEF Server
<1>11. \A r \in store' : r.uid < uidnext'[r.box]
  <2>1. ASSUME NEW r \in K PROVE r.uid < uidnext'[r.box]
    <3>1. r.box \in Boxes /\ r.uid \in Nat /\ r.uid < uidnext[r.box]
      BY <1>7 DEF Server, Message
    <3>2. uidnext[r.box] <= uidnext'[r.box] /\ uidnext[r.box] \in Nat /\ uidnext'[r.box] \in Nat
      BY <1>9, <3>1 DEF Server
    <3> QED BY <3>1, <3>2
  <2>2. ASSUME NEW r \in A PROVE r.uid < uidnext'[r.box]
    <3>1. r.box = dest /\ r.uid < uidnext[dest] + n
      BY <1>3
    <3>2. uidnext'[dest] = uidnext[dest] + n
      BY <1>6 DEF Server
    <3> QED BY <3>1, <3>2
  <2> QED BY <1>6, <2>1, <2>2
<1>12. \A r, q \in store' : r.box = q.box /\ r.uid = q.uid => r = q
  <2>1. \A r \in K, a \in A : ~(r.box = a.box /\ r.uid = a.uid)
    <3>1. SUFFICES ASSUME NEW r \in K, NEW a \in A, r.box = a.box, r.uid = a.uid
                   PROVE  FALSE
      OBVIOUS
    <3>2. r.uid \in Nat /\ r.uid < uidnext[r.box] /\ uidnext[dest] \in Nat
      BY <1>2, <1>7 DEF Server, Message
    <3>3. r.box = dest /\ uidnext[dest] <= r.uid
      BY <1>3, <3>1
    <3> QED BY <3>2, <3>3
  <2>2. \A r, q \in K : r.box = q.box /\ r.uid = q.uid => r = q
    BY <1>7 DEF Server
  <2> QED BY <1>4, <1>6, <2>1, <2>2
<1> QED BY <1>8, <1>9, <1>10, <1>11, <1>12 DEF Server

(* The mails that a UID set names in one mailbox have different UIDs.      *)
LEMMA NamedApart ==
  ASSUME Server, NEW b, NEW uids
  PROVE  /\ Named(store, b, uids) \in SUBSET store
         /\ \A r, q \in Named(store, b, uids) : r.uid = q.uid => r = q
BY DEF Named, Server

(* A step of an action moves what its UIDs name in the current mailbox, or *)
(* nothing.                                                                *)
LEMMA ActionMoves ==
  ASSUME Server, Stage, NEW f \in Filters, PerformAction(f)
  PROVE  \E S \in SUBSET store :
           /\ \A r, q \in S : r.uid = q.uid => r = q
           /\ S = IF Target[f] = box THEN {} ELSE Named(store, box, matched[f])
           /\ MoveTo(S, Target[f])
           /\ Target[f] \in Boxes
           /\ filed' = filed \cup {[mail |-> r.mail, filter |-> f] : r \in S}
<1> DEFINE S == IF Target[f] = box THEN {} ELSE Named(store, box, matched[f])
<1>1. S \in SUBSET store /\ \A r, q \in S : r.uid = q.uid => r = q
  BY NamedApart
<1>2. MoveTo(S, Target[f]) /\ filed' = filed \cup {[mail |-> r.mail, filter |-> f] : r \in S}
  BY DEF PerformAction
<1>3. Target[f] \in Boxes
  BY RulesAssumption
<1> HIDE DEF S
<1>4. S = IF Target[f] = box THEN {} ELSE Named(store, box, matched[f])
  BY DEF S
<1> QED BY <1>1, <1>2, <1>3, <1>4

(* The UIDs a filter of fs gets from a slice of mailbox b *)
Hits(b, slice, f, fs) == UidsOf({r \in Named(store, b, slice) : Takes(f, fs, r.mail)})

(* A slice is taken from the mails left in the mailbox the pass goes to,   *)
(* and adds the UIDs of the mails a filter takes.                          *)
LEMMA SliceFacts ==
  ASSUME Search, FetchSlice
  PROVE  \E slice :
           /\ todo' = todo \ ({box'} \X slice)
           /\ {box'} \X slice \subseteq todo
           /\ matched' = [f \in Filters |-> matched[f] \cup Hits(box', slice, f, loaded)]
           /\ acts' = {f \in loaded : matched'[f] # {}}
<1> DEFINE b == CHOOSE c \in {x[1] : x \in todo} :
                  \A d \in {x[1] : x \in todo} : ListOrder[c] <= ListOrder[d]
           U == {x[2] : x \in {y \in todo : y[1] = b}}
           slice == NextSlice(U)
<1>1. box' = b /\ todo' = todo \ ({b} \X slice)
  BY DEF FetchSlice
<1>2. matched' = [f \in Filters |-> matched[f] \cup Hits(b, slice, f, loaded)]
  BY DEF FetchSlice, Hits
<1>3. acts' = {f \in loaded : matched'[f] # {}}
  BY DEF FetchSlice
<1>4. slice \subseteq U
  BY DEF NextSlice, Newest
<1>5. {b} \X slice \subseteq todo
  <2>1. ASSUME NEW u \in U PROVE <<b, u>> \in todo
    <3>1. PICK x \in todo : x[1] = b /\ u = x[2]
      OBVIOUS
    <3>2. x \in Boxes \X Nat
      BY DEF Search
    <3> HIDE DEF b
    <3>3. x = <<b, u>>
      BY <3>1, <3>2
    <3> QED BY <3>3
  <2> HIDE DEF b, U, slice
  <2> QED BY <1>4, <2>1
<1> HIDE DEF b, slice
<1> QED BY <1>1, <1>2, <1>3, <1>5

(* When all mails found are in one mailbox, the pass is in that one.       *)
LEMMA SliceInOneBox ==
  ASSUME Search, OneBox, FetchSlice
  PROVE  \A x \in found : x[1] = box'
<1> DEFINE T == {x[1] : x \in todo}
           Least(c) == \A d \in T : ListOrder[c] <= ListOrder[d]
<1>1. box' = CHOOSE c \in T : Least(c)
  BY DEF FetchSlice
<1>2. PICK x \in todo : TRUE
  BY DEF FetchSlice
<1>3. x[1] \in T /\ \A d \in T : d = x[1]
  BY <1>2 DEF Search, OneBox
<1>4. ListOrder[x[1]] \in Nat
  <2>1. x \in Boxes \X Nat
    BY <1>2 DEF Search
  <2> QED BY <2>1, ApplyAssumption
<1>5. Least(x[1])
  <2>1. ListOrder[x[1]] <= ListOrder[x[1]]
    BY <1>4
  <2> HIDE DEF T
  <2> QED BY <1>3, <2>1
<1> HIDE DEF T, Least
<1>6. box' \in T
  BY <1>1, <1>3, <1>5
<1>7. box' = x[1]
  BY <1>3, <1>6
<1> QED BY <1>7 DEF OneBox, Search

(* They are in the slice, each names a mail the filter matches, and every  *)
(* mail the filter takes is among them.                                    *)
LEMMA HitsFacts ==
  ASSUME NEW b, NEW slice, NEW f, NEW fs
  PROVE  /\ Hits(b, slice, f, fs) \subseteq slice
         /\ \A u \in Hits(b, slice, f, fs) : \E r \in store : r.box = b /\ r.uid = u /\ Match(f, r.mail)
         /\ \A r \in store : r.box = b /\ r.uid \in slice /\ Takes(f, fs, r.mail)
              => r.uid \in Hits(b, slice, f, fs)
BY DEF Hits, UidsOf, Named, Takes
---------------------------------------------------------------------------
(* The invariant holds of the initial states                               *)

LEMMA InitInv ==
  ASSUME Init
  PROVE  Inv
<1>1. Server
  <2> DEFINE here(b) == {r \in Content : r.box = b}
  <2>1. \A b \in Boxes : Cardinality(here(b)) \in Nat
    <3>1. \A b \in Boxes : here(b) \in SUBSET Content
      OBVIOUS
    <3> HIDE DEF here
    <3> QED BY <3>1, FS_Subset, FS_CardinalityType, ApplyAssumption
  <2>2. uidnext = [b \in Boxes |-> 1 + Cardinality(here(b))]
    BY DEF Init
  <2>3. \A r \in Content : r.box \in Boxes /\ r.uid \in Nat /\ r.uid <= Cardinality(here(r.box))
    BY ApplyAssumption DEF Message
  <2>4. store = Content
    BY DEF Init
  <2> HIDE DEF here
  <2>5. uidnext \in [Boxes -> Nat \ {0}]
    BY <2>1, <2>2
  <2>6. \A r \in store : r.uid < uidnext[r.box]
    BY <2>1, <2>2, <2>3, <2>4
  <2> QED BY <2>4, <2>5, <2>6, ApplyAssumption DEF Server
<1>2. Stage
  BY DEF Init, Stage, Nothing
<1>3. Search
  BY FS_EmptySet DEF Init, Search
<1>4. Handled /\ Counted
  BY DEF Init, Handled, Counted
<1>5. InOneBox
  BY DEF Init, InOneBox, Collected, MovesOnlyMatching, Nothing
<1> QED BY <1>1, <1>2, <1>3, <1>4, <1>5 DEF Inv
---------------------------------------------------------------------------
(* Every step keeps it                                                     *)

(* A step that only moves messages, whoever makes it.                      *)
LEMMA NextServer ==
  ASSUME Inv, Next
  PROVE  /\ Server'
         /\ \A b \in Boxes : uidnext[b] <= uidnext'[b]
         /\ \A r \in store' : r \in store \/ uidnext[r.box] <= r.uid
<1> USE DEF Inv
<1>0. ASSUME UNCHANGED imap
      PROVE  /\ Server'
             /\ \A b \in Boxes : uidnext[b] <= uidnext'[b]
             /\ \A r \in store' : r \in store \/ uidnext[r.box] <= r.uid
  BY <1>0 DEF Server, imap
<1>1. ASSUME NEW r \in store, NEW b \in Boxes, MoveElsewhere(r, b)
      PROVE  /\ Server'
             /\ \A c \in Boxes : uidnext[c] <= uidnext'[c]
             /\ \A q \in store' : q \in store \/ uidnext[q.box] <= q.uid
  <2>1. MoveTo({r}, b)
    BY <1>1 DEF MoveElsewhere
  <2>2. {r} \in SUBSET store /\ \A x, y \in {r} : x.uid = y.uid => x = y
    OBVIOUS
  <2> QED BY <2>1, <2>2, MoveToFacts
<1>2. ASSUME NEW f \in Filters, NEW b \in Boxes, NEW s \in BOOLEAN, Apply(f, b, s) PROVE UNCHANGED imap
  BY <1>2 DEF Apply
<1>3. CASE SliceDone /\ FetchSlice
  <2>1. UNCHANGED imap
    BY <1>3 DEF FetchSlice
  <2> QED BY <1>0, <2>1
<1>4. ASSUME NEW f \in Filters, PerformAction(f)
      PROVE  /\ Server'
             /\ \A c \in Boxes : uidnext[c] <= uidnext'[c]
             /\ \A q \in store' : q \in store \/ uidnext[q.box] <= q.uid
  <2>1. PICK S \in SUBSET store : /\ \A r, q \in S : r.uid = q.uid => r = q
                                  /\ MoveTo(S, Target[f]) /\ Target[f] \in Boxes
    BY <1>4, ActionMoves
  <2> QED BY <2>1, MoveToFacts
<1>5. ASSUME NEW f \in Filters, PerformFail(f) PROVE UNCHANGED imap
  BY <1>5 DEF PerformFail
<1>6. EnqueueRest => UNCHANGED imap
  BY DEF EnqueueRest
<1>7. ASSUME NEW j \in jobs, StartJob(j) PROVE UNCHANGED imap
  BY <1>7 DEF StartJob
<1>8. FinishJob => UNCHANGED imap
  BY DEF FinishJob
<1> QED BY <1>0, <1>1, <1>2, <1>3, <1>4, <1>5, <1>6, <1>7, <1>8 DEF Next

(* The variables of a stage are used in that stage only.                   *)
LEMMA NextStage ==
  ASSUME Inv, Next
  PROVE  Stage'
<1>1. Stage /\ Search
  BY DEF Inv
<1>2. ASSUME NEW r \in store, NEW b \in Boxes, MoveElsewhere(r, b) PROVE Stage'
  BY <1>1, <1>2 DEF MoveElsewhere, Stage, form, pass
<1>3. ASSUME NEW f \in Filters, NEW b \in Boxes, NEW s \in BOOLEAN, Apply(f, b, s) PROVE Stage'
  BY <1>1, <1>3 DEF Apply, Stage
<1>4. CASE SliceDone /\ FetchSlice
  <2>1. PICK slice :
          /\ {box'} \X slice \subseteq todo
          /\ matched' = [f \in Filters |-> matched[f] \cup Hits(box', slice, f, loaded)]
          /\ acts' = {f \in loaded : matched'[f] # {}}
    BY <1>1, <1>4, SliceFacts
  <2>2. slice \subseteq Nat
    <3>1. \A u \in slice : <<box', u>> \in Boxes \X Nat
      BY <1>1, <2>1 DEF Search
    <3> QED BY <3>1
  <2>3. matched' \in [Filters -> SUBSET Nat]
    <3>1. ASSUME NEW f \in Filters
          PROVE  Hits(box', slice, f, loaded) \subseteq Nat
      BY <2>2, HitsFacts
    <3> QED BY <1>1, <2>1, <3>1 DEF Stage
  <2>4. pc \in {"slice", "job"} /\ UNCHANGED <<pc, chosen, loaded>> /\ acts' \subseteq loaded
    BY <1>4, <2>1 DEF FetchSlice, form
  <2> QED BY <1>1, <2>3, <2>4 DEF Stage
<1>5. ASSUME NEW f \in Filters, PerformAction(f) \/ PerformFail(f) PROVE Stage'
  BY <1>1, <1>5 DEF PerformAction, PerformFail, Stage, form, pass
<1>6. CASE EnqueueRest
  BY <1>1, <1>6 DEF EnqueueRest, Stage, SliceDone, Nothing, form
<1>7. ASSUME NEW j \in jobs, StartJob(j) PROVE Stage'
  <2>1. pc' = "job" /\ acts' = {} /\ matched' = Nothing /\ chosen' = chosen
    BY <1>1, <1>7 DEF StartJob, Stage, form
  <2> QED BY <2>1 DEF Stage, Nothing
<1>8. CASE FinishJob
  BY <1>1, <1>8 DEF FinishJob, Stage, SliceDone, form, pass
<1> QED BY <1>2, <1>3, <1>4, <1>5, <1>6, <1>7, <1>8 DEF Next

(* What is left to do are mails found, and their UIDs are not given out    *)
(* again.                                                                  *)
LEMMA NextSearch ==
  ASSUME Inv, Next
  PROVE  Search'
<1>1. Search /\ Stage /\ Server
  BY DEF Inv
<1>2. \A b \in Boxes : uidnext[b] <= uidnext'[b] /\ uidnext[b] \in Nat /\ uidnext'[b] \in Nat
  BY <1>1, NextServer DEF Server
<1>3. ASSUME UNCHANGED found, todo' \subseteq found,
             \A j \in jobs' : \A u \in j.uids : <<j.box, u>> \in found
      PROVE  Search'
  <2>1. \A x \in found : x[2] < uidnext'[x[1]]
    <3>1. SUFFICES ASSUME NEW x \in found PROVE x[2] < uidnext'[x[1]]
      OBVIOUS
    <3>2. x[1] \in Boxes /\ x[2] \in Nat /\ x[2] < uidnext[x[1]]
      BY <1>1 DEF Search
    <3> QED BY <1>2, <3>2
  <2> QED BY <1>1, <1>3, <2>1 DEF Search
<1>4. ASSUME UNCHANGED <<found, todo, jobs>> PROVE Search'
  BY <1>1, <1>3, <1>4 DEF Search
<1>5. ASSUME NEW r \in store, NEW b \in Boxes, MoveElsewhere(r, b) PROVE Search'
  BY <1>4, <1>5 DEF MoveElsewhere, form, pass
<1>6. ASSUME NEW f \in Filters, NEW b \in Boxes, NEW s \in BOOLEAN, Apply(f, b, s) PROVE Search'
  <2> DEFINE shown == {r \in store : r.box \in ApplyMailboxes(b, s) /\ ~r.deleted}
             mails == {<<r.box, r.uid>> : r \in shown}
             g == [r \in shown |-> <<r.box, r.uid>>]
  <2>1. found' = mails /\ todo' = ScheduledFirst(MaxAtOnce, mails) /\ UNCHANGED <<uidnext, jobs>>
    BY <1>6 DEF Apply, imap
  <2>2. IsFiniteSet(mails)
    <3>1. IsFiniteSet(shown)
      <4>1. shown \in SUBSET store
        OBVIOUS
      <4> QED BY <1>1, <4>1, FS_Subset DEF Server
    <3>2. g = [r \in shown |-> g[r]] /\ mails = {g[r] : r \in shown}
      OBVIOUS
    <3> HIDE DEF g, shown, mails
    <3> QED BY <3>1, <3>2, FiniteImage
  <2>3. \A x \in mails : x \in Boxes \X Nat /\ x[2] < uidnext[x[1]]
    BY <1>1 DEF Server, Message
  <2>4. todo' \subseteq mails
    BY <2>1 DEF ScheduledFirst
  <2>5. \A j \in jobs : \A u \in j.uids : <<j.box, u>> \in found'
    <3>1. found = {}
      BY <1>1, <1>6 DEF Apply, Stage
    <3> QED BY <1>1, <3>1 DEF Search
  <2> HIDE DEF mails
  <2> QED BY <2>1, <2>2, <2>3, <2>4, <2>5 DEF Search
<1>7. CASE SliceDone /\ FetchSlice
  <2>1. UNCHANGED <<found, jobs>> /\ todo' \subseteq todo
    BY <1>7 DEF FetchSlice, form
  <2> QED BY <1>1, <1>3, <2>1 DEF Search
<1>8. ASSUME NEW f \in Filters, PerformAction(f) \/ PerformFail(f) PROVE Search'
  BY <1>4, <1>8 DEF PerformAction, PerformFail, form, pass
<1>9. CASE EnqueueRest
  <2> DEFINE rest == found \ ScheduledFirst(MaxAtOnce, found)
  <2>1. /\ UNCHANGED <<found, todo>>
        /\ jobs' = {[box |-> b, uids |-> {x[2] : x \in {y \in rest : y[1] = b}}] :
                      b \in {x[1] : x \in rest}}
    BY <1>9 DEF EnqueueRest, form
  <2>2. rest \subseteq found
    OBVIOUS
  <2> HIDE DEF rest
  <2>3. ASSUME NEW j \in jobs', NEW u \in j.uids PROVE <<j.box, u>> \in found
    <3>1. PICK b \in {x[1] : x \in rest} :
            j = [box |-> b, uids |-> {x[2] : x \in {y \in rest : y[1] = b}}]
      BY <2>1
    <3>2. PICK x \in rest : x[1] = b /\ x[2] = u
      BY <3>1
    <3>3. x = <<b, u>>
      BY <1>1, <2>2, <3>2 DEF Search
    <3> QED BY <2>2, <3>1, <3>3
  <2> QED BY <1>1, <1>3, <2>1, <2>3 DEF Search
<1>10. ASSUME NEW j \in jobs, StartJob(j) PROVE Search'
  <2>1. UNCHANGED found /\ jobs' \subseteq jobs /\ todo' = {j.box} \X j.uids
    BY <1>10 DEF StartJob, form
  <2>2. todo' \subseteq found
    BY <1>1, <2>1 DEF Search
  <2> QED BY <1>1, <1>3, <2>1, <2>2 DEF Search
<1>11. CASE FinishJob
  BY <1>4, <1>11 DEF FinishJob, form, pass
<1> QED BY <1>5, <1>6, <1>7, <1>8, <1>9, <1>10, <1>11 DEF Next

(* The counts of the report are those of the search.                       *)
LEMMA NextCounted ==
  ASSUME Inv, Next
  PROVE  Counted'
<1>1. Counted /\ Stage
  BY DEF Inv
<1>2. ASSUME UNCHANGED <<found, processed, delayed>>, pc # "form" \/ pc' = "form",
             pc' \in {"done", "job"} => pc \in {"done", "job"}
      PROVE  Counted'
  BY <1>1, <1>2 DEF Counted, AtOnceMails
<1>3. ASSUME NEW r \in store, NEW b \in Boxes, MoveElsewhere(r, b) PROVE Counted'
  BY <1>2, <1>3 DEF MoveElsewhere, form, report
<1>4. ASSUME NEW f \in Filters, NEW b \in Boxes, NEW s \in BOOLEAN, Apply(f, b, s) PROVE Counted'
  <2>1. pc' = "slice" /\ processed' = Cardinality(todo') /\ todo' = ScheduledFirst(MaxAtOnce, found')
    BY <1>4 DEF Apply
  <2> QED BY <2>1 DEF Counted, AtOnceMails
<1>5. CASE SliceDone /\ FetchSlice
  BY <1>2, <1>5 DEF FetchSlice, form, report
<1>6. ASSUME NEW f \in Filters, PerformAction(f) PROVE Counted'
  <2>1. pc # "form"
    BY <1>1, <1>6 DEF PerformAction, Acting, Stage
  <2> QED BY <1>2, <1>6, <2>1 DEF PerformAction, form
<1>7. ASSUME NEW f \in Filters, PerformFail(f) PROVE Counted'
  BY <1>2, <1>7 DEF PerformFail, form, report
<1>8. CASE EnqueueRest
  <2>1. /\ pc = "slice" /\ pc' = "done" /\ UNCHANGED <<found, processed>>
        /\ delayed' = Cardinality(found \ ScheduledFirst(MaxAtOnce, found))
    BY <1>8 DEF EnqueueRest, form
  <2> QED BY <1>1, <2>1 DEF Counted, AtOnceMails
<1>9. ASSUME NEW j \in jobs, StartJob(j) PROVE Counted'
  BY <1>2, <1>9 DEF StartJob, form, report
<1>10. CASE FinishJob
  BY <1>2, <1>10 DEF FinishJob, form, report
<1> QED BY <1>3, <1>4, <1>5, <1>6, <1>7, <1>8, <1>9, <1>10 DEF Next

(* No message gets the UID of a mail found after the search.               *)
LEMMA FoundStay ==
  ASSUME Inv, Next, NEW x \in found, NEW r \in store', x = <<r.box, r.uid>>
  PROVE  r \in store
<1>1. Search /\ Server
  BY DEF Inv
<1>2. r \in store \/ uidnext[r.box] <= r.uid
  BY NextServer
<1>3. x[1] \in Boxes /\ x[2] \in Nat /\ x[2] < uidnext[x[1]] /\ x[1] = r.box /\ x[2] = r.uid
  BY <1>1 DEF Search
<1>4. uidnext[x[1]] \in Nat
  BY <1>1, <1>3 DEF Server
<1> QED BY <1>2, <1>3, <1>4

(* A mail the request is to handle is moved, excused or awaited.           *)
LEMMA NextHandled ==
  ASSUME Inv, Next
  PROVE  Handled'
<1>1. Handled /\ Stage /\ Search /\ Server
  BY DEF Inv
<1>2. AtOnceMails \subseteq found
  BY DEF AtOnceMails, ScheduledFirst
<1>3. ASSUME UNCHANGED <<found, chosen>>, pc # "form", missed \subseteq missed',
             \A r \in store : r \in store' /\ Awaited(r) => Awaited(r)' \/ Excused(r)'
      PROVE  Handled'
  <2>1. AtOnceMails' = AtOnceMails
    BY <1>3 DEF AtOnceMails
  <2>2. SUFFICES ASSUME NEW r \in store', <<r.box, r.uid>> \in AtOnceMails
                 PROVE  Excused(r)' \/ Awaited(r)'
    BY <2>1 DEF Handled
  <2>3. r \in store
    BY <1>2, <2>2, FoundStay
  <2>4. Excused(r) \/ Awaited(r)
    BY <1>1, <1>3, <2>2, <2>3 DEF Handled
  <2>5. Excused(r) => Excused(r)'
    BY <1>3 DEF Excused
  <2> QED BY <1>3, <2>2, <2>3, <2>4, <2>5
<1>4. ASSUME UNCHANGED <<pc, todo, chosen, acts, box, matched, found, missed>> PROVE Handled'
  <2>1. CASE pc = "form"
    BY <1>4, <2>1 DEF Handled
  <2>2. CASE pc # "form"
    <3>1. \A r : Awaited(r) => Awaited(r)'
      BY <1>4 DEF Awaited
    <3> QED BY <1>3, <1>4, <2>2, <3>1
  <2> QED BY <2>1, <2>2
<1>5. ASSUME NEW r \in store, NEW b \in Boxes, MoveElsewhere(r, b) PROVE Handled'
  BY <1>4, <1>5 DEF MoveElsewhere, form, pass
<1>6. ASSUME NEW f \in Filters, NEW b \in Boxes, NEW s \in BOOLEAN, Apply(f, b, s) PROVE Handled'
  <2>1. pc' = "slice" /\ todo' = ScheduledFirst(MaxAtOnce, found')
    BY <1>6 DEF Apply
  <2> QED BY <2>1 DEF Handled, Awaited, AtOnceMails
<1>7. CASE SliceDone /\ FetchSlice
  <2>1. PICK slice :
          /\ todo' = todo \ ({box'} \X slice)
          /\ matched' = [f \in Filters |-> matched[f] \cup Hits(box', slice, f, loaded)]
          /\ acts' = {f \in loaded : matched'[f] # {}}
    BY <1>1, <1>7, SliceFacts
  <2>2. acts = {} /\ UNCHANGED <<pc, found, chosen, missed>> /\ pc \in {"slice", "job"}
    BY <1>7 DEF SliceDone, FetchSlice, form
  <2>3. ASSUME NEW r \in store, r \in store', Awaited(r) PROVE Awaited(r)' \/ Excused(r)'
    <3>1. pc = "slice" /\ <<r.box, r.uid>> \in todo
      BY <2>2, <2>3 DEF Awaited
    <3>2. loaded = {chosen} /\ chosen \in Filters /\ chosen \in Nat
      BY <1>1, <3>1, RulesAssumption DEF Stage
    <3>3. CASE <<r.box, r.uid>> \in todo'
      BY <2>2, <3>1, <3>3 DEF Awaited
    <3>4. CASE ~Match(chosen, r.mail)
      BY <2>2, <3>4 DEF Excused
    <3>5. CASE <<r.box, r.uid>> \notin todo' /\ Match(chosen, r.mail)
      <4>1. r.box = box' /\ r.uid \in slice
        BY <2>1, <3>1, <3>5
      <4>2. Takes(chosen, loaded, r.mail)
        BY <3>2, <3>5 DEF Takes
      <4>3. r.uid \in Hits(box', slice, chosen, loaded)
        BY <4>1, <4>2, HitsFacts
      <4>4. r.uid \in matched'[chosen] /\ chosen \in acts'
        BY <2>1, <3>2, <4>3
      <4> QED BY <2>2, <3>1, <4>1, <4>4 DEF Awaited
    <3> QED BY <3>3, <3>4, <3>5
  <2> QED BY <1>3, <2>2, <2>3
<1>8. ASSUME NEW f \in Filters, PerformAction(f) PROVE Handled'
  <2>1. PICK S \in SUBSET store :
          /\ \A r, q \in S : r.uid = q.uid => r = q
          /\ S = IF Target[f] = box THEN {} ELSE Named(store, box, matched[f])
          /\ MoveTo(S, Target[f]) /\ Target[f] \in Boxes
    BY <1>1, <1>8, ActionMoves
  <2>2. /\ UNCHANGED <<pc, found, chosen, missed, todo, box, matched>>
        /\ f \in acts /\ acts' = acts \ {f}
    BY <1>8 DEF PerformAction, Acting, form, pass
  <2>3. pc # "form"
    BY <1>1, <2>2 DEF Stage
  <2>4. ASSUME NEW r \in store, r \in store', Awaited(r) PROVE Awaited(r)' \/ Excused(r)'
    <3>1. CASE <<r.box, r.uid>> \in todo
      BY <2>2, <2>4, <3>1 DEF Awaited
    <3>2. CASE chosen \in acts /\ r.box = box /\ r.uid \in matched[chosen]
      <4>1. f = chosen
        BY <1>1, <2>2, <2>4 DEF Stage, Awaited
      <4>2. CASE Target[chosen] = box
        BY <2>2, <3>2, <4>2 DEF Excused
      <4>3. CASE Target[chosen] # box
        <5>1. r \in S
          BY <2>1, <3>2, <4>1, <4>3 DEF Named
        <5>2. uidnext[r.box] <= r.uid
          BY <1>1, <2>1, <2>4, <5>1, MoveToFacts
        <5>3. r.uid < uidnext[r.box] /\ r.uid \in Nat /\ uidnext[r.box] \in Nat
          BY <1>1 DEF Server, Message
        <5> QED BY <5>2, <5>3
      <4> QED BY <4>2, <4>3
    <3> QED BY <2>4, <3>1, <3>2 DEF Awaited
  <2> QED BY <1>3, <2>2, <2>3, <2>4
<1>9. ASSUME NEW f \in Filters, PerformFail(f) PROVE Handled'
  <2>1. /\ UNCHANGED <<pc, found, chosen, todo, box, matched>>
        /\ f \in acts /\ acts' = acts \ {f}
        /\ missed' = missed \cup ({box} \X matched[f])
    BY <1>9 DEF PerformFail, Acting, form, pass
  <2>2. pc # "form"
    BY <1>1, <2>1 DEF Stage
  <2>3. ASSUME NEW r \in store, Awaited(r) PROVE Awaited(r)' \/ Excused(r)'
    <3>1. CASE <<r.box, r.uid>> \in todo
      BY <2>1, <2>3, <3>1 DEF Awaited
    <3>2. CASE chosen \in acts /\ r.box = box /\ r.uid \in matched[chosen]
      <4>1. f = chosen
        BY <1>1, <2>1, <2>3 DEF Stage, Awaited
      <4>2. <<r.box, r.uid>> \in missed'
        BY <2>1, <3>2, <4>1
      <4> QED BY <4>2 DEF Excused
    <3> QED BY <2>3, <3>1, <3>2 DEF Awaited
  <2> QED BY <1>3, <2>1, <2>2, <2>3
<1>10. CASE EnqueueRest
  <2>1. pc = "slice" /\ todo = {} /\ acts = {} /\ UNCHANGED <<found, chosen, missed>>
    BY <1>10 DEF EnqueueRest, SliceDone, form
  <2>2. \A r : ~Awaited(r)
    BY <2>1 DEF Awaited
  <2> QED BY <1>3, <2>1, <2>2
<1>11. ASSUME pc \in {"done", "job"}, UNCHANGED <<found, chosen, missed>> PROVE Handled'
  <2>1. \A r : ~Awaited(r)
    BY <1>11 DEF Awaited
  <2> QED BY <1>3, <1>11, <2>1
<1>12. ASSUME NEW j \in jobs, StartJob(j) PROVE Handled'
  BY <1>11, <1>12 DEF StartJob, form
<1>13. CASE FinishJob
  BY <1>11, <1>13 DEF FinishJob, form
<1> QED BY <1>5, <1>6, <1>7, <1>8, <1>9, <1>10, <1>12, <1>13 DEF Next

(* In one mailbox the collected UIDs name mails the filter matches.        *)
LEMMA NextInOneBox ==
  ASSUME Inv, Next
  PROVE  InOneBox'
<1>1. InOneBox /\ Stage /\ Search /\ Server
  BY DEF Inv
<1>2. ASSUME UNCHANGED <<found, box>>, Collected, \A f \in Filters : matched'[f] \subseteq matched[f]
      PROVE  Collected'
  <2>1. ASSUME NEW f \in Filters, NEW u \in matched'[f] PROVE <<box', u>> \in found'
    BY <1>2, <2>1 DEF Collected
  <2>2. ASSUME NEW f \in Filters, NEW r \in store', r.box = box', r.uid \in matched'[f]
        PROVE  Match(f, r.mail)
    <3>1. <<r.box, r.uid>> \in found
      BY <1>2, <2>1, <2>2
    <3>2. r \in store
      BY <2>2, <3>1, FoundStay
    <3> QED BY <1>2, <2>2, <3>2 DEF Collected
  <2> QED BY <2>1, <2>2 DEF Collected
<1>3. ASSUME UNCHANGED <<found, box, filed>>, \A f \in Filters : matched'[f] \subseteq matched[f]
      PROVE  InOneBox'
  BY <1>1, <1>2, <1>3 DEF InOneBox, OneBox, MovesOnlyMatching
<1>4. ASSUME matched' = Nothing, UNCHANGED <<found, filed>> PROVE InOneBox'
  BY <1>1, <1>4 DEF InOneBox, OneBox, Collected, MovesOnlyMatching, Nothing
<1>5. ASSUME NEW r \in store, NEW b \in Boxes, MoveElsewhere(r, b) PROVE InOneBox'
  BY <1>3, <1>5 DEF MoveElsewhere, form, pass
<1>6. ASSUME NEW f \in Filters, NEW b \in Boxes, NEW s \in BOOLEAN, Apply(f, b, s) PROVE InOneBox'
  <2>1. pc = "form" /\ UNCHANGED <<matched, filed>>
    BY <1>6 DEF Apply
  <2>2. found = {} /\ matched = Nothing
    BY <1>1, <2>1 DEF Stage
  <2>3. MovesOnlyMatching'
    BY <1>1, <2>1, <2>2 DEF InOneBox, OneBox, MovesOnlyMatching
  <2>4. Collected'
    BY <2>1, <2>2 DEF Collected, Nothing
  <2> QED BY <2>3, <2>4 DEF InOneBox
<1>7. CASE SliceDone /\ FetchSlice
  <2>1. PICK slice :
          /\ {box'} \X slice \subseteq todo
          /\ matched' = [f \in Filters |-> matched[f] \cup Hits(box', slice, f, loaded)]
    BY <1>1, <1>7, SliceFacts
  <2>2. UNCHANGED <<store, found, filed>>
    BY <1>7 DEF FetchSlice, form, imap
  <2>3. SUFFICES ASSUME OneBox PROVE Collected'
    BY <1>1, <2>2, <2>3 DEF InOneBox, OneBox, MovesOnlyMatching
  <2>4. Collected
    BY <1>1, <2>3 DEF InOneBox
  <2>5. \A u \in slice : <<box', u>> \in found
    BY <1>1, <2>1 DEF Search
  <2>6. ASSUME NEW f \in Filters, NEW u \in Hits(box', slice, f, loaded)
        PROVE  /\ <<box', u>> \in found
               /\ \A r \in store : r.box = box' /\ r.uid = u => Match(f, r.mail)
    <3>1. u \in slice
      BY HitsFacts
    <3>2. PICK q \in store : q.box = box' /\ q.uid = u /\ Match(f, q.mail)
      BY HitsFacts
    <3>3. \A r \in store : r.box = box' /\ r.uid = u => r = q
      BY <1>1, <3>2 DEF Server
    <3> QED BY <2>5, <3>1, <3>2, <3>3
  <2>7. ASSUME NEW f \in Filters, NEW u \in matched[f]
        PROVE  /\ <<box', u>> \in found
               /\ \A r \in store : r.box = box' /\ r.uid = u => Match(f, r.mail)
    <3>1. <<box, u>> \in found
      BY <2>4 DEF Collected
    <3>2. box' = box
      <4>1. \A x \in found : x[1] = box'
        BY <1>1, <1>7, <2>3, SliceInOneBox
      <4> QED BY <3>1, <4>1
    <3> QED BY <2>4, <3>1, <3>2 DEF Collected
  <2> QED BY <2>1, <2>2, <2>6, <2>7 DEF Collected
<1>8. ASSUME NEW f \in Filters, PerformAction(f) PROVE InOneBox'
  <2>1. PICK S \in SUBSET store :
          /\ S = IF Target[f] = box THEN {} ELSE Named(store, box, matched[f])
          /\ filed' = filed \cup {[mail |-> r.mail, filter |-> f] : r \in S}
    BY <1>1, <1>8, ActionMoves
  <2>2. UNCHANGED <<found, box, matched>>
    BY <1>8 DEF PerformAction, form, pass
  <2>3. SUFFICES ASSUME OneBox PROVE Collected' /\ MovesOnlyMatching'
    BY <2>2 DEF InOneBox, OneBox
  <2>4. Collected /\ MovesOnlyMatching
    BY <1>1, <2>3 DEF InOneBox
  <2>5. Collected'
    BY <1>2, <2>2, <2>4
  <2>6. \A r \in S : Match(f, r.mail)
    BY <2>1, <2>4 DEF Collected, Named
  <2>7. MovesOnlyMatching'
    BY <2>1, <2>4, <2>6 DEF MovesOnlyMatching
  <2> QED BY <2>5, <2>7
<1>9. ASSUME NEW f \in Filters, PerformFail(f) PROVE InOneBox'
  BY <1>3, <1>9 DEF PerformFail, form, pass
<1>10. CASE EnqueueRest
  BY <1>4, <1>10 DEF EnqueueRest, form
<1>11. ASSUME NEW j \in jobs, StartJob(j) PROVE InOneBox'
  BY <1>4, <1>11 DEF StartJob, form
<1>12. CASE FinishJob
  BY <1>3, <1>12 DEF FinishJob, form, pass
<1> QED BY <1>5, <1>6, <1>7, <1>8, <1>9, <1>10, <1>11, <1>12 DEF Next

(* The invariant holds in every state.                                     *)
LEMMA InvHolds == Spec => []Inv
<1>1. Init => Inv
  BY InitInv
<1>2. Inv /\ [Next]_vars => Inv'
  <2> SUFFICES ASSUME Inv, [Next]_vars PROVE Inv'
    OBVIOUS
  <2>1. CASE Next
    BY <2>1, NextServer, NextStage, NextSearch, NextCounted, NextHandled, NextInOneBox DEF Inv
  <2>2. CASE UNCHANGED vars
    BY <2>2 DEF vars, imap, form, pass, report, Inv, Server, Stage, Search, Handled, Counted, InOneBox,
                OneBox, Collected, MovesOnlyMatching, AtOnceMails, Excused, Awaited
  <2> QED BY <2>1, <2>2
<1> QED BY <1>1, <1>2, PTL DEF Spec
---------------------------------------------------------------------------
(* What the user is promised                                               *)

(* As long as the mails found are in one mailbox, an action moves only     *)
(* mails its filter matches, over any number of slices and jobs and with   *)
(* another client moving mails: collecting the UIDs of all slices          *)
(* (matched_uids, filter.rb:57) harms only across mailboxes.               *)
THEOREM MovesWhatMatches == Spec => []OneFolderMovesOnlyMatching
<1>1. Inv => OneFolderMovesOnlyMatching
  <2> SUFFICES ASSUME Inv, Cardinality({x[1] : x \in found}) <= 1
               PROVE  MovesOnlyMatching
    BY DEF OneFolderMovesOnlyMatching
  <2> DEFINE g == [x \in found |-> x[1]]
             B == {x[1] : x \in found}
  <2>1. IsFiniteSet(B)
    <3>1. IsFiniteSet(found)
      BY DEF Inv, Search
    <3>2. g = [x \in found |-> g[x]] /\ B = {g[x] : x \in found}
      OBVIOUS
    <3> HIDE DEF g, B
    <3> QED BY <3>1, <3>2, FiniteImage
  <2>2. \A x \in found : x[1] \in B
    OBVIOUS
  <2>3. Cardinality(B) <= 1
    OBVIOUS
  <2> HIDE DEF B
  <2>4. Cardinality(B) \in Nat
    BY <2>1, FS_CardinalityType
  <2>5. Cardinality(B) = 0 \/ Cardinality(B) = 1
    BY <2>3, <2>4
  <2>6. B = {} \/ \E b : B = {b}
    BY <2>1, <2>5, FS_EmptySet, FS_Singleton
  <2>7. OneBox
    BY <2>2, <2>6 DEF OneBox
  <2> QED BY <2>7 DEF Inv, InOneBox
<1> QED BY <1>1, InvHolds, PTL

(* When the request is over, no mail it was to handle itself is left where *)
(* it was found, but for the reasons the property names.                   *)
THEOREM NothingForgotten == Spec => []ApplyComplete
<1>1. Inv => ApplyComplete
  BY DEF Inv, Handled, ApplyComplete, Excused, Awaited, AtOnceMails
<1> QED BY <1>1, InvHolds, PTL

(* The counts the user is shown add up, whatever the limit.                *)
THEOREM CountsAddUp == Spec => []ReportAddsUp
<1>1. Inv => ReportAddsUp
  <2> SUFFICES ASSUME Inv, pc = "done"
               PROVE  /\ processed + delayed = Cardinality(found)
                      /\ processed <= MaxAtOnce
                      /\ delayed > 0 => processed = MaxAtOnce
    BY DEF ReportAddsUp
  <2> DEFINE a == Cardinality(AtOnceMails)
             d == Cardinality(found \ AtOnceMails)
  <2>1. IsFiniteSet(found) /\ found \subseteq Boxes \X Nat /\ MaxAtOnce \in Nat
    BY RulesAssumption DEF Inv, Search
  <2>2. /\ AtOnceMails \subseteq found /\ a <= MaxAtOnce
        /\ AtOnceMails # found => a = MaxAtOnce
    BY <2>1, ScheduledFacts DEF AtOnceMails
  <2>3. processed = a /\ delayed = d
    BY DEF Inv, Counted
  <2>4. IsFiniteSet(AtOnceMails) /\ a \in Nat /\ Cardinality(found) \in Nat
    BY <2>1, <2>2, FS_Subset, FS_CardinalityType
  <2>5. d = Cardinality(found) - a
    <3>1. found \cap AtOnceMails = AtOnceMails
      BY <2>2
    <3> QED BY <2>1, <3>1, FS_Difference
  <2>6. AtOnceMails = found => d = 0
    BY <2>4, <2>5
  <2> HIDE DEF a, d
  <2> QED BY <2>1, <2>2, <2>3, <2>4, <2>5, <2>6
<1> QED BY <1>1, InvHolds, PTL
===========================================================================
