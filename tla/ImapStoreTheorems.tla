------------------------ MODULE ImapStoreTheorems ------------------------
(***************************************************************************)
(* What the operators of ImapStore return, for any finite set of messages. *)
(***************************************************************************)
EXTENDS ImapStore, FiniteSetTheorems, TLAPS

(* The new UIDs of moved or copied messages lie in the range by which      *)
(* UIDNEXT of the destination is advanced.                                 *)
LEMMA NewUidRange ==
  ASSUME NEW S, IsFiniteSet(S), NEW next \in Nat, NEW r \in S, S \subseteq Message
  PROVE  /\ NewUid(r, S, next) \in Nat
         /\ next <= NewUid(r, S, next)
         /\ NewUid(r, S, next) < next + Cardinality(S)
<1> DEFINE L == {q \in S : q.uid < r.uid}
<1>1. L \in SUBSET S
  OBVIOUS
<1>2. /\ IsFiniteSet(L)
      /\ Cardinality(L) <= Cardinality(S)
      /\ Cardinality(S) = Cardinality(L) => S = L
  BY <1>1, FS_Subset
<1>3. Cardinality(L) \in Nat /\ Cardinality(S) \in Nat
  BY <1>2, FS_CardinalityType
<1>4. L # S
  <2>1. r.uid \in Nat
    BY DEF Message
  <2>2. ~(r.uid < r.uid)
    BY <2>1
  <2> QED BY <2>2
<1>5. NewUid(r, S, next) = next + Cardinality(L)
  BY DEF NewUid
<1> HIDE DEF L
<1> QED BY <1>2, <1>3, <1>4, <1>5

(* The image of a finite set of messages under a function is finite.       *)
LEMMA FiniteImage ==
  ASSUME NEW S, IsFiniteSet(S), NEW f, f = [r \in S |-> f[r]]
  PROVE  IsFiniteSet({f[r] : r \in S})
<1> DEFINE T == {f[r] : r \in S}
<1>1. f \in Surjection(S, T)
  BY DEF Surjection
<1> QED BY <1>1, FS_Surjection

(* What COPY and MOVE put into a mailbox: as many messages of that         *)
(* mailbox, with new UIDs and the flags of the originals.                  *)
LEMMA ArrivalsFacts ==
  ASSUME NEW S, IsFiniteSet(S), S \subseteq Message,
         NEW dest \in Boxes, NEW next \in Nat \ {0}
  PROVE  /\ Arrivals(S, dest, next) \subseteq Message
         /\ IsFiniteSet(Arrivals(S, dest, next))
         /\ \A a \in Arrivals(S, dest, next) :
              a.box = dest /\ next <= a.uid /\ a.uid < next + Cardinality(S)
         /\ \A r \in S : \E a \in Arrivals(S, dest, next) :
              a.mail = r.mail /\ a.deleted = r.deleted
<1> DEFINE g == [r \in S |-> [r EXCEPT !.box = dest, !.uid = NewUid(r, S, next)]]
<1>1. Arrivals(S, dest, next) = {g[r] : r \in S}
  BY DEF Arrivals
<1>2. \A r \in S : /\ NewUid(r, S, next) \in Nat
                   /\ next <= NewUid(r, S, next)
                   /\ NewUid(r, S, next) < next + Cardinality(S)
  BY NewUidRange
<1>3. ASSUME NEW r \in S
      PROVE  /\ g[r] \in Message
             /\ g[r].box = dest /\ g[r].uid = NewUid(r, S, next)
             /\ g[r].mail = r.mail /\ g[r].deleted = r.deleted
  <2>1. r \in Message
    OBVIOUS
  <2>2. NewUid(r, S, next) \in Nat \ {0}
    BY <1>2
  <2>3. g[r] = [r EXCEPT !.box = dest, !.uid = NewUid(r, S, next)]
    OBVIOUS
  <2> HIDE DEF g
  <2> QED BY <2>1, <2>2, <2>3 DEF Message
<1>4. IsFiniteSet({g[r] : r \in S})
  <2>1. g = [r \in S |-> g[r]]
    OBVIOUS
  <2> HIDE DEF g
  <2> QED BY <2>1, FiniteImage
<1> HIDE DEF g
<1> QED BY <1>1, <1>2, <1>3, <1>4

(* Messages of one mailbox keep different UIDs.                            *)
LEMMA ArrivalsApart ==
  ASSUME NEW S, IsFiniteSet(S), S \subseteq Message, \A r, q \in S : r.uid = q.uid => r = q,
         NEW dest \in Boxes, NEW next \in Nat \ {0}
  PROVE  \A a, c \in Arrivals(S, dest, next) : a.uid = c.uid => a = c
<1> DEFINE L(r) == {q \in S : q.uid < r.uid}
<1>1. ASSUME NEW r \in S, NEW q \in S, r.uid < q.uid
      PROVE  NewUid(r, S, next) < NewUid(q, S, next)
  <2>1. r.uid \in Nat /\ q.uid \in Nat /\ \A t \in S : t.uid \in Nat
    BY DEF Message
  <2>2. L(r) \subseteq L(q) /\ r \in L(q) /\ r \notin L(r)
    BY <1>1, <2>1
  <2>3. IsFiniteSet(L(q)) /\ IsFiniteSet(L(r))
    BY FS_Subset
  <2>4. Cardinality(L(r)) < Cardinality(L(q))
    <3>1. L(r) # L(q)
      BY <2>2
    <3> HIDE DEF L
    <3>2. Cardinality(L(r)) \in Nat /\ Cardinality(L(q)) \in Nat
      BY <2>3, FS_CardinalityType
    <3> QED BY <2>2, <2>3, <3>1, <3>2, FS_Subset
  <2>5. Cardinality(L(r)) \in Nat /\ Cardinality(L(q)) \in Nat
    BY <2>3, FS_CardinalityType
  <2>6. NewUid(r, S, next) = next + Cardinality(L(r)) /\ NewUid(q, S, next) = next + Cardinality(L(q))
    BY DEF NewUid
  <2> HIDE DEF L
  <2> QED BY <2>4, <2>5, <2>6
<1>2. ASSUME NEW a \in Arrivals(S, dest, next), NEW c \in Arrivals(S, dest, next), a.uid = c.uid
      PROVE  a = c
  <2>1. PICK r \in S : a = [r EXCEPT !.box = dest, !.uid = NewUid(r, S, next)]
    BY DEF Arrivals
  <2>2. PICK q \in S : c = [q EXCEPT !.box = dest, !.uid = NewUid(q, S, next)]
    BY DEF Arrivals
  <2>3. /\ a.uid = NewUid(r, S, next) /\ c.uid = NewUid(q, S, next)
        /\ r.uid \in Nat /\ q.uid \in Nat /\ a.uid \in Nat
    BY <2>1, <2>2, NewUidRange DEF Message
  <2>4. ~(r.uid < q.uid) /\ ~(q.uid < r.uid)
    <3>1. r.uid < q.uid => a.uid < c.uid
      BY <1>1, <2>3
    <3>2. q.uid < r.uid => c.uid < a.uid
      BY <1>1, <2>3
    <3> QED BY <1>2, <2>3, <3>1, <3>2
  <2>5. r = q
    <3>1. r.uid = q.uid
      BY <2>3, <2>4
    <3> QED BY <3>1
  <2> QED BY <2>1, <2>2, <2>5
<1> QED BY <1>2

(* STORE +FLAGS (\Deleted) sets a flag and changes nothing else.           *)
LEMMA MarkDeletedFacts ==
  ASSUME NEW store, IsFiniteSet(store), store \subseteq Message,
         NEW b \in Boxes, NEW uids
  PROVE  /\ MarkDeleted(store, b, uids) \subseteq Message
         /\ IsFiniteSet(MarkDeleted(store, b, uids))
         /\ \A a \in MarkDeleted(store, b, uids) : \E r \in store :
              a.box = r.box /\ a.uid = r.uid /\ a.mail = r.mail
         /\ \A r \in store : ~(r.box = b /\ r.uid \in uids)
              => r \in MarkDeleted(store, b, uids)
<1> DEFINE N == Named(store, b, uids)
           g == [r \in N |-> [r EXCEPT !.deleted = TRUE]]
<1>1. N \in SUBSET store /\ store \ N \in SUBSET store
  BY DEF Named
<1>2. IsFiniteSet(N) /\ IsFiniteSet(store \ N)
  BY <1>1, FS_Subset
<1>3. IsFiniteSet({g[r] : r \in N})
  <2>1. g = [r \in N |-> g[r]]
    OBVIOUS
  <2> HIDE DEF g, N
  <2> QED BY <1>2, <2>1, FiniteImage
<1>4. MarkDeleted(store, b, uids) = (store \ N) \cup {g[r] : r \in N}
  BY DEF MarkDeleted
<1>5. ASSUME NEW r \in N
      PROVE  g[r] \in Message /\ g[r].box = r.box /\ g[r].uid = r.uid /\ g[r].mail = r.mail
  <2>1. r \in Message
    BY <1>1
  <2>2. g[r] = [r EXCEPT !.deleted = TRUE]
    OBVIOUS
  <2> HIDE DEF g, N
  <2> QED BY <2>1, <2>2 DEF Message
<1>6. IsFiniteSet(MarkDeleted(store, b, uids))
  <2> DEFINE Marked == {g[r] : r \in N}
             Others == store \ N
  <2>1. IsFiniteSet(Marked) /\ IsFiniteSet(Others)
    BY <1>2, <1>3
  <2>2. MarkDeleted(store, b, uids) = Others \cup Marked
    BY <1>4
  <2> HIDE DEF Marked, Others
  <2> QED BY <2>1, <2>2, FS_Union
<1>7. \A r \in store : ~(r.box = b /\ r.uid \in uids) => r \notin N
  BY DEF Named
<1> HIDE DEF g, N
<1> QED BY <1>1, <1>4, <1>5, <1>6, <1>7

(* STORE +FLAGS (\Deleted) sets the flag of all the messages it names,     *)
(* takes it from none, and leaves a UID naming one message.                *)
LEMMA MarkDeletedApart ==
  ASSUME NEW store, store \subseteq Message,
         \A r, q \in store : r.box = q.box /\ r.uid = q.uid => r = q,
         NEW b \in Boxes, NEW uids
  PROVE  /\ \A a \in MarkDeleted(store, b, uids) : \E r \in store :
              /\ a.box = r.box /\ a.uid = r.uid /\ a.mail = r.mail
              /\ r.deleted => a.deleted
         /\ \A a \in MarkDeleted(store, b, uids) : a.box = b /\ a.uid \in uids => a.deleted
         /\ \A a, c \in MarkDeleted(store, b, uids) : a.box = c.box /\ a.uid = c.uid => a = c
<1> DEFINE M == MarkDeleted(store, b, uids)
           mark(r) == [r EXCEPT !.deleted = TRUE]
           Hit(r) == r.box = b /\ r.uid \in uids
<1>1. ASSUME NEW a \in M
      PROVE  \E r \in store : (Hit(r) /\ a = mark(r)) \/ (~Hit(r) /\ a = r)
  BY DEF MarkDeleted, Named
<1>2. ASSUME NEW r \in store
      PROVE  /\ mark(r).box = r.box /\ mark(r).uid = r.uid /\ mark(r).mail = r.mail
             /\ mark(r).deleted
  BY DEF Message
<1> HIDE DEF M, mark
<1>3. \A a \in M : \E r \in store :
        a.box = r.box /\ a.uid = r.uid /\ a.mail = r.mail /\ (r.deleted => a.deleted)
  BY <1>1, <1>2
<1>4. \A a \in M : Hit(a) => a.deleted
  BY <1>1, <1>2
<1>5. ASSUME NEW a \in M, NEW c \in M, a.box = c.box, a.uid = c.uid PROVE a = c
  <2>1. PICK r \in store : (Hit(r) /\ a = mark(r)) \/ (~Hit(r) /\ a = r)
    BY <1>1
  <2>2. PICK q \in store : (Hit(q) /\ c = mark(q)) \/ (~Hit(q) /\ c = q)
    BY <1>1
  <2>3. r = q
    BY <1>2, <1>5, <2>1, <2>2
  <2> QED BY <2>1, <2>2, <2>3
<1> QED BY <1>3, <1>4, <1>5 DEF M

(* EXPUNGE takes messages away, and only such as carry \Deleted.           *)
LEMMA ExpungeFacts ==
  ASSUME NEW store, IsFiniteSet(store), NEW b
  PROVE  /\ Expunge(store, b) \subseteq store
         /\ IsFiniteSet(Expunge(store, b))
         /\ \A r \in store : r.deleted = FALSE => r \in Expunge(store, b)
<1>1. Expunge(store, b) \in SUBSET store
  BY DEF Expunge
<1> QED BY <1>1, FS_Subset DEF Expunge
===========================================================================
