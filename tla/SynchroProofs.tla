-------------------------- MODULE SynchroProofs --------------------------
(***************************************************************************)
(* Theorems about Synchro, for any trees and tables: what any number of    *)
(* overlapping, refused and killed synchronisations do to the users of the *)
(* program's own, that one that has the tables for itself destroys what is *)
(* backed up only, that one that nothing disturbs destroys nothing of its  *)
(* tree, and that one that succeeds leaves the tables as its tree.         *)
(***************************************************************************)
EXTENDS Synchro, FunctionTheorems, FiniteSetTheorems, SequenceTheorems, TLAPS

Local == Own(FirstUsers, FALSE)

(* The fields of a user that the proof is about are there.                 *)
Fields == {"state", "ldap", "in", "left"}
UserRows == \A u \in DOMAIN users : Fields \subseteq DOMAIN users[u]
(* What the steps rely on of the processes: job[p] is a record with a list *)
(* of rows to be destroyed.                                                *)
Jobs == /\ DOMAIN pc = Processes /\ DOMAIN job = Processes
        /\ \A p \in Processes : "doomed" \in DOMAIN job[p]
(* Only users of the directory are on that list while users are destroyed; *)
(* it was read before the first of them is.                                *)
DoomedForeign == \A p \in Processes : pc[p] = "users" => job[p].doomed \cap Local = {}

Inv == LocalUsersKept /\ UserRows /\ Jobs /\ DoomedForeign

(* A step of p that touches no other process.                              *)
Alone(p) == /\ DOMAIN pc' = Processes /\ DOMAIN job' = Processes
            /\ \A q \in Processes \ {p} : pc'[q] = pc[q] /\ job'[q] = job[q]
            /\ "doomed" \in DOMAIN job'[p]

(* A step of one process whose list, if it sweeps users, has none of the   *)
(* program's own.                                                          *)
LEMMA AloneStep ==
  ASSUME Inv, NEW p \in Processes, Alone(p),
         pc'[p] = "users" => job'[p].doomed \cap Local = {}
  PROVE  Jobs' /\ DoomedForeign'
  BY DEF Inv, Jobs, DoomedForeign, Alone, Local, Own

(* Most steps change the job of p, or give it a new one, and take p to a   *)
(* place other than "users".                                               *)
LEMMA JobStep ==
  ASSUME Inv, NEW p \in Processes, NEW label, label # "users", NEW j, "doomed" \in DOMAIN j,
         pc' = [pc EXCEPT ![p] = label], job' = [job EXCEPT ![p] = j]
  PROVE  Jobs' /\ DoomedForeign'
<1>1. Alone(p) /\ pc'[p] = label
  BY DEF Alone, Inv, Jobs
<1> QED BY <1>1, AloneStep

(* A process without a job has the fields of one.                          *)
LEMMA NoJobDoomed == DOMAIN NoJob = {"ver", "tree", "order", "then", "todo", "doomed", "got", "bad"}
  BY DEF NoJob

(* A step that leaves the users alone.                                     *)
LEMMA UsersAlone ==
  ASSUME Inv, UNCHANGED <<users, sweeps>>
  PROVE  LocalUsersKept' /\ UserRows'
  BY DEF Inv, LocalUsersKept, UserRows, Own, sweeps

(* The initial states satisfy the invariant.                               *)
LEMMA InvInit == Init => Inv
<1> SUFFICES ASSUME Init PROVE Inv
  OBVIOUS
<1>1. UserRows
  BY SynchroAssumption DEF Init, UserRows, Fields
<1>2. LocalUsersKept
  BY SynchroAssumption DEF Init, LocalUsersKept, Own
<1>3. Jobs /\ DoomedForeign
  BY NoJobDoomed DEF Init, Jobs, DoomedForeign
<1> QED BY <1>1, <1>2, <1>3 DEF Inv

(* Every step keeps the invariant.                                         *)
LEMMA InvNext == Inv /\ [Next]_vars => Inv'
<1> SUFFICES ASSUME Inv, [Next]_vars PROVE Inv'
  OBVIOUS
<1> USE DEF tables, sweeps, history, count
<1>1. ASSUME NEW p \in Processes, Run(p) \/ Create(p) \/ Check(p) PROVE Inv'
  <2>1. PICK then, tree, order : BeginCopy(p, then, tree, order)
    BY <1>1 DEF Run, Create, Check
  <2> DEFINE j == [NoJob EXCEPT !.ver = Len(copies) + 1, !.tree = tree, !.order = order,
                                !.then = then, !.todo = Below(Trees[tree], "group", Root)]
  <2>2. /\ pc' = [pc EXCEPT ![p] = "copy"] /\ UNCHANGED <<users, sweeps>>
        /\ job' = [job EXCEPT ![p] = j]
    BY <2>1 DEF BeginCopy, Goto
  <2>3. "doomed" \in DOMAIN j
    BY NoJobDoomed
  <2> QED BY <2>2, <2>3, JobStep, UsersAlone DEF Inv
<1>2. ASSUME NEW p \in Processes, NEW v \in 1..Len(copies), Synchronize(p, v) PROVE Inv'
  <2> DEFINE j == [NoJob EXCEPT !.ver = v, !.tree = origin[v]]
  <2>1. pc' = [pc EXCEPT ![p] = "sync"] /\ job' = [job EXCEPT ![p] = j] /\ UNCHANGED <<users, sweeps>>
    BY <1>2 DEF Synchronize, Goto
  <2>2. "doomed" \in DOMAIN j
    BY NoJobDoomed
  <2> QED BY <2>1, <2>2, JobStep, UsersAlone DEF Inv
<1>3. ASSUME NEW p \in Processes, NEW t \in GwTrees, Screen(p, t) PROVE Inv'
  <2> DEFINE j == [NoJob EXCEPT !.tree = t]
  <2>1. pc' = [pc EXCEPT ![p] = "sync"] /\ job' = [job EXCEPT ![p] = j] /\ UNCHANGED <<users, sweeps>>
    BY <1>3 DEF Screen, Goto
  <2>2. "doomed" \in DOMAIN j
    BY NoJobDoomed
  <2> QED BY <2>1, <2>2, JobStep, UsersAlone DEF Inv
<1>4. ASSUME NEW p \in Processes, NEW v \in 1..Len(copies), Destroy(p, v) PROVE Inv'
  BY <1>4, UsersAlone DEF Destroy, Inv, Jobs, DoomedForeign
(* A step of p that leaves the users alone and does not lead to their      *)
(* destruction.                                                            *)
<1>5. ASSUME NEW p \in Processes, Alone(p), pc'[p] # "users", UNCHANGED <<users, sweeps>>
      PROVE  Inv'
  BY <1>5, AloneStep, UsersAlone DEF Inv
<1>6. ASSUME NEW p \in Processes, CopyRow(p) PROVE Inv'
  <2>1. pc[p] = "copy" /\ UNCHANGED <<pc, users, sweeps>>
    BY <1>6 DEF CopyRow
  <2>2. Alone(p)
    BY <1>6, <2>1 DEF CopyRow, Inv, Jobs, Alone
  <2> QED BY <1>5, <2>1, <2>2
<1>7. ASSUME NEW p \in Processes, CopyRefused(p) \/ SaveRefused(p) PROVE Inv'
  <2>1. pc[p] \in {"copy", "walk"} /\ UNCHANGED <<pc, users, sweeps>>
    BY <1>7 DEF CopyRefused, SaveRefused
  <2>2. Alone(p)
    BY <1>7, <2>1 DEF CopyRefused, SaveRefused, Inv, Jobs, Alone
  <2> QED BY <1>5, <2>1, <2>2
<1>8. ASSUME NEW p \in Processes, Finish(p), UNCHANGED <<users, sweeps>> PROVE Inv'
  BY <1>8, NoJobDoomed, JobStep, UsersAlone DEF Inv, Finish, Goto
<1>9. ASSUME NEW p \in Processes, EndCopy(p) PROVE Inv'
  <2>1. UNCHANGED <<users, sweeps>>
    BY <1>9 DEF EndCopy
  <2>2. CASE ~Finish(p)
    <3>1. pc' = [pc EXCEPT ![p] = "sync"] /\ job' = [job EXCEPT ![p].bad = FALSE]
      BY <1>9, <2>2 DEF EndCopy, Goto
    <3>2. Alone(p) /\ pc'[p] = "sync"
      BY <3>1 DEF Inv, Jobs, Alone
    <3> QED BY <1>5, <2>1, <3>2
  <2> QED BY <1>8, <2>1, <2>2
<1>10. ASSUME NEW p \in Processes, EndCopyOrdered(p) \/ Backup(p) \/ BackupFails(p) \/ EndSync(p) \/ Kill(p)
       PROVE  Inv'
  <2>1. UNCHANGED <<users, sweeps>>
    BY <1>10 DEF EndCopyOrdered, Backup, BackupFails, EndSync, Kill
  <2>2. CASE ~Finish(p)
    <3>1. UNCHANGED job /\ \E label \in {"backup", "sync"} : pc' = [pc EXCEPT ![p] = label]
      BY <1>10, <2>2 DEF EndCopyOrdered, Backup, BackupFails, EndSync, Kill, Goto
    <3>2. Alone(p) /\ pc'[p] # "users"
      BY <3>1 DEF Inv, Jobs, Alone
    <3> QED BY <1>5, <2>1, <3>2
  <2> QED BY <1>8, <2>1, <2>2
<1>11. ASSUME NEW p \in Processes, Reset(p) PROVE Inv'
  <2>1. Alone(p) /\ pc'[p] = "walk"
    BY <1>11 DEF Reset, Goto, Inv, Jobs, Alone
  <2>2. pc' = [pc EXCEPT ![p] = "walk"] /\ users' = [u \in DOMAIN users |-> [users[u] EXCEPT !.current = FALSE]]
    BY <1>11 DEF Reset, Goto
  <2>3. /\ DOMAIN users' = DOMAIN users
        /\ \A u \in DOMAIN users :
             /\ DOMAIN users'[u] = DOMAIN users[u]
             /\ \A f \in Fields : users'[u][f] = users[u][f]
    BY <2>2 DEF Inv, UserRows, Fields
  <2>4. UserRows' /\ LocalUsersKept'
    <3>1. UNCHANGED sweeps
      BY <1>11 DEF Reset
    <3> QED BY <2>3, <3>1 DEF Inv, UserRows, Fields, LocalUsersKept, Own
  <2> QED BY <2>1, <2>4, AloneStep DEF Inv
<1>12. ASSUME NEW p \in Processes, SaveGroup(p) \/ NextGroups(p) PROVE Inv'
  <2>1. pc[p] = "walk" /\ UNCHANGED <<pc, users, sweeps>>
    BY <1>12 DEF SaveGroup, NextGroups
  <2>2. Alone(p)
    BY <1>12, <2>1 DEF SaveGroup, NextGroups, Inv, Jobs, Alone
  <2> QED BY <1>5, <2>1, <2>2
(* Users the synchronisation does not own are left as they are.            *)
<1>13. ASSUME NEW p \in Processes, SaveUser(p) PROVE Inv'
  <2> DEFINE r == Head(job[p].todo)
             old == IF r.code \in DOMAIN users THEN users[r.code]
                    ELSE [state |-> "enabled", ldap |-> TRUE, current |-> FALSE, in |-> {}, left |-> {}]
             row == [old EXCEPT !.current = TRUE, !.in = {r.above} \cap DOMAIN groups,
                                !.left = {r.above} \ DOMAIN groups]
  <2>1. pc[p] = "walk" /\ UNCHANGED pc
    BY <1>13 DEF SaveUser
  <2>2. job' = [job EXCEPT ![p].todo = Tail(@)]
    BY <1>13 DEF SaveUser
  <2>3. Alone(p)
    BY <2>1, <2>2 DEF Inv, Jobs, Alone
  <2>4. DoomedForeign' /\ Jobs'
    BY <2>1, <2>3, AloneStep
  <2>5. users' = (IF ~old.ldap THEN users ELSE Save(users, r.code, row)) /\ UNCHANGED sweeps
    BY <1>13 DEF SaveUser
  <2>6. CASE ~old.ldap
    BY <2>4, <2>5, <2>6, UsersAlone DEF Inv
  <2>7. CASE old.ldap
    <3>1. Fields \subseteq DOMAIN row
      BY DEF Inv, UserRows, Fields
    <3>2. /\ DOMAIN users' = DOMAIN users \cup {r.code} /\ users'[r.code] = row
          /\ \A u \in DOMAIN users \ {r.code} : users'[u] = users[u]
      BY <2>5, <2>7 DEF Save
    <3>3. UserRows'
      <4> HIDE DEF old, row
      <4> QED BY <3>1, <3>2 DEF Inv, UserRows
    <3>4. r.code \notin Local
      BY <2>7 DEF Inv, LocalUsersKept, Local, Own
    <3>5. LocalUsersKept'
      <4> HIDE DEF old, row, r
      <4> QED BY <2>5, <3>2, <3>4 DEF Inv, LocalUsersKept, Local, Own
    <3> QED BY <2>4, <3>3, <3>5 DEF Inv
  <2> QED BY <2>6, <2>7
<1>14. ASSUME NEW p \in Processes, EndWalk(p) PROVE Inv'
  <2>1. /\ UNCHANGED <<users, sweeps>> /\ pc' = [pc EXCEPT ![p] = "users"]
        /\ job' = [job EXCEPT ![p].doomed = Outdated(users)]
    BY <1>14 DEF EndWalk, Goto
  <2>2. Alone(p) /\ job'[p].doomed = Outdated(users)
    BY <2>1 DEF Inv, Jobs, Alone
  <2>3. Outdated(users) \cap Local = {}
    BY DEF Inv, LocalUsersKept, Local, Own, Outdated
  <2>4. Jobs' /\ DoomedForeign'
    <3>1. job'[p].doomed \cap Local = {}
      BY <2>2, <2>3
    <3> QED BY <2>2, <3>1, AloneStep
  <2> QED BY <2>1, <2>4, UsersAlone DEF Inv
<1>15. ASSUME NEW p \in Processes, DestroyUser(p) PROVE Inv'
  <2>1. PICK d \in job[p].doomed : /\ users' = Restrict(users, DOMAIN users \ {d})
                                   /\ job' = [job EXCEPT ![p].doomed = @ \ {d}]
    BY <1>15 DEF DestroyUser
  <2>2. pc[p] = "users" /\ UNCHANGED pc
    BY <1>15 DEF DestroyUser
  <2>3. Alone(p) /\ job'[p].doomed = job[p].doomed \ {d}
    BY <2>1, <2>2 DEF Inv, Jobs, Alone
  <2>4. job[p].doomed \cap Local = {}
    BY <2>2 DEF Inv, DoomedForeign
  <2>5. DoomedForeign' /\ Jobs'
    <3>1. job'[p].doomed \cap Local = {}
      BY <2>3, <2>4
    <3> QED BY <2>3, <3>1, AloneStep
  <2>6. d \notin Local
    BY <2>4
  <2>7. DOMAIN users' = DOMAIN users \ {d} /\ \A u \in DOMAIN users' : users'[u] = users[u]
    BY <2>1 DEF Restrict
  <2>8. UserRows' /\ LocalUsersKept'
    <3>1. UNCHANGED sweeps
      BY <1>15 DEF DestroyUser
    <3> QED BY <2>6, <2>7, <3>1 DEF Inv, UserRows, LocalUsersKept, Local, Own
  <2> QED BY <2>5, <2>8 DEF Inv
<1>16. ASSUME NEW p \in Processes, EndUsers(p) PROVE Inv'
  <2>1. UNCHANGED <<users, sweeps>>
    BY <1>16 DEF EndUsers
  <2>2. Alone(p) /\ pc'[p] = "groups"
    BY <1>16 DEF EndUsers, Goto, Inv, Jobs, Alone
  <2> QED BY <1>5, <2>1, <2>2
(* Who is disabled with this step has lost the last group, or had one that *)
(* is destroyed for the second time.                                       *)
<1>17. ASSUME NEW p \in Processes, DestroyGroup(p) PROVE Inv'
  <2>1. PICK g \in job[p].doomed : \E refused \in SUBSET (Last(Subtree(g)) \cup Again(g)) :
          /\ users' = Leave(Subtree(g), (Last(Subtree(g)) \cup Again(g)) \ refused)
          /\ twice' = twice \cup ({g} \ DOMAIN groups)
          /\ unsaved' = unsaved \cup (refused \cap Last(Subtree(g)))
          /\ job' = [job EXCEPT ![p].doomed = @ \ {g}]
    BY <1>17 DEF DestroyGroup
  <2> DEFINE S == Subtree(g)
  <2>2. PICK refused \in SUBSET (Last(S) \cup Again(g)) :
          /\ users' = Leave(S, (Last(S) \cup Again(g)) \ refused)
          /\ twice' = twice \cup ({g} \ DOMAIN groups)
          /\ unsaved' = unsaved \cup (refused \cap Last(S))
          /\ job' = [job EXCEPT ![p].doomed = @ \ {g}]
    BY <2>1
  <2> HIDE DEF S
  <2>3. pc[p] = "groups" /\ UNCHANGED pc
    BY <1>17 DEF DestroyGroup
  <2>4. Alone(p)
    BY <2>2, <2>3 DEF Inv, Jobs, Alone
  <2>5. DoomedForeign' /\ Jobs'
    BY <2>3, <2>4, AloneStep
  <2> DEFINE off == (Last(S) \cup Again(g)) \ refused
  <2>6. /\ DOMAIN users' = DOMAIN users
        /\ \A u \in DOMAIN users :
             /\ DOMAIN users'[u] = DOMAIN users[u] /\ users'[u].ldap = users[u].ldap
             /\ users'[u].in = users[u].in \ S
             /\ users'[u].left = users[u].left \cup (users[u].in \cap S)
             /\ users'[u].state = IF u \in off THEN "disabled" ELSE users[u].state
    <3> HIDE DEF off
    <3>1. users' = Leave(S, off)
      BY <2>2 DEF off
    <3> QED BY <3>1 DEF Leave, Inv, UserRows, Fields
  <2>7. UserRows'
    BY <2>6 DEF Inv, UserRows
  <2>8. ASSUME NEW u \in Local
        PROVE  /\ u \in DOMAIN users' /\ users'[u].ldap = FALSE
               /\ users'[u].in = {} => users'[u].state = "disabled" \/ u \in unsaved'
               /\ users'[u].state = "disabled" =>
                    \/ users'[u].in = {} \/ FirstUsers[u].state = "disabled"
                    \/ users'[u].left \cap twice' # {}
    <3>1. /\ u \in DOMAIN users /\ users[u].ldap = FALSE
          /\ users[u].in = {} => users[u].state = "disabled" \/ u \in unsaved
          /\ users[u].state = "disabled" =>
               \/ users[u].in = {} \/ FirstUsers[u].state = "disabled"
               \/ users[u].left \cap twice # {}
      BY <2>8 DEF Inv, LocalUsersKept, Local, Own
    <3>2. CASE users'[u].in = {} /\ users[u].in # {}
      <4>1. u \in Last(S)
        BY <2>6, <3>1, <3>2 DEF Last
      <4> QED BY <2>2, <2>6, <3>1, <3>2, <4>1
    <3>3. CASE users'[u].in = {} /\ users[u].in = {}
      BY <2>2, <2>6, <3>1, <3>3
    <3>4. CASE users'[u].in # {} /\ u \in off
      <4>1. u \in Again(g)
        BY <2>6, <3>1, <3>4 DEF Last
      <4>2. g \in users'[u].left \cap twice'
        BY <2>2, <2>6, <4>1 DEF Again
      <4> QED BY <2>6, <3>1, <3>4, <4>2
    <3>5. CASE users'[u].in # {} /\ u \notin off
      <4>1. users[u].in # {} /\ users'[u].state = users[u].state
        BY <2>6, <3>1, <3>5
      <4> HIDE DEF off
      <4> QED BY <2>2, <2>6, <3>1, <3>5, <4>1
    <3> QED BY <3>2, <3>3, <3>4, <3>5
  <2> QED BY <2>5, <2>7, <2>8 DEF Inv, LocalUsersKept, Local, Own
<1>18. ASSUME NEW t, Change(t) \/ Order(t) PROVE Inv'
  BY <1>18, UsersAlone DEF Change, Order, Inv, Jobs, DoomedForeign
<1>19. CASE UNCHANGED vars
  BY <1>19, UsersAlone DEF vars, Inv, Jobs, DoomedForeign
<1> QED
  BY <1>1, <1>2, <1>3, <1>4, <1>6, <1>7, <1>8, <1>9, <1>10, <1>11, <1>12, <1>13, <1>14, <1>15, <1>16,
     <1>17, <1>18, <1>19
  DEF Next, Copying, Walking, Sweeping

(* However synchronisations overlap, are refused rows, are given half a    *)
(* copy or are killed: users of the program's own are never destroyed, and *)
(* are disabled with the last of their groups, or when one of theirs is    *)
(* destroyed a second time (LocalUsersKept).                               *)
THEOREM LocalUsersSafe == Spec => []LocalUsersKept
<1>1. Inv => LocalUsersKept
  BY DEF Inv
<1> QED BY <1>1, InvInit, InvNext, PTL DEF Spec
---------------------------------------------------------------------------
(* What a synchronisation destroys is in the backup tables.                *)

(* In a finite set of numbers every place up to its size is taken, by one  *)
(* number only.                                                            *)
LEMMA Places ==
  ASSUME NEW T \in SUBSET Nat, IsFiniteSet(T)
  PROVE  /\ \A n \in 1..Cardinality(T) : \E i \in T : Cardinality({j \in T : j <= i}) = n
         /\ \A i \in T : Cardinality({j \in T : j <= i}) \in 1..Cardinality(T)
         /\ \A i, k \in T : Cardinality({j \in T : j <= i}) = Cardinality({j \in T : j <= k}) => i = k
<1> DEFINE P(x) == {j \in T : j <= x}
           rank == [x \in T |-> Cardinality(P(x))]
           c == Cardinality(T)
<1>1. c \in Nat
  BY FS_CardinalityType
<1>2. ASSUME NEW x \in T PROVE IsFiniteSet(P(x)) /\ Cardinality(P(x)) \in 1..c
  <2>1. P(x) \subseteq T /\ x \in P(x)
    BY <1>2
  <2>2. IsFiniteSet(P(x)) /\ Cardinality(P(x)) <= c
    BY <2>1, FS_Subset
  <2>3. Cardinality(P(x)) \in Nat /\ Cardinality(P(x)) # 0
    BY <2>1, <2>2, FS_CardinalityType, FS_EmptySet
  <2> QED BY <1>1, <2>2, <2>3
<1>3. ASSUME NEW x \in T, NEW y \in T, x < y PROVE Cardinality(P(x)) # Cardinality(P(y))
  <2>1. P(x) \subseteq P(y) /\ y \in P(y) /\ y \notin P(x)
    <3>1. x \in Nat /\ y \in Nat /\ \A j \in T : j \in Nat
      OBVIOUS
    <3>2. \A j \in T : j <= x => j <= y
      BY <1>3, <3>1
    <3>3. ~(y <= x) /\ y <= y
      BY <1>3, <3>1
    <3> QED BY <3>2, <3>3
  <2> QED BY <1>2, <2>1, FS_Subset
<1>4. rank \in [T -> 1..c] /\ \A x \in T : rank[x] = Cardinality(P(x))
  BY <1>2
<1>5. \A x, y \in T : rank[x] = rank[y] => x = y
  <2>1. \A x, y \in T : x < y \/ y < x \/ x = y
    OBVIOUS
  <2> QED BY <1>3, <1>4, <2>1
<1> HIDE DEF rank, P, c
<1>6. rank \in Injection(T, 1..c)
  BY <1>4, <1>5 DEF Injection, IsInjective
<1>7. IsFiniteSet(1..c) /\ Cardinality(1..c) = c
  BY <1>1, FS_Interval
<1>8. rank \in Surjection(T, 1..c)
  BY <1>6, <1>7, FS_Injection DEF c
<1>9. \A n \in 1..c : \E i \in T : rank[i] = n
  BY <1>8 DEF Surjection
<1> QED BY <1>4, <1>5, <1>9 DEF P, c

(* The rows below a row are all the rows of the tree that are below it.    *)
LEMMA BelowRows ==
  ASSUME NEW S, NEW rows \in Seq(S), NEW kind, NEW code
  PROVE  /\ Below(rows, kind, code) \in Seq(S)
         /\ Range(Below(rows, kind, code)) = {r \in Range(rows) : r.kind = kind /\ r.above = code}
         /\ \A n \in DOMAIN Below(rows, kind, code) :
              LET r == Below(rows, kind, code)[n] IN r.kind = kind /\ r.above = code
<1> DEFINE places == {i \in DOMAIN rows : rows[i].kind = kind /\ rows[i].above = code}
           Place(n) == CHOOSE i \in places : Cardinality({j \in places : j <= i}) = n
           c == Cardinality(places)
<1>1. places \in SUBSET Nat /\ places \subseteq 1..Len(rows) /\ Len(rows) \in Nat
  OBVIOUS
<1>2. IsFiniteSet(places) /\ c \in Nat
  <2>1. IsFiniteSet(1..Len(rows))
    BY <1>1, FS_Interval
  <2> HIDE DEF places
  <2>2. IsFiniteSet(places)
    BY <1>1, <2>1, FS_Subset
  <2> QED BY <2>2, FS_CardinalityType DEF c
<1>3. ASSUME NEW n \in 1..c PROVE Place(n) \in places
  <2> HIDE DEF places
  <2>1. \E i \in places : Cardinality({j \in places : j <= i}) = n
    BY <1>1, <1>2, Places DEF c
  <2> QED BY <2>1
<1>4. \A i \in places : \E n \in 1..c : Place(n) = i
  <2> HIDE DEF places
  <2>1. ASSUME NEW i \in places PROVE Place(Cardinality({j \in places : j <= i})) = i
    BY <1>1, <1>2, Places
  <2>2. \A i \in places : Cardinality({j \in places : j <= i}) \in 1..c
    BY <1>1, <1>2, Places DEF c
  <2> QED BY <2>1, <2>2
<1>5. Below(rows, kind, code) = [n \in 1..c |-> rows[Place(n)]]
  BY DEF Below
<1> HIDE DEF c, Place
<1>6. \A n \in 1..c : rows[Place(n)] \in S /\ rows[Place(n)].kind = kind /\ rows[Place(n)].above = code
  BY <1>3
<1>7. Range([n \in 1..c |-> rows[Place(n)]]) = {rows[i] : i \in places}
  <2> HIDE DEF places
  <2> QED BY <1>3, <1>4 DEF Range
<1>8. {rows[i] : i \in places} = {r \in Range(rows) : r.kind = kind /\ r.above = code}
  BY DEF Range
<1> HIDE DEF places
<1> QED BY <1>2, <1>5, <1>6, <1>7, <1>8

(* What the walks have on their lists: rows, and marks for the second half *)
(* of a group.                                                             *)
Item == Row \cup [kind : {"next"}, code : Groups, above : Groups \cup {Root}]
JobFields == {"ver", "tree", "order", "then", "todo", "doomed", "got", "bad"}
States == {"start", "temp", "back", "sync", "failure", "success"}
OrderRow == [tree : DOMAIN Trees, state : States]
RowFields == {"state", "ldap", "current", "in", "left"}

GroupRows == /\ DOMAIN groups \subseteq Groups
             /\ \A g \in DOMAIN groups : /\ DOMAIN groups[g] = {"parent", "ldap", "current"}
                                        /\ groups[g].ldap \in BOOLEAN
FullUserRows == \A u \in DOMAIN users : RowFields \subseteq DOMAIN users[u]
Versions == /\ copies \in Seq(Seq(Row)) /\ origin \in Seq(DOMAIN Trees) /\ Len(origin) = Len(copies)
            /\ dir \in DOMAIN Trees
            /\ orders \in Seq(OrderRow)
(* Only an order's copy is followed by a backup.                           *)
JobRow(j) == /\ DOMAIN j = JobFields
             /\ j.ver \in 0..Len(copies) /\ j.tree \in DOMAIN Trees /\ j.order \in Nat
             /\ j.todo \in Seq(Item)
             /\ j.order # 0 => j.then = "backup"
JobRows == DOMAIN pc = Processes /\ DOMAIN job = Processes /\ \A p \in Processes : JobRow(job[p])
Types == GroupRows /\ FullUserRows /\ Versions /\ JobRows

(* A process at the tables that is not mixed is there alone.               *)
Sharing == \A p \in AtTables : p \notin mixed => AtTables = {p}

(* A user as it is in the backup.                                          *)
Saved(u) == u \in DOMAIN backup.users /\ backup.users[u].in = users[u].in
(* The groups that the walk has saved, those that the backup lacks among   *)
(* them, are not below one that may still be destroyed.                    *)
Walked == {g \in DOMAIN groups : groups[g].ldap /\ groups[g].current}
WalkedApart == /\ DOMAIN groups \ DOMAIN backup.groups \subseteq Walked
               /\ \A g \in Walked : groups[g].parent \notin Outdated(groups)
(* Nor will be those that the walk is going to save.                       *)
Ahead(todo) == \A i \in DOMAIN todo :
                 /\ todo[i].kind = "group" => todo[i].above \notin Outdated(groups)
                 /\ todo[i].kind = "next" => todo[i].code \notin Outdated(groups)

(* From the backup to the end of the sweep.                                *)
Phase(p) ==
  /\ pc[p] = "sync" => /\ \A u \in DOMAIN users : Saved(u)
                       /\ DOMAIN groups \subseteq DOMAIN backup.groups
  /\ pc[p] = "walk" => Ahead(job[p].todo) /\ \A u \in Outdated(users) : Saved(u)
  /\ pc[p] = "users" => \A u \in job[p].doomed \cap DOMAIN users : Saved(u)
  /\ pc[p] \in {"walk", "users", "groups"} => WalkedApart
  /\ pc[p] = "groups" => job[p].doomed \cap DOMAIN groups \subseteq Outdated(groups)
Backing(p) == p \notin mixed /\ job[p].order # 0 => Phase(p)

BackInv == Types /\ Sharing /\ \A p \in Processes : Backing(p)

(* A step of p leaves the jobs of the others as they are.                  *)
LEMMA JobRowsStep ==
  ASSUME Types, Versions', NEW p \in Processes, Alone(p), Len(copies) <= Len(copies'), JobRow(job[p])'
  PROVE  JobRows'
<1>1. Len(copies) \in Nat /\ Len(copies') \in Nat
  BY DEF Types, Versions
<1>2. \A q \in Processes \ {p} : JobRow(job[q]) /\ job'[q] = job[q]
  BY DEF Types, JobRows, Alone
<1>3. \A q \in Processes \ {p} : JobRow(job[q])'
  BY <1>1, <1>2 DEF JobRow
<1> QED BY <1>3 DEF JobRows, Alone

(* The version, the tree and the order of p's job are what they were.      *)
SameJob(p) == /\ DOMAIN job'[p] = DOMAIN job[p]
              /\ job'[p].ver = job[p].ver /\ job'[p].tree = job[p].tree
              /\ job'[p].order = job[p].order /\ job'[p].then = job[p].then

(* A step in which p goes on with its job.                                 *)
LEMMA GoesOn ==
  ASSUME Types, Versions', NEW p \in Processes, Alone(p), Len(copies') = Len(copies),
         SameJob(p), job'[p].todo \in Seq(Item)
  PROVE  JobRows'
<1>1. JobRow(job[p])
  BY DEF Types, JobRows
<1>2. JobRow(job[p])'
  BY <1>1 DEF JobRow, SameJob
<1>3. Len(copies) \in Nat
  BY DEF Types, Versions
<1> QED BY <1>2, <1>3, JobRowsStep

(* What an assignment to one field of p's job leaves as it was.            *)
LEMMA JobUpdate ==
  ASSUME Types, NEW p \in Processes,
         DOMAIN pc' = Processes, \A q \in Processes \ {p} : pc'[q] = pc[q],
         NEW x, NEW y,
         \/ job' = [job EXCEPT ![p].todo = x]
         \/ job' = [job EXCEPT ![p].todo = x, ![p].got = y]
         \/ job' = [job EXCEPT ![p].todo = x, ![p].bad = y]
  PROVE  Alone(p) /\ SameJob(p) /\ job'[p].todo = x /\ job'[p].doomed = job[p].doomed
  BY DEF Types, JobRows, JobRow, JobFields, Alone, SameJob

(* So it is with the list of rows to be destroyed, and with the flag.      *)
LEMMA JobUpdateDoomed ==
  ASSUME Types, NEW p \in Processes,
         DOMAIN pc' = Processes, \A q \in Processes \ {p} : pc'[q] = pc[q],
         NEW x,
         \/ job' = [job EXCEPT ![p].doomed = x]
         \/ job' = job /\ x = job[p].doomed
         \/ job' = [job EXCEPT ![p].bad = FALSE] /\ x = job[p].doomed
  PROVE  Alone(p) /\ SameJob(p) /\ job'[p].todo = job[p].todo /\ job'[p].doomed = x
  BY DEF Types, JobRows, JobRow, JobFields, Alone, SameJob

(* The labels of the other processes stay.                                 *)
LEMMA GotoAlone ==
  ASSUME Types, NEW p \in Processes, NEW l, pc' = [pc EXCEPT ![p] = l]
  PROVE  DOMAIN pc' = Processes /\ pc'[p] = l /\ \A q \in Processes \ {p} : pc'[q] = pc[q]
  BY DEF Types, JobRows

(* A process without a job is in order.                                    *)
LEMMA NoJobRow == ASSUME Types PROVE JobRow(NoJob)
<1>1. <<>> \in Seq(Item) /\ FirstTree \in DOMAIN Trees /\ Len(copies) \in Nat
  BY SynchroAssumption DEF Types, Versions
<1> QED BY <1>1 DEF NoJob, JobRow, JobFields

(* Whoever ends is without a job.                                          *)
LEMMA Finished ==
  ASSUME Types, Versions', NEW p \in Processes, Finish(p), Len(copies') = Len(copies)
  PROVE  Alone(p) /\ pc'[p] = "idle" /\ JobRows'
<1>1. Alone(p) /\ pc'[p] = "idle" /\ job'[p] = NoJob
  BY NoJobDoomed DEF Types, JobRows, Finish, Goto, Alone
<1>2. JobRow(job[p])'
  BY <1>1, NoJobRow DEF JobRow, NoJob
<1> QED BY <1>1, <1>2, JobRowsStep DEF Types, Versions

(* What comes after a step of the walk over the list of p: what was left   *)
(* of it, and rows and marks below the row that was at its head.           *)
LEMMA OnwardsRows ==
  ASSUME NEW p, NEW rows \in Seq(Row), job[p].todo \in Seq(Item), job[p].todo # <<>>,
         NEW next, next = Onwards(p, rows)
  PROVE  /\ next \in Seq(Item)
         /\ \A i \in DOMAIN next :
              \/ \E k \in DOMAIN job[p].todo : next[i] = job[p].todo[k]
              \/ next[i].kind = "user"
              \/ Head(job[p].todo).kind = "group" /\ next[i].kind = "next" /\ next[i].code = Head(job[p].todo).code
              \/ Head(job[p].todo).kind = "next" /\ next[i].kind = "group" /\ next[i].above = Head(job[p].todo).code
<1> DEFINE r == Head(job[p].todo)
           rest == Tail(job[p].todo)
           mark == [r EXCEPT !.kind = "next"]
           us == Below(rows, "user", r.code)
           gs == Below(rows, "group", r.code)
<1>1. r \in Item /\ rest \in Seq(Item)
      /\ \A i \in DOMAIN rest : \E k \in DOMAIN job[p].todo : rest[i] = job[p].todo[k]
  <2>1. Len(rest) = Len(job[p].todo) - 1 /\ \A i \in 1..Len(rest) : rest[i] = job[p].todo[i + 1]
    OBVIOUS
  <2>2. \A i \in DOMAIN rest : i + 1 \in DOMAIN job[p].todo /\ rest[i] = job[p].todo[i + 1]
    BY <2>1
  <2> QED BY <2>2
<1>2. /\ us \in Seq(Row) /\ \A i \in DOMAIN us : us[i].kind = "user"
      /\ gs \in Seq(Row) /\ \A i \in DOMAIN gs : gs[i].kind = "group" /\ gs[i].above = r.code
  BY BelowRows
<1>3. us \in Seq(Item) /\ gs \in Seq(Item)
  BY <1>2 DEF Item
<1>4. r.kind = "group" => mark \in Item /\ mark.kind = "next" /\ mark.code = r.code
  BY <1>1 DEF Item, Row
<1>5. next = (CASE r.kind = "group" -> us \o <<mark>>
                [] r.kind = "next"  -> gs
                [] OTHER            -> <<>>) \o rest
  BY DEF Onwards, Expand
<1> HIDE DEF us, gs, mark, r, rest
<1>6. CASE r.kind = "group"
  <2>1. next = (us \o <<mark>>) \o rest
    BY <1>5, <1>6
  <2> DEFINE a == us \o <<mark>>
  <2>2. <<mark>> \in Seq(Item) /\ Len(<<mark>>) = 1 /\ <<mark>>[1] = mark
    BY <1>4, <1>6
  <2>3. a \in Seq(Item) /\ Len(a) = Len(us) + 1
        /\ \A i \in 1..Len(a) : a[i] = IF i <= Len(us) THEN us[i] ELSE mark
    BY <1>3, <2>2
  <2>4. \A i \in DOMAIN a : a[i].kind = "user" \/ (a[i].kind = "next" /\ a[i].code = r.code)
    BY <1>2, <1>3, <1>4, <1>6, <2>3
  <2> HIDE DEF a
  <2>5. next \in Seq(Item) /\ Len(next) = Len(a) + Len(rest)
        /\ \A i \in 1..Len(next) : next[i] = IF i <= Len(a) THEN a[i] ELSE rest[i - Len(a)]
    BY <1>1, <2>1, <2>3 DEF a
  <2>6. \A i \in 1..Len(next) :
          \/ i \in 1..Len(a) /\ next[i] = a[i]
          \/ i - Len(a) \in 1..Len(rest) /\ next[i] = rest[i - Len(a)]
    BY <1>1, <2>3, <2>5
  <2>7. DOMAIN next = 1..Len(next) /\ DOMAIN a = 1..Len(a) /\ DOMAIN rest = 1..Len(rest)
    BY <1>1, <2>3, <2>5
  <2>8. \A i \in DOMAIN next : (\E k \in DOMAIN a : next[i] = a[k]) \/ (\E k \in DOMAIN rest : next[i] = rest[k])
    BY <2>6, <2>7
  <2>9. \A i \in DOMAIN next :
          \/ \E k \in DOMAIN job[p].todo : next[i] = job[p].todo[k]
          \/ next[i].kind = "user"
          \/ next[i].kind = "next" /\ next[i].code = r.code
    BY <1>1, <2>4, <2>8
  <2> QED BY <1>6, <2>5, <2>9 DEF r
<1>7. CASE r.kind = "next"
  <2>1. next = gs \o rest
    BY <1>5, <1>7
  <2>2. next \in Seq(Item) /\ Len(next) = Len(gs) + Len(rest)
        /\ \A i \in 1..Len(next) : next[i] = IF i <= Len(gs) THEN gs[i] ELSE rest[i - Len(gs)]
    BY <1>1, <1>3, <2>1
  <2> QED BY <1>1, <1>2, <1>3, <1>7, <2>2 DEF r
<1>8. CASE r.kind \notin {"group", "next"}
  <2>1. next = rest
    BY <1>1, <1>5, <1>8
  <2> QED BY <1>1, <2>1
<1> QED BY <1>6, <1>7, <1>8

(* Both sources of a walk hold rows.                                       *)
LEMMA SourceRows ==
  ASSUME Types, NEW p \in Processes
  PROVE  WalkSource(p) \in Seq(Row) /\ CopySource(p) \in Seq(Row)
<1>1. JobRow(job[p]) /\ copies \in Seq(Seq(Row)) /\ dir \in DOMAIN Trees
  BY DEF Types, JobRows, Versions
<1>2. job[p].ver # 0 => copies[job[p].ver] \in Seq(Row)
  BY <1>1 DEF JobRow
<1> QED BY <1>1, <1>2, SynchroAssumption DEF JobRow, WalkSource, CopySource

(* The initial states are well formed.                                     *)
LEMMA TypesInit == Init => Types
<1> SUFFICES ASSUME Init PROVE Types
  OBVIOUS
<1>1. GroupRows
  BY SynchroAssumption DEF Init, GroupRows
<1>2. FullUserRows
  BY SynchroAssumption DEF Init, FullUserRows, RowFields
<1>3. Versions
  BY SynchroAssumption DEF Init, Versions
<1>4. JobRow(NoJob)
  <2>1. <<>> \in Seq(Item) /\ FirstTree \in DOMAIN Trees /\ Len(copies) \in Nat
    BY <1>3, SynchroAssumption DEF Versions
  <2> QED BY <2>1 DEF NoJob, JobRow, JobFields
<1>5. JobRows
  BY <1>4 DEF Init, JobRows
<1> QED BY <1>1, <1>2, <1>3, <1>5 DEF Types

(* What p sets its order to.                                               *)
LEMMA OrdersStay ==
  ASSUME Types, NEW p \in Processes, NEW state \in States, SetOrder(p, state)
  PROVE  orders' \in Seq(OrderRow)
<1> DEFINE n == Len(orders)
           k == job[p].order
           new == [i \in 1..n |-> IF i = k THEN [orders[i] EXCEPT !.state = state] ELSE orders[i]]
<1>1. orders \in Seq(OrderRow)
  BY DEF Types, Versions
<1>2. n \in Nat /\ DOMAIN orders = 1..n /\ \A i \in 1..n : orders[i] \in OrderRow
  BY <1>1
<1>3. \A i \in 1..n : [orders[i] EXCEPT !.state = state] \in OrderRow
  BY <1>2 DEF OrderRow
<1>4. new \in [1..n -> OrderRow]
  <2> HIDE DEF n, k
  <2> QED BY <1>2, <1>3
<1>5. k # 0 => orders' = [orders EXCEPT ![k].state = state]
  BY DEF SetOrder
<1>6. k = 0 => orders' = orders
  BY DEF SetOrder
<1>7. CASE k = 0
  BY <1>1, <1>6, <1>7
<1>8. CASE k # 0
  <2>1. orders' = new
    <3> HIDE DEF n, k
    <3> QED BY <1>2, <1>5, <1>8
  <2> HIDE DEF new, n, k
  <2>2. orders' \in Seq(OrderRow)
    BY <1>2, <1>4, <2>1
  <2> QED BY <2>2
<1> QED BY <1>7, <1>8

(* A copy is begun with a version of its own.                              *)
LEMMA TypesBegin ==
  ASSUME Types, NEW p \in Processes, NEW then, NEW tree \in DOMAIN Trees, NEW order \in Nat,
         order # 0 => then = "backup", BeginCopy(p, then, tree, order),
         orders' \in Seq(OrderRow)
  PROVE  Types' /\ Alone(p) /\ pc'[p] = "copy"
<1> DEFINE todo == Below(Trees[tree], "group", Root)
           j == [NoJob EXCEPT !.ver = Len(copies) + 1, !.tree = tree, !.order = order,
                              !.then = then, !.todo = todo]
<1>1. copies' = Append(copies, <<>>) /\ origin' = Append(origin, tree) /\ UNCHANGED <<tables, dir>>
      /\ pc' = [pc EXCEPT ![p] = "copy"] /\ job' = [job EXCEPT ![p] = j]
  BY DEF BeginCopy, Goto
<1>2. todo \in Seq(Item)
  BY BelowRows, SynchroAssumption DEF Item
<1> HIDE DEF todo
<1>3. /\ DOMAIN j = JobFields /\ j.ver = Len(copies) + 1 /\ j.tree = tree /\ j.order = order
      /\ j.then = then /\ j.todo = todo
  BY DEF NoJob, JobFields
<1> HIDE DEF j
<1>4. Versions' /\ Len(copies') = Len(copies) + 1 /\ Len(copies) \in Nat
  <2>1. <<>> \in Seq(Row)
    OBVIOUS
  <2> QED BY <1>1, <2>1 DEF Types, Versions
<1>5. Alone(p) /\ job'[p] = j /\ pc'[p] = "copy"
  BY <1>1, <1>3 DEF Types, JobRows, Alone, JobFields
<1>6. JobRow(job[p])'
  BY <1>2, <1>3, <1>4, <1>5 DEF JobRow
<1>7. JobRows'
  BY <1>4, <1>5, <1>6, JobRowsStep
<1> QED BY <1>1, <1>4, <1>5, <1>7 DEF Types, GroupRows, FullUserRows, tables

(* A synchronisation is begun with a version that is there, or with none.  *)
LEMMA TypesMeet ==
  ASSUME Types, NEW p \in Processes, NEW j, DOMAIN j = JobFields,
         j.ver \in 0..Len(copies), j.tree \in DOMAIN Trees, j.order = 0, j.todo = <<>>,
         pc' = [pc EXCEPT ![p] = "sync"],
         job' = [job EXCEPT ![p] = j],
         UNCHANGED <<tables, copies, orders, dir, origin>>
  PROVE  Types' /\ Alone(p) /\ pc'[p] = "sync" /\ job'[p].order = 0
<1>2. Alone(p) /\ job'[p] = j /\ pc'[p] = "sync"
  BY DEF Types, JobRows, Alone, JobFields
<1>3. Versions' /\ Len(copies') = Len(copies) /\ Len(copies) \in Nat
  BY DEF Types, Versions
<1>4. JobRow(job[p])'
  <2>1. job'[p].todo \in Seq(Item)
    <3>1. <<>> \in Seq(Item)
      OBVIOUS
    <3>2. job'[p].todo = <<>>
      BY <1>2
    <3> QED BY <3>1, <3>2
  <2>2. job'[p].ver \in 0..Len(copies') /\ job'[p].order = 0 /\ 0 \in Nat
    BY <1>2, <1>3
  <2> QED BY <1>2, <2>1, <2>2 DEF JobRow
<1>5. JobRows'
  BY <1>2, <1>3, <1>4, JobRowsStep
<1> QED BY <1>2, <1>3, <1>5 DEF Types, GroupRows, FullUserRows, tables

(* The steps of one process.                                               *)
StepOf(p) ==
  \/ Run(p) \/ Create(p) \/ Check(p)
  \/ \E v \in 1..Len(copies) : Synchronize(p, v) \/ Destroy(p, v)
  \/ \E t \in GwTrees : Screen(p, t)
  \/ Copying(p) \/ Walking(p) \/ Sweeping(p)
  \/ CopyRefused(p) \/ BackupFails(p) \/ SaveRefused(p) \/ Kill(p)

(* A step that leaves the versions, the orders and the tables alone.       *)
LEMMA QuietTypes ==
  ASSUME Types, NEW p \in Processes, Alone(p), UNCHANGED <<tables, copies, dir, origin>>,
         orders' \in Seq(OrderRow),
         JobRow(job[p])' \/ (SameJob(p) /\ job'[p].todo \in Seq(Item))
  PROVE  Types'
<1>1. Versions' /\ Len(copies') = Len(copies) /\ Len(copies) \in Nat
  BY DEF Types, Versions
<1>2. JobRows'
  BY <1>1, JobRowsStep, GoesOn
<1> QED BY <1>1, <1>2 DEF Types, GroupRows, FullUserRows, tables

(* So does a step that ends with Finish.                                   *)
LEMMA FinishTypes ==
  ASSUME Types, NEW p \in Processes, Finish(p), UNCHANGED <<tables, copies, dir, origin>>,
         orders' \in Seq(OrderRow)
  PROVE  Types' /\ Alone(p) /\ pc'[p] = "idle"
<1>1. Versions' /\ Len(copies') = Len(copies)
  BY DEF Types, Versions
<1>2. Alone(p) /\ pc'[p] = "idle" /\ JobRows'
  BY <1>1, Finished
<1> QED BY <1>1, <1>2 DEF Types, GroupRows, FullUserRows, tables

(* The lists of p as they are.                                             *)
LEMMA JobOf ==
  ASSUME Types, NEW p \in Processes
  PROVE  /\ JobRow(job[p]) /\ job[p].todo \in Seq(Item) /\ orders \in Seq(OrderRow)
         /\ DOMAIN pc = Processes
         /\ job[p].todo # <<>> => Tail(job[p].todo) \in Seq(Item) /\ Head(job[p].todo) \in Item
  BY DEF Types, JobRows, JobRow, Versions

(* The steps of a copy keep the state well formed.                         *)
LEMMA TypesCopy ==
  ASSUME Types, NEW p \in Processes,
         CopyRow(p) \/ CopyRefused(p) \/ EndCopy(p) \/ EndCopyOrdered(p) \/ Backup(p) \/ BackupFails(p)
  PROVE  Types' /\ Alone(p)
<1> USE DEF history, count
<1>1. CASE CopyRow(p)
  <2> DEFINE r == Head(job[p].todo)
             next == Onwards(p, CopySource(p))
             got == job[p].got \cup {r.kind}
  <2>1. /\ job[p].todo # <<>> /\ UNCHANGED <<tables, orders, dir, pc, origin>>
        /\ copies' = IF r.kind = "next" THEN copies ELSE [copies EXCEPT ![job[p].ver] = Append(@, r)]
        /\ job' = [job EXCEPT ![p].todo = next, ![p].got = got]
    BY <1>1 DEF CopyRow
  <2>2. next \in Seq(Item)
    BY <2>1, JobOf, SourceRows, OnwardsRows
  <2>3. r.kind # "next" => r \in Row
    BY <2>1, JobOf DEF Item
  <2> HIDE DEF next, r
  <2>4. Alone(p) /\ SameJob(p) /\ job'[p].todo = next
    BY <2>1, JobOf, JobUpdate
  <2>5. copies' \in Seq(Seq(Row)) /\ Len(copies') = Len(copies)
    <3>1. CASE r.kind = "next"
      BY <2>1, <3>1 DEF Types, Versions
    <3>2. CASE r.kind # "next" /\ job[p].ver = 0
      <4>1. copies \in Seq(Seq(Row)) /\ job[p].ver \notin 1..Len(copies)
        BY <3>2 DEF Types, Versions
      <4> DEFINE new == [i \in 1..Len(copies) |-> copies[i]]
      <4>2. copies' = new
        <5> DEFINE k == job[p].ver
                   row == Append(copies[k], r)
        <5>1. copies' = [copies EXCEPT ![k] = row] /\ k \notin 1..Len(copies)
          BY <2>1, <3>2, <4>1
        <5>2. DOMAIN copies = 1..Len(copies)
          BY <4>1
        <5> HIDE DEF k, row
        <5> QED BY <5>1, <5>2
      <4>3. \A i \in 1..Len(copies) : copies[i] \in Seq(Row)
        BY <4>1
      <4> QED BY <4>1, <4>2, <4>3
    <3>3. CASE r.kind # "next" /\ job[p].ver # 0
      <4>1. copies \in Seq(Seq(Row)) /\ job[p].ver \in 1..Len(copies)
        BY <3>3, JobOf DEF Types, Versions, JobRow
      <4>2. copies' = [copies EXCEPT ![job[p].ver] = Append(copies[job[p].ver], r)]
        BY <2>1, <3>3
      <4>3. Append(copies[job[p].ver], r) \in Seq(Row)
        BY <2>3, <3>3, <4>1
      <4> QED BY <4>1, <4>2, <4>3
    <3> QED BY <3>1, <3>2, <3>3
  <2>6. Versions'
    BY <2>1, <2>5 DEF Types, Versions
  <2>7. JobRows'
    BY <2>2, <2>4, <2>5, <2>6, GoesOn
  <2> QED BY <2>1, <2>4, <2>6, <2>7 DEF Types, GroupRows, FullUserRows, tables
<1>2. CASE CopyRefused(p)
  <2>1. UNCHANGED <<tables, copies, orders, dir, pc, origin>> /\ job[p].todo # <<>>
        /\ job' = [job EXCEPT ![p].todo = Tail(job[p].todo), ![p].bad = TRUE]
    BY <1>2 DEF CopyRefused
  <2>2. Alone(p) /\ SameJob(p) /\ job'[p].todo = Tail(job[p].todo)
    BY <2>1, JobOf, JobUpdate
  <2> QED BY <2>1, <2>2, JobOf, QuietTypes
<1>3. CASE EndCopy(p)
  <2>1. UNCHANGED <<tables, copies, orders, dir, origin>>
    BY <1>3 DEF EndCopy
  <2>2. CASE Finish(p)
    BY <2>1, <2>2, FinishTypes, JobOf
  <2>3. CASE ~Finish(p)
    <3>1. pc' = [pc EXCEPT ![p] = "sync"] /\ job' = [job EXCEPT ![p].bad = FALSE]
      BY <1>3, <2>3 DEF EndCopy, Goto
    <3>2. Alone(p) /\ SameJob(p) /\ job'[p].todo = job[p].todo
      BY <3>1, GotoAlone, JobUpdateDoomed
    <3> QED BY <2>1, <3>2, JobOf, QuietTypes
  <2> QED BY <2>2, <2>3
<1>4. CASE EndCopyOrdered(p) \/ BackupFails(p) \/ Backup(p)
  <2>1. UNCHANGED <<tables, copies, dir, origin>>
        /\ orders' \in Seq(OrderRow)
    <3>1. UNCHANGED <<tables, copies, dir, origin>>
      BY <1>4 DEF EndCopyOrdered, BackupFails, Backup
    <3>2. SetOrder(p, "failure") \/ SetOrder(p, "back") \/ SetOrder(p, "sync")
      BY <1>4 DEF EndCopyOrdered, BackupFails, Backup
    <3>3. "failure" \in States /\ "back" \in States /\ "sync" \in States
      BY DEF States
    <3>4. orders' \in Seq(OrderRow)
      BY <3>2, <3>3, OrdersStay
    <3> QED BY <3>1, <3>4
  <2>2. CASE Finish(p)
    BY <2>1, <2>2, FinishTypes
  <2>3. CASE ~Finish(p)
    <3>1. job' = job /\ (pc' = [pc EXCEPT ![p] = "backup"] \/ pc' = [pc EXCEPT ![p] = "sync"])
      BY <1>4, <2>3 DEF EndCopyOrdered, BackupFails, Backup, Goto
    <3>2. Alone(p) /\ SameJob(p) /\ job'[p].todo = job[p].todo
      BY <3>1, GotoAlone, JobUpdateDoomed
    <3> QED BY <2>1, <3>2, JobOf, QuietTypes
  <2> QED BY <2>2, <2>3
<1> QED BY <1>1, <1>2, <1>3, <1>4

(* The parts of the type invariant that a step at the tables keeps.        *)
LEMMA TableTypes ==
  ASSUME Types, NEW p \in Processes, Alone(p), SameJob(p), job'[p].todo \in Seq(Item),
         UNCHANGED <<copies, orders, dir, origin>>, GroupRows', FullUserRows'
  PROVE  Types'
<1>1. Versions' /\ Len(copies') = Len(copies)
  BY DEF Types, Versions
<1> QED BY <1>1, GoesOn DEF Types

(* What Reset does.                                                        *)
LEMMA ResetSteps ==
  ASSUME Types, NEW p \in Processes, Reset(p)
  PROVE  /\ Types' /\ Alone(p) /\ SameJob(p) /\ pc[p] = "sync" /\ pc'[p] = "walk"
         /\ UNCHANGED <<backup, mixed>>
         /\ job'[p].todo = Below(WalkSource(p), "group", Root)
         /\ DOMAIN groups' = DOMAIN groups
         /\ \A g \in DOMAIN groups' : groups'[g].current = FALSE /\ groups'[g].ldap = groups[g].ldap
         /\ DOMAIN users' = DOMAIN users /\ \A u \in DOMAIN users' : users'[u].in = users[u].in
<1> USE DEF history, count, tables
<1> DEFINE todo == Below(WalkSource(p), "group", Root)
<1>1. /\ groups' = [g \in DOMAIN groups |-> [groups[g] EXCEPT !.current = FALSE]]
      /\ users' = [u \in DOMAIN users |-> [users[u] EXCEPT !.current = FALSE]]
      /\ job' = [job EXCEPT ![p].todo = todo]
      /\ pc[p] = "sync" /\ pc' = [pc EXCEPT ![p] = "walk"]
      /\ UNCHANGED <<copies, orders, dir, origin, backup, mixed>>
  BY DEF Reset, Goto
<1>2. todo \in Seq(Item)
  BY SourceRows, BelowRows DEF Item
<1> HIDE DEF todo
<1>3. Alone(p) /\ SameJob(p) /\ job'[p].todo = todo /\ pc'[p] = "walk"
  BY <1>1, GotoAlone, JobUpdate
<1>4. DOMAIN groups' = DOMAIN groups
      /\ \A g \in DOMAIN groups' : groups'[g].current = FALSE /\ DOMAIN groups'[g] = DOMAIN groups[g]
                                /\ groups'[g].ldap = groups[g].ldap
  BY <1>1 DEF Types, GroupRows
<1>5. DOMAIN users' = DOMAIN users
      /\ \A u \in DOMAIN users' : users'[u].in = users[u].in /\ DOMAIN users'[u] = DOMAIN users[u]
  BY <1>1 DEF Types, FullUserRows, RowFields
<1>6. GroupRows' /\ FullUserRows'
  BY <1>4, <1>5 DEF Types, GroupRows, FullUserRows
<1>7. Types'
  BY <1>1, <1>2, <1>3, <1>6, TableTypes
<1> QED BY <1>1, <1>3, <1>4, <1>5, <1>7 DEF todo

(* What SaveGroup does: a group of the program's own is left as it is.     *)
LEMMA SaveGroupSteps ==
  ASSUME Types, NEW p \in Processes, SaveGroup(p), NEW r, r = Head(job[p].todo)
  PROVE  /\ Types' /\ Alone(p) /\ SameJob(p) /\ pc[p] = "walk" /\ pc'[p] = "walk"
         /\ UNCHANGED <<backup, mixed, users>>
         /\ job[p].todo # <<>> /\ r.kind = "group"
         /\ job'[p].todo = Onwards(p, WalkSource(p))
         /\ \/ groups' = groups /\ r.code \in DOMAIN groups /\ ~groups[r.code].ldap
            \/ /\ DOMAIN groups' = DOMAIN groups \cup {r.code}
               /\ \A g \in DOMAIN groups \ {r.code} : groups'[g] = groups[g]
               /\ groups'[r.code].ldap /\ groups'[r.code].current
               /\ groups'[r.code].parent \in {r.above, Lost}
<1> USE DEF history, count, tables
<1> DEFINE old == IF r.code \in DOMAIN groups THEN groups[r.code].ldap ELSE TRUE
           row == [parent |-> IF r.above \in DOMAIN groups \cup {Root} THEN r.above ELSE Lost,
                   ldap |-> TRUE, current |-> TRUE]
           next == Onwards(p, WalkSource(p))
<1>1. /\ pc[p] = "walk" /\ job[p].todo # <<>> /\ r.kind = "group"
      /\ groups' = IF ~old THEN groups ELSE Save(groups, r.code, row)
      /\ job' = [job EXCEPT ![p].todo = next]
      /\ UNCHANGED <<users, copies, orders, dir, origin, backup, mixed, pc>>
  BY DEF SaveGroup
<1>2. next \in Seq(Item)
  BY <1>1, JobOf, SourceRows, OnwardsRows
<1> HIDE DEF next
<1>3. Alone(p) /\ SameJob(p) /\ job'[p].todo = next
  BY <1>1, JobOf, JobUpdate
<1>4. r.code \in Groups
  BY <1>1, JobOf DEF Item, Row
<1>5. /\ DOMAIN row = {"parent", "ldap", "current"} /\ row.ldap /\ row.current /\ row.parent \in {r.above, Lost}
  OBVIOUS
<1> HIDE DEF row
<1>6. \/ groups' = groups /\ r.code \in DOMAIN groups /\ ~groups[r.code].ldap
      \/ /\ DOMAIN groups' = DOMAIN groups \cup {r.code}
         /\ \A g \in DOMAIN groups \ {r.code} : groups'[g] = groups[g]
         /\ groups'[r.code] = row
  BY <1>1 DEF Save
<1>7. GroupRows' /\ FullUserRows'
  <2> HIDE DEF old
  <2>1. GroupRows /\ FullUserRows
    BY DEF Types
  <2>2. GroupRows'
    BY <1>4, <1>5, <1>6, <2>1 DEF GroupRows
  <2>3. FullUserRows'
    BY <1>1, <2>1 DEF FullUserRows
  <2> QED BY <2>2, <2>3
<1>8. Types'
  BY <1>1, <1>2, <1>3, <1>7, TableTypes
<1> QED BY <1>1, <1>3, <1>5, <1>6, <1>8 DEF next

(* What SaveUser does: no user becomes outdated.                           *)
LEMMA SaveUserSteps ==
  ASSUME Types, NEW p \in Processes, SaveUser(p)
  PROVE  /\ Types' /\ Alone(p) /\ SameJob(p) /\ pc[p] = "walk" /\ pc'[p] = "walk"
         /\ UNCHANGED <<backup, mixed, groups>>
         /\ job[p].todo # <<>> /\ job'[p].todo = Tail(job[p].todo)
         /\ Head(job[p].todo).kind = "user" /\ Head(job[p].todo).code \notin Outdated(users')
         /\ \A u \in Outdated(users') : u \in Outdated(users) /\ users'[u] = users[u]
<1> USE DEF history, count, tables
<1> DEFINE r == Head(job[p].todo)
           old == IF r.code \in DOMAIN users THEN users[r.code]
                  ELSE [state |-> "enabled", ldap |-> TRUE, current |-> FALSE, in |-> {}, left |-> {}]
           row == [old EXCEPT !.current = TRUE, !.in = {r.above} \cap DOMAIN groups,
                              !.left = {r.above} \ DOMAIN groups]
<1>1. /\ pc[p] = "walk" /\ job[p].todo # <<>> /\ r.kind = "user"
      /\ users' = IF ~old.ldap THEN users ELSE Save(users, r.code, row)
      /\ job' = [job EXCEPT ![p].todo = Tail(job[p].todo)]
      /\ UNCHANGED <<groups, copies, orders, dir, origin, backup, mixed, pc>>
  BY DEF SaveUser
<1>2. Alone(p) /\ SameJob(p) /\ job'[p].todo = Tail(job[p].todo)
  BY <1>1, JobOf, JobUpdate
<1>3. RowFields \subseteq DOMAIN row /\ row.current = TRUE
  <2>1. RowFields \subseteq DOMAIN old
    BY DEF Types, FullUserRows, RowFields
  <2> HIDE DEF old
  <2> QED BY <2>1 DEF RowFields
<1>0. ~old.ldap => r.code \in DOMAIN users /\ ~users[r.code].ldap
  OBVIOUS
<1> HIDE DEF row, old, r
<1>4. \/ users' = users /\ r.code \in DOMAIN users /\ ~users[r.code].ldap
      \/ /\ DOMAIN users' = DOMAIN users \cup {r.code} /\ users'[r.code] = row
         /\ \A u \in DOMAIN users \ {r.code} : users'[u] = users[u]
  BY <1>0, <1>1 DEF Save
<1>5. FullUserRows' /\ GroupRows'
  BY <1>1, <1>3, <1>4 DEF Types, FullUserRows, GroupRows
<1>6. /\ \A u \in Outdated(users') : u \in Outdated(users) /\ users'[u] = users[u]
      /\ r.code \notin Outdated(users')
  BY <1>3, <1>4 DEF Outdated
<1>7. Types'
  BY <1>1, <1>2, <1>5, JobOf, TableTypes
<1> QED BY <1>1, <1>2, <1>6, <1>7 DEF r

(* With a group the set S has those below it.                              *)
Closed(S) == \A h \in DOMAIN groups : groups[h].parent \in S => h \in S

(* A group's subtree is closed, and the least such set with the group.     *)
LEMMA SubtreeClosed ==
  ASSUME NEW g
  PROVE  Subtree(g) \subseteq DOMAIN groups /\ Closed(Subtree(g)) /\ {g} \cap DOMAIN groups \subseteq Subtree(g)
<1>1. Subtree(g) \subseteq DOMAIN groups
  BY DEF Subtree, Nested
<1>2. ASSUME NEW h \in DOMAIN groups, groups[h].parent \in Subtree(g)
      PROVE  h \in Subtree(g)
  <2>1. h \in Nested
    BY <1>1, <1>2 DEF Nested
  <2>2. ASSUME NEW S \in SUBSET Nested,
               \A k \in Nested : groups[k].parent \in S \cup {g} => k \in S
        PROVE  h \in S
    <3>1. groups[h].parent \in S \cup {g}
      BY <1>2, <2>2 DEF Subtree
    <3> QED BY <2>1, <2>2, <3>1
  <2> QED BY <2>1, <2>2 DEF Subtree
<1>3. {g} \cap DOMAIN groups \subseteq Subtree(g)
  BY DEF Subtree
<1> QED BY <1>1, <1>2, <1>3 DEF Closed

(* Every closed set with the group holds its subtree.                      *)
LEMMA SubtreeLeast ==
  ASSUME NEW g, NEW S \in SUBSET DOMAIN groups, Closed(S), {g} \cap DOMAIN groups \subseteq S
  PROVE  Subtree(g) \subseteq S
<1> DEFINE Q == S \cap Nested
<1>1. ASSUME NEW h \in Nested, groups[h].parent \in Q \cup {g} PROVE h \in Q
  <2>1. h \in DOMAIN groups /\ groups[h].parent \in DOMAIN groups
    BY DEF Nested
  <2>2. groups[h].parent \in S
    BY <1>1, <2>1
  <2> QED BY <2>1, <2>2 DEF Closed
<1>2. Q \in SUBSET Nested
  OBVIOUS
<1>3. \A h \in Subtree(g) : h \in ({g} \cap DOMAIN groups) \cup Q
  <2> HIDE DEF Q
  <2> QED BY <1>1, <1>2 DEF Subtree
<1> QED BY <1>3

(* What DestroyUser does.                                                  *)
LEMMA DestroyUserSteps ==
  ASSUME Types, NEW p \in Processes, DestroyUser(p)
  PROVE  /\ Types' /\ Alone(p) /\ SameJob(p) /\ pc[p] = "users" /\ pc'[p] = "users"
         /\ UNCHANGED <<backup, mixed, groups>>
         /\ \E u \in job[p].doomed : /\ DOMAIN users' = DOMAIN users \ {u}
                                     /\ job'[p].doomed = job[p].doomed \ {u}
         /\ \A u \in DOMAIN users' : users'[u] = users[u]
<1> USE DEF history, count, tables
<1>1. PICK u \in job[p].doomed : /\ users' = Restrict(users, DOMAIN users \ {u})
                                 /\ job' = [job EXCEPT ![p].doomed = @ \ {u}]
  BY DEF DestroyUser
<1>2. pc[p] = "users" /\ UNCHANGED <<groups, copies, orders, dir, origin, backup, mixed, pc>>
  BY DEF DestroyUser
<1> DEFINE rest == job[p].doomed \ {u}
<1>3. job' = [job EXCEPT ![p].doomed = rest]
  BY <1>1
<1>4. Alone(p) /\ SameJob(p) /\ job'[p].todo = job[p].todo /\ job'[p].doomed = rest
  BY <1>2, <1>3, JobOf, JobUpdateDoomed
<1>5. DOMAIN users' = DOMAIN users \ {u} /\ \A v \in DOMAIN users' : users'[v] = users[v]
  BY <1>1 DEF Restrict
<1>6. FullUserRows' /\ GroupRows'
  BY <1>2, <1>5 DEF Types, FullUserRows, GroupRows
<1>7. Types'
  BY <1>2, <1>4, <1>6, JobOf, TableTypes
<1> QED BY <1>1, <1>2, <1>4, <1>5, <1>7

(* What DestroyGroup does: no user row goes with a group.                  *)
LEMMA DestroyGroupSteps ==
  ASSUME Types, NEW p \in Processes, DestroyGroup(p)
  PROVE  /\ Types' /\ Alone(p) /\ SameJob(p) /\ pc[p] = "groups" /\ pc'[p] = "groups"
         /\ UNCHANGED <<backup, mixed>> /\ DOMAIN users' = DOMAIN users
         /\ \E g \in job[p].doomed : /\ DOMAIN groups' = DOMAIN groups \ Subtree(g)
                                     /\ job'[p].doomed = job[p].doomed \ {g}
         /\ \A g \in DOMAIN groups' : groups'[g] = groups[g]
<1> USE DEF history, count, tables
<1>1. PICK g \in job[p].doomed : /\ \E off : users' = Leave(Subtree(g), off)
                                 /\ groups' = Restrict(groups, DOMAIN groups \ Subtree(g))
                                 /\ job' = [job EXCEPT ![p].doomed = @ \ {g}]
  BY DEF DestroyGroup
<1>2. pc[p] = "groups" /\ UNCHANGED <<copies, orders, dir, origin, backup, mixed, pc>>
  BY DEF DestroyGroup
<1> DEFINE rest == job[p].doomed \ {g}
<1>3. job' = [job EXCEPT ![p].doomed = rest]
  BY <1>1
<1>4. Alone(p) /\ SameJob(p) /\ job'[p].todo = job[p].todo /\ job'[p].doomed = rest
  BY <1>2, <1>3, JobOf, JobUpdateDoomed
<1>5. DOMAIN groups' = DOMAIN groups \ Subtree(g) /\ \A h \in DOMAIN groups' : groups'[h] = groups[h]
  BY <1>1 DEF Restrict
<1>6. DOMAIN users' = DOMAIN users /\ \A u \in DOMAIN users : DOMAIN users'[u] = DOMAIN users[u]
  BY <1>1 DEF Leave
<1>7. FullUserRows' /\ GroupRows'
  BY <1>5, <1>6 DEF Types, FullUserRows, GroupRows
<1>8. Types'
  BY <1>2, <1>4, <1>7, JobOf, TableTypes
<1> QED BY <1>1, <1>2, <1>4, <1>5, <1>6, <1>8

(* The steps between the destructions.                                     *)
LEMMA SweepSteps ==
  ASSUME Types, NEW p \in Processes, EndWalk(p) \/ EndUsers(p)
  PROVE  /\ Types' /\ Alone(p) /\ SameJob(p) /\ UNCHANGED <<backup, mixed, tables>>
         /\ \/ pc[p] = "walk" /\ pc'[p] = "users" /\ job'[p].doomed = Outdated(users)
            \/ pc[p] = "users" /\ pc'[p] = "groups" /\ job'[p].doomed \subseteq Outdated(groups)
<1> USE DEF history, count
<1>1. CASE EndWalk(p)
  <2>1. /\ pc[p] = "walk" /\ pc' = [pc EXCEPT ![p] = "users"]
        /\ job' = [job EXCEPT ![p].doomed = Outdated(users)]
        /\ UNCHANGED <<tables, copies, orders, dir, origin, backup, mixed>>
    BY <1>1 DEF EndWalk, Goto
  <2>2. Alone(p) /\ SameJob(p) /\ job'[p].todo = job[p].todo /\ job'[p].doomed = Outdated(users) /\ pc'[p] = "users"
    BY <2>1, GotoAlone, JobUpdateDoomed
  <2> QED BY <2>1, <2>2, JobOf, QuietTypes
<1>2. CASE EndUsers(p)
  <2> DEFINE d == IF job[p].ver = 0 THEN {} ELSE Outdated(groups)
  <2>1. /\ pc[p] = "users" /\ pc' = [pc EXCEPT ![p] = "groups"]
        /\ job' = [job EXCEPT ![p].doomed = d]
        /\ UNCHANGED <<tables, copies, orders, dir, origin, backup, mixed>>
    BY <1>2 DEF EndUsers, Goto
  <2>2. d \subseteq Outdated(groups)
    OBVIOUS
  <2> HIDE DEF d
  <2>3. Alone(p) /\ SameJob(p) /\ job'[p].todo = job[p].todo /\ job'[p].doomed = d /\ pc'[p] = "groups"
    BY <2>1, GotoAlone, JobUpdateDoomed
  <2> QED BY <2>1, <2>2, <2>3, JobOf, QuietTypes
<1> QED BY <1>1, <1>2

(* The steps of the walk that save nothing.                                *)
LEMMA WalkOnSteps ==
  ASSUME Types, NEW p \in Processes, NextGroups(p) \/ SaveRefused(p)
  PROVE  /\ Types' /\ Alone(p) /\ SameJob(p) /\ UNCHANGED <<backup, mixed, tables>>
         /\ pc[p] = "walk" /\ pc'[p] = "walk" /\ job[p].todo # <<>>
         /\ \/ job'[p].todo = Tail(job[p].todo)
            \/ Head(job[p].todo).kind = "next" /\ job'[p].todo = Onwards(p, WalkSource(p))
         /\ SaveRefused(p) => job'[p].bad
<1> USE DEF history, count
<1>0. SaveRefused(p) => job'[p].bad
  BY JobOf DEF SaveRefused, Types, JobRows, JobRow, JobFields
<1>1. CASE NextGroups(p)
  <2> DEFINE next == Onwards(p, WalkSource(p))
  <2>1. /\ pc[p] = "walk" /\ job' = [job EXCEPT ![p].todo = next]
        /\ job[p].todo # <<>> /\ Head(job[p].todo).kind = "next"
        /\ UNCHANGED <<tables, copies, orders, dir, origin, backup, mixed, pc>>
    BY <1>1 DEF NextGroups
  <2>2. next \in Seq(Item)
    BY <2>1, JobOf, SourceRows, OnwardsRows
  <2> HIDE DEF next
  <2>3. Alone(p) /\ SameJob(p) /\ job'[p].todo = next
    BY <2>1, JobOf, JobUpdate
  <2>4. Types'
    BY <2>1, <2>2, <2>3, JobOf, QuietTypes
  <2> QED BY <1>0, <2>1, <2>3, <2>4 DEF next
<1>2. CASE SaveRefused(p)
  <2>1. /\ pc[p] = "walk" /\ job' = [job EXCEPT ![p].todo = Tail(job[p].todo), ![p].bad = TRUE]
        /\ job[p].todo # <<>>
        /\ UNCHANGED <<tables, copies, orders, dir, origin, backup, mixed, pc>>
    BY <1>2 DEF SaveRefused
  <2>2. Alone(p) /\ SameJob(p) /\ job'[p].todo = Tail(job[p].todo)
    BY <2>1, JobOf, JobUpdate
  <2>3. Types'
    BY <2>1, <2>2, JobOf, QuietTypes
  <2> QED BY <1>0, <2>1, <2>2, <2>3
<1> QED BY <1>1, <1>2

(* What the end of a synchronisation and the death of a process do.        *)
LEMMA EndSteps ==
  ASSUME Types, NEW p \in Processes, EndSync(p) \/ Kill(p)
  PROVE  Types' /\ Alone(p) /\ pc'[p] = "idle" /\ UNCHANGED <<tables, backup, mixed>>
<1> USE DEF history, count
<1>1. /\ Finish(p) /\ UNCHANGED <<tables, copies, backup, dir, origin, mixed>>
      /\ SetOrder(p, "failure") \/ SetOrder(p, "success") \/ UNCHANGED orders
  BY DEF EndSync, Kill
<1>2. "failure" \in States /\ "success" \in States
  BY DEF States
<1>3. orders' \in Seq(OrderRow)
  BY <1>1, <1>2, OrdersStay, JobOf
<1> QED BY <1>1, <1>3, FinishTypes

(* What the beginning of a copy does.                                      *)
LEMMA BeginSteps ==
  ASSUME Types, NEW p \in Processes, Run(p) \/ Create(p) \/ Check(p)
  PROVE  Types' /\ Alone(p) /\ pc'[p] = "copy" /\ UNCHANGED <<tables, backup, mixed>>
<1>1. /\ dir \in DOMAIN Trees /\ orders \in Seq(OrderRow)
  BY DEF Types, Versions
<1>2. CASE Run(p) \/ Create(p)
  <2>1. /\ BeginCopy(p, "sync", dir, 0) \/ BeginCopy(p, "stop", dir, 0)
        /\ UNCHANGED orders
    BY <1>2 DEF Run, Create
  <2> QED BY <1>1, <2>1, TypesBegin DEF BeginCopy, tables
<1>3. CASE Check(p)
  <2>1. PICK i \in 1..Len(orders) :
          /\ BeginCopy(p, "backup", orders[i].tree, i)
          /\ orders' = [orders EXCEPT ![i].state = "temp"]
    BY <1>3 DEF Check
  <2>2. orders[i] \in OrderRow /\ i \in Nat
    BY <1>1
  <2> DEFINE o == [orders[i] EXCEPT !.state = "temp"]
  <2>3. o \in OrderRow /\ orders' = [orders EXCEPT ![i] = o]
    BY <2>1, <2>2 DEF States, OrderRow
  <2> HIDE DEF o
  <2>4. orders' \in Seq(OrderRow)
    BY <1>1, <2>3
  <2>5. orders[i].tree \in DOMAIN Trees
    BY <2>2 DEF OrderRow
  <2>6. Types' /\ Alone(p) /\ pc'[p] = "copy"
    BY <2>1, <2>2, <2>4, <2>5, TypesBegin
  <2> QED BY <2>1, <2>6 DEF BeginCopy, tables
<1> QED BY <1>2, <1>3

(* What a synchronisation begun on a screen does.                          *)
LEMMA MeetSteps ==
  ASSUME Types, NEW p \in Processes,
         (\E v \in 1..Len(copies) : Synchronize(p, v)) \/ (\E t \in GwTrees : Screen(p, t))
  PROVE  /\ Types' /\ Alone(p) /\ pc[p] = "idle" /\ pc'[p] = "sync" /\ job'[p].order = 0
         /\ UNCHANGED <<tables, backup>> /\ Meet(p)
<1> USE DEF history, count
<1>1. CASE \E v \in 1..Len(copies) : Synchronize(p, v)
  <2>1. PICK v \in 1..Len(copies) : Synchronize(p, v)
    BY <1>1
  <2> DEFINE j == [NoJob EXCEPT !.ver = v, !.tree = origin[v]]
  <2>2. /\ pc[p] = "idle" /\ pc' = [pc EXCEPT ![p] = "sync"] /\ Meet(p)
        /\ job' = [job EXCEPT ![p] = j]
        /\ UNCHANGED <<tables, copies, orders, dir, origin, backup>>
    BY <2>1 DEF Synchronize, Goto
  <2>3. v \in 0..Len(copies) /\ origin[v] \in DOMAIN Trees
    BY DEF Types, Versions
  <2>4. DOMAIN j = JobFields /\ j.ver = v /\ j.tree = origin[v] /\ j.order = 0 /\ j.todo = <<>>
    BY DEF NoJob, JobFields
  <2> HIDE DEF j
  <2> QED BY <2>2, <2>3, <2>4, TypesMeet
<1>2. CASE \E t \in GwTrees : Screen(p, t)
  <2>1. PICK t \in GwTrees : Screen(p, t)
    BY <1>2
  <2> DEFINE j == [NoJob EXCEPT !.tree = t]
  <2>2. /\ pc[p] = "idle" /\ pc' = [pc EXCEPT ![p] = "sync"] /\ Meet(p)
        /\ job' = [job EXCEPT ![p] = j]
        /\ UNCHANGED <<tables, copies, orders, dir, origin, backup>>
    BY <2>1 DEF Screen, Goto
  <2>3. 0 \in 0..Len(copies) /\ t \in DOMAIN Trees
    BY SynchroAssumption DEF Types, Versions
  <2>4. DOMAIN j = JobFields /\ j.ver = 0 /\ j.tree = t /\ j.order = 0 /\ j.todo = <<>>
    BY DEF NoJob, JobFields
  <2> HIDE DEF j
  <2> QED BY <2>2, <2>3, <2>4, TypesMeet
<1> QED BY <1>1, <1>2

(* Steps that are nobody's, and the removal of a version.                  *)
LEMMA OutsideSteps ==
  ASSUME Types,
         \/ \E p \in Processes, v \in 1..Len(copies) : Destroy(p, v)
         \/ \E t \in LdapTrees : Change(t)
         \/ \E t \in GwTrees : Order(t)
         \/ UNCHANGED vars
  PROVE  Types' /\ UNCHANGED <<tables, backup, mixed, pc, job>>
<1> USE DEF history, count, vars
<1>1. UNCHANGED <<tables, backup, mixed, pc, job, origin>>
  BY DEF Destroy, Change, Order
<1>2. copies' \in Seq(Seq(Row)) /\ Len(copies') = Len(copies)
  <2>1. CASE \E p \in Processes, v \in 1..Len(copies) : Destroy(p, v)
    <3>1. PICK v \in 1..Len(copies) : copies' = [copies EXCEPT ![v] = <<>>]
      BY <2>1 DEF Destroy
    <3>2. <<>> \in Seq(Row)
      OBVIOUS
    <3> QED BY <3>1, <3>2 DEF Types, Versions
  <2>2. CASE UNCHANGED copies
    BY <2>2 DEF Types, Versions
  <2> QED BY <2>1, <2>2 DEF Change, Order
<1>3. dir' \in DOMAIN Trees
  BY SynchroAssumption DEF Types, Versions, Destroy, Change, Order
<1>4. orders' \in Seq(OrderRow)
  <2>1. CASE UNCHANGED orders
    BY <2>1 DEF Types, Versions
  <2>2. CASE \E t \in GwTrees : Order(t)
    <3>1. PICK t \in GwTrees : orders' = Append(orders, [tree |-> t, state |-> "start"])
      BY <2>2 DEF Order
    <3>2. [tree |-> t, state |-> "start"] \in OrderRow
      BY SynchroAssumption DEF States, OrderRow
    <3> QED BY <3>1, <3>2 DEF Types, Versions
  <2> QED BY <2>1, <2>2 DEF Destroy, Change
<1>5. Versions'
  BY <1>1, <1>2, <1>3, <1>4 DEF Types, Versions
<1>6. \A p \in Processes : JobRow(job[p]) => JobRow(job[p])'
  BY <1>1, <1>2 DEF JobRow
<1>7. JobRows'
  BY <1>1, <1>6 DEF Types, JobRows
<1> QED BY <1>1, <1>5, <1>7 DEF Types, GroupRows, FullUserRows, tables

(* Who is at the tables before and after a step of p.                      *)
LEMMA AtTablesStep ==
  ASSUME Types, NEW p \in Processes, Alone(p)
  PROVE  /\ AtTables' \ {p} = AtTables \ {p}
         /\ p \in AtTables <=> pc[p] \notin {"idle", "copy"}
         /\ p \in AtTables' <=> pc'[p] \notin {"idle", "copy"}
  BY DEF Types, JobRows, Alone, AtTables, Busy

(* A step of p keeps Sharing, if it is not the one that comes to others.   *)
LEMMA SharingStep ==
  ASSUME Types, Sharing, NEW p \in Processes, Alone(p),
         \/ mixed' = mixed /\ (p \in AtTables' => p \in AtTables)
         \/ Meet(p) /\ p \notin AtTables
  PROVE  Sharing' /\ mixed \ {p} \subseteq mixed'
<1>1. AtTables' \ {p} = AtTables \ {p}
  BY AtTablesStep
<1>2. CASE mixed' = mixed /\ (p \in AtTables' => p \in AtTables)
  BY <1>1, <1>2 DEF Sharing
<1>3. CASE Meet(p) /\ p \notin AtTables
  BY <1>1, <1>3 DEF Sharing, Meet
<1> QED BY <1>2, <1>3

(* What the backup is compared with is in the tables and in p's own job.   *)
LEMMA PhaseStays ==
  ASSUME NEW p, UNCHANGED <<tables, backup>>, pc'[p] = pc[p], job'[p] = job[p], Phase(p)
  PROVE  Phase(p)'
  BY DEF Phase, Saved, Walked, WalkedApart, Ahead, Outdated, tables

(* A step of p at the tables happens while no unmixed process relies on    *)
(* them, and so leaves the others backed up.                               *)
LEMMA BackStep ==
  ASSUME BackInv, NEW p \in Processes, Types', Alone(p),
         \/ mixed' = mixed /\ (p \in AtTables' => p \in AtTables)
         \/ Meet(p) /\ p \notin AtTables,
         p \notin AtTables => UNCHANGED <<tables, backup>>,
         Backing(p)'
  PROVE  BackInv'
<1>1. Types /\ Sharing /\ \A q \in Processes : Backing(q)
  BY DEF BackInv
<1>2. Sharing' /\ mixed \ {p} \subseteq mixed'
  BY <1>1, SharingStep
<1>3. ASSUME NEW q \in Processes \ {p} PROVE Backing(q)'
  <2>1. pc'[q] = pc[q] /\ job'[q] = job[q] /\ (q \in mixed => q \in mixed')
    BY <1>2 DEF Alone
  <2>2. CASE UNCHANGED <<tables, backup>>
    BY <1>1, <2>1, <2>2, PhaseStays DEF Backing
  <2>3. CASE p \in AtTables /\ q \notin mixed
    <3>1. q \notin AtTables
      BY <1>1, <2>3 DEF Sharing
    <3>2. pc'[q] \in {"idle", "copy"}
      BY <2>1, <3>1 DEF AtTables, Busy
    <3> QED BY <3>2 DEF Backing, Phase
  <2> QED BY <2>1, <2>2, <2>3 DEF Backing
<1> QED BY <1>1, <1>2, <1>3 DEF BackInv

(* A process that is not between the backup and the end of the sweep has   *)
(* nothing to rely on.                                                     *)
LEMMA NoPhase ==
  ASSUME NEW p, pc'[p] \in {"idle", "copy", "backup"}
  PROVE  Backing(p)'
  BY DEF Backing, Phase

(* Reset: whatever is in the tables is in the backup.                      *)
LEMMA ResetBacked ==
  ASSUME BackInv, NEW p \in Processes, Reset(p)
  PROVE  Backing(p)'
<1>1. Types /\ Backing(p)
  BY DEF BackInv
<1>2. /\ Types' /\ SameJob(p) /\ pc[p] = "sync" /\ pc'[p] = "walk" /\ UNCHANGED <<backup, mixed>>
      /\ job'[p].todo = Below(WalkSource(p), "group", Root)
      /\ DOMAIN groups' = DOMAIN groups /\ \A g \in DOMAIN groups' : groups'[g].current = FALSE
      /\ DOMAIN users' = DOMAIN users /\ \A u \in DOMAIN users' : users'[u].in = users[u].in
  BY <1>1, ResetSteps
<1>3. SUFFICES ASSUME p \notin mixed, job[p].order # 0 PROVE Phase(p)'
  BY <1>2 DEF Backing, SameJob
<1>4. (\A u \in DOMAIN users : Saved(u)) /\ DOMAIN groups \subseteq DOMAIN backup.groups
  BY <1>1, <1>2, <1>3 DEF Backing, Phase
<1>5. \A u \in Outdated(users') : Saved(u)'
  BY <1>2, <1>4 DEF Outdated, Saved
<1>6. WalkedApart'
  BY <1>2, <1>4 DEF WalkedApart, Walked
<1>7. Ahead(job[p].todo)'
  <2> DEFINE todo == Below(WalkSource(p), "group", Root)
  <2>1. \A i \in DOMAIN todo : todo[i].kind = "group" /\ todo[i].above = Root
    BY <1>1, SourceRows, BelowRows
  <2>2. Root \notin Outdated(groups')
    BY <1>2, SynchroAssumption DEF Types, GroupRows, Outdated
  <2> HIDE DEF todo
  <2>3. job'[p].todo = todo
    BY <1>2 DEF todo
  <2> QED BY <2>1, <2>2, <2>3 DEF Ahead
<1> QED BY <1>2, <1>5, <1>6, <1>7 DEF Phase

(* The list of a walk, after a step that makes no more groups outdated.    *)
LEMMA AheadStays ==
  ASSUME NEW p, job[p].todo \in Seq(Item), job[p].todo # <<>>, Ahead(job[p].todo),
         Outdated(groups') \subseteq Outdated(groups), NEW rows \in Seq(Row),
         \/ job'[p].todo = Tail(job[p].todo)
         \/ /\ job'[p].todo = Onwards(p, rows)
            /\ Head(job[p].todo).kind = "group" => Head(job[p].todo).code \notin Outdated(groups')
  PROVE  Ahead(job[p].todo)'
<1>1. CASE job'[p].todo = Tail(job[p].todo)
  <2> DEFINE rest == Tail(job[p].todo)
  <2>1. \A i \in DOMAIN rest : i + 1 \in DOMAIN job[p].todo /\ rest[i] = job[p].todo[i + 1]
    OBVIOUS
  <2> HIDE DEF rest
  <2>2. job'[p].todo = rest
    BY <1>1 DEF rest
  <2> QED BY <2>1, <2>2 DEF Ahead
<1>2. CASE /\ job'[p].todo = Onwards(p, rows)
           /\ Head(job[p].todo).kind = "group" => Head(job[p].todo).code \notin Outdated(groups')
  <2> DEFINE next == job'[p].todo
             r == Head(job[p].todo)
  <2>1. \A i \in DOMAIN next :
              \/ \E k \in DOMAIN job[p].todo : next[i] = job[p].todo[k]
              \/ next[i].kind = "user"
              \/ r.kind = "group" /\ next[i].kind = "next" /\ next[i].code = r.code
              \/ r.kind = "next" /\ next[i].kind = "group" /\ next[i].above = r.code
    BY <1>2, OnwardsRows
  <2>2. 1 \in DOMAIN job[p].todo /\ r = job[p].todo[1]
    OBVIOUS
  <2>3. r.kind = "next" => r.code \notin Outdated(groups)
    BY <2>2 DEF Ahead
  <2>4. r.kind = "group" => r.code \notin Outdated(groups')
    BY <1>2
  <2> HIDE DEF r
  <2>5. ASSUME NEW i \in DOMAIN next
        PROVE  /\ next[i].kind = "group" => next[i].above \notin Outdated(groups')
               /\ next[i].kind = "next" => next[i].code \notin Outdated(groups')
    BY <2>1, <2>3, <2>4, <2>5 DEF Ahead
  <2> QED BY <2>5 DEF Ahead
<1> QED BY <1>1, <1>2

(* Saving a row: it is not below a group that may go.                      *)
LEMMA SaveGroupBacked ==
  ASSUME BackInv, NEW p \in Processes, SaveGroup(p)
  PROVE  Backing(p)'
<1> DEFINE r == Head(job[p].todo)
<1>1. Types /\ Backing(p)
  BY DEF BackInv
<1>2. /\ Types' /\ SameJob(p) /\ pc[p] = "walk" /\ pc'[p] = "walk"
      /\ UNCHANGED <<backup, mixed, users>>
      /\ job[p].todo # <<>> /\ r.kind = "group"
      /\ job'[p].todo = Onwards(p, WalkSource(p))
      /\ \/ groups' = groups /\ r.code \in DOMAIN groups /\ ~groups[r.code].ldap
         \/ /\ DOMAIN groups' = DOMAIN groups \cup {r.code}
            /\ \A g \in DOMAIN groups \ {r.code} : groups'[g] = groups[g]
            /\ groups'[r.code].ldap /\ groups'[r.code].current
            /\ groups'[r.code].parent \in {r.above, Lost}
  BY <1>1, SaveGroupSteps
<1>3. SUFFICES ASSUME p \notin mixed, job[p].order # 0 PROVE Phase(p)'
  BY <1>2 DEF Backing, SameJob
<1>4. Ahead(job[p].todo) /\ (\A u \in Outdated(users) : Saved(u)) /\ WalkedApart
  BY <1>1, <1>2, <1>3 DEF Backing, Phase
<1>5. 1 \in DOMAIN job[p].todo /\ r = job[p].todo[1]
  BY <1>1, <1>2, JobOf
<1>6. r.above \notin Outdated(groups)
  BY <1>2, <1>4, <1>5 DEF Ahead
<1>7. Lost \notin DOMAIN groups /\ WalkSource(p) \in Seq(Row)
  BY <1>1, SynchroAssumption, SourceRows DEF Types, GroupRows
<1> HIDE DEF r
<1>8. Outdated(groups') \subseteq Outdated(groups) /\ r.code \notin Outdated(groups')
  BY <1>2 DEF Outdated
<1>9. WalkedApart'
  <2>1. CASE groups' = groups
    BY <1>2, <1>4, <2>1 DEF WalkedApart, Walked, Outdated
  <2>2. CASE groups' # groups
    <3>1. /\ DOMAIN groups' = DOMAIN groups \cup {r.code}
          /\ \A g \in DOMAIN groups \ {r.code} : groups'[g] = groups[g]
          /\ groups'[r.code].ldap /\ groups'[r.code].current
          /\ groups'[r.code].parent \in {r.above, Lost}
      BY <1>2, <2>2
    <3>2. Walked' \subseteq Walked \cup {r.code} /\ Walked \cup {r.code} \subseteq Walked'
      BY <3>1 DEF Walked
    <3>3. DOMAIN groups' \ DOMAIN backup'.groups \subseteq Walked'
      BY <1>2, <1>4, <3>1, <3>2 DEF WalkedApart
    <3>4. ASSUME NEW g \in Walked' PROVE groups'[g].parent \notin Outdated(groups')
      <4>1. CASE g = r.code
        <5>1. Lost \notin Outdated(groups)
          BY <1>7 DEF Outdated
        <5> QED BY <1>6, <1>8, <3>1, <4>1, <5>1
      <4>2. CASE g # r.code
        <5>1. g \in Walked /\ groups'[g] = groups[g]
          BY <3>1, <3>2, <4>2 DEF Walked
        <5> QED BY <1>4, <1>8, <5>1 DEF WalkedApart
      <4> QED BY <4>1, <4>2
    <3> QED BY <3>3, <3>4 DEF WalkedApart
  <2> QED BY <2>1, <2>2
<1>10. Ahead(job[p].todo)'
  BY <1>1, <1>2, <1>4, <1>7, <1>8, JobOf, AheadStays DEF r
<1>11. \A u \in Outdated(users') : Saved(u)'
  BY <1>2, <1>4 DEF Saved, Outdated
<1> QED BY <1>2, <1>9, <1>10, <1>11 DEF Phase

(* The other steps of the walk.                                            *)
LEMMA WalkBacked ==
  ASSUME BackInv, NEW p \in Processes, SaveUser(p) \/ NextGroups(p) \/ SaveRefused(p)
  PROVE  Backing(p)'
<1>1. Types /\ Backing(p)
  BY DEF BackInv
<1>2. /\ SameJob(p) /\ pc[p] = "walk" /\ pc'[p] = "walk" /\ UNCHANGED <<backup, mixed, groups>>
      /\ job[p].todo # <<>>
      /\ \/ job'[p].todo = Tail(job[p].todo)
         \/ Head(job[p].todo).kind = "next" /\ job'[p].todo = Onwards(p, WalkSource(p))
      /\ \A u \in Outdated(users') : u \in Outdated(users) /\ users'[u] = users[u]
  <2>1. CASE SaveUser(p)
    BY <1>1, <2>1, SaveUserSteps
  <2>2. CASE NextGroups(p) \/ SaveRefused(p)
    BY <1>1, <2>2, WalkOnSteps DEF tables
  <2> QED BY <2>1, <2>2
<1>3. SUFFICES ASSUME p \notin mixed, job[p].order # 0 PROVE Phase(p)'
  BY <1>2 DEF Backing, SameJob
<1>4. Ahead(job[p].todo) /\ (\A u \in Outdated(users) : Saved(u)) /\ WalkedApart
  BY <1>1, <1>2, <1>3 DEF Backing, Phase
<1>5. Ahead(job[p].todo)'
  BY <1>1, <1>2, <1>4, JobOf, SourceRows, AheadStays
<1>6. WalkedApart'
  BY <1>2, <1>4 DEF WalkedApart, Walked, Outdated
<1>7. \A u \in Outdated(users') : Saved(u)'
  BY <1>2, <1>4 DEF Saved
<1> QED BY <1>2, <1>5, <1>6, <1>7 DEF Phase

(* The sweep: what is left of the lists was outdated when they were read,  *)
(* and a group goes with all that is below it.                             *)
LEMMA SweepBacked ==
  ASSUME BackInv, NEW p \in Processes,
         EndWalk(p) \/ EndUsers(p) \/ DestroyUser(p) \/ DestroyGroup(p)
  PROVE  Backing(p)'
<1>1. Types /\ Backing(p)
  BY DEF BackInv
<1>2. CASE EndWalk(p) \/ EndUsers(p)
  <2>1. /\ SameJob(p) /\ UNCHANGED <<backup, mixed, tables>>
        /\ \/ pc[p] = "walk" /\ pc'[p] = "users" /\ job'[p].doomed = Outdated(users)
           \/ pc[p] = "users" /\ pc'[p] = "groups" /\ job'[p].doomed \subseteq Outdated(groups)
    BY <1>1, <1>2, SweepSteps
  <2>2. SUFFICES ASSUME p \notin mixed, job[p].order # 0 PROVE Phase(p)'
    BY <2>1 DEF Backing, SameJob
  <2>3. WalkedApart /\ (pc[p] = "walk" => \A u \in Outdated(users) : Saved(u))
    BY <1>1, <2>1, <2>2 DEF Backing, Phase
  <2>4. WalkedApart' /\ Outdated(groups') = Outdated(groups)
    BY <2>1, <2>3 DEF WalkedApart, Walked, Outdated, tables
  <2>5. \A u : Saved(u) => Saved(u)'
    BY <2>1 DEF Saved, tables
  <2> QED BY <2>1, <2>3, <2>4, <2>5 DEF Phase
<1>3. CASE DestroyUser(p)
  <2>1. /\ SameJob(p) /\ pc[p] = "users" /\ pc'[p] = "users" /\ UNCHANGED <<backup, mixed, groups>>
        /\ job'[p].doomed \subseteq job[p].doomed /\ DOMAIN users' \subseteq DOMAIN users
        /\ \A u \in DOMAIN users' : users'[u] = users[u]
    BY <1>1, <1>3, DestroyUserSteps
  <2>2. SUFFICES ASSUME p \notin mixed, job[p].order # 0 PROVE Phase(p)'
    BY <2>1 DEF Backing, SameJob
  <2>3. WalkedApart /\ \A u \in job[p].doomed \cap DOMAIN users : Saved(u)
    BY <1>1, <2>1, <2>2 DEF Backing, Phase
  <2>4. WalkedApart'
    BY <2>1, <2>3 DEF WalkedApart, Walked, Outdated
  <2>5. \A u \in job'[p].doomed \cap DOMAIN users' : Saved(u)'
    BY <2>1, <2>3 DEF Saved
  <2> QED BY <2>1, <2>4, <2>5 DEF Phase
<1>4. CASE DestroyGroup(p)
  <2>1. /\ SameJob(p) /\ pc[p] = "groups" /\ pc'[p] = "groups" /\ UNCHANGED <<backup, mixed>>
        /\ job'[p].doomed \subseteq job[p].doomed /\ DOMAIN groups' \subseteq DOMAIN groups
        /\ \A g \in DOMAIN groups' : groups'[g] = groups[g]
    BY <1>1, <1>4, DestroyGroupSteps
  <2>2. SUFFICES ASSUME p \notin mixed, job[p].order # 0 PROVE Phase(p)'
    BY <2>1 DEF Backing, SameJob
  <2>3. WalkedApart /\ job[p].doomed \cap DOMAIN groups \subseteq Outdated(groups)
    BY <1>1, <2>1, <2>2 DEF Backing, Phase
  <2>4. /\ Walked' = Walked \cap DOMAIN groups'
        /\ Outdated(groups') = Outdated(groups) \cap DOMAIN groups'
    BY <2>1 DEF Walked, Outdated
  <2>5. WalkedApart'
    BY <2>1, <2>3, <2>4 DEF WalkedApart
  <2> QED BY <2>1, <2>3, <2>4, <2>5 DEF Phase
<1> QED BY <1>2, <1>3, <1>4

(* Backup: what is in the tables is now in the backup.                     *)
LEMMA BackupBacked ==
  ASSUME BackInv, NEW p \in Processes, Backup(p)
  PROVE  Backing(p)'
<1>1. /\ UNCHANGED <<groups, users>> /\ pc' = [pc EXCEPT ![p] = "sync"]
      /\ backup' = [users |-> users, groups |-> groups]
  BY DEF Backup, Goto, tables
<1>2. pc'[p] = "sync"
  BY <1>1, GotoAlone DEF BackInv
<1>3. (\A u \in DOMAIN users' : Saved(u)') /\ DOMAIN groups' \subseteq DOMAIN backup'.groups
  BY <1>1 DEF Saved
<1> QED BY <1>2, <1>3 DEF Backing, Phase

(* Who ends a copy ends, or comes to the tables.                           *)
LEMMA EndCopySteps ==
  ASSUME Types, NEW p \in Processes, EndCopy(p) \/ EndCopyOrdered(p)
  PROVE  /\ UNCHANGED <<tables, backup>> /\ pc[p] = "copy"
         /\ \/ pc'[p] = "idle" /\ UNCHANGED mixed
            \/ pc'[p] \in {"sync", "backup"} /\ Meet(p)
         /\ pc'[p] = "sync" => job'[p].order = 0
<1>1. UNCHANGED <<tables, backup>> /\ pc[p] = "copy"
  BY DEF EndCopy, EndCopyOrdered
<1>2. CASE Finish(p) /\ UNCHANGED mixed
  <2>1. pc'[p] = "idle"
    BY <1>2, GotoAlone DEF Finish, Goto
  <2> QED BY <1>1, <1>2, <2>1
<1>3. CASE EndCopy(p) /\ ~(Finish(p) /\ UNCHANGED mixed)
  <2>1. /\ pc' = [pc EXCEPT ![p] = "sync"] /\ Meet(p) /\ job' = [job EXCEPT ![p].bad = FALSE]
        /\ job[p].then # "backup"
    BY <1>3 DEF EndCopy, Goto
  <2>2. pc'[p] = "sync" /\ SameJob(p)
    BY <2>1, GotoAlone, JobUpdateDoomed
  <2>3. job[p].order = 0
    BY <2>1, JobOf DEF JobRow
  <2> QED BY <1>1, <2>1, <2>2, <2>3 DEF SameJob
<1>4. CASE EndCopyOrdered(p) /\ ~(Finish(p) /\ UNCHANGED mixed)
  <2>1. pc' = [pc EXCEPT ![p] = "backup"] /\ Meet(p)
    BY <1>4 DEF EndCopyOrdered, Goto
  <2>2. pc'[p] = "backup"
    BY <2>1, GotoAlone
  <2> QED BY <1>1, <2>1, <2>2
<1> QED BY <1>2, <1>3, <1>4

(* The initial states satisfy the invariant.                               *)
LEMMA BackInit == Init => BackInv
<1> SUFFICES ASSUME Init PROVE BackInv
  OBVIOUS
<1>1. Types
  BY TypesInit
<1>2. \A p \in Processes : pc[p] = "idle"
  BY DEF Init
<1>3. Sharing /\ \A p \in Processes : Backing(p)
  BY <1>2 DEF Sharing, AtTables, Busy, Backing, Phase
<1> QED BY <1>1, <1>3 DEF BackInv

(* Every step keeps what the sweep relies on.                              *)
LEMMA BackNext == BackInv /\ [Next]_vars => BackInv'
<1> SUFFICES ASSUME BackInv, [Next]_vars PROVE BackInv'
  OBVIOUS
<1>0. Types
  BY DEF BackInv
<1>1. ASSUME NEW p \in Processes, Run(p) \/ Create(p) \/ Check(p) PROVE BackInv'
  <2>1. Types' /\ Alone(p) /\ pc'[p] = "copy" /\ UNCHANGED <<tables, backup, mixed>>
    BY <1>0, <1>1, BeginSteps
  <2> QED BY <1>0, <2>1, AtTablesStep, NoPhase, BackStep
<1>2. ASSUME NEW p \in Processes,
             (\E v \in 1..Len(copies) : Synchronize(p, v)) \/ (\E t \in GwTrees : Screen(p, t))
      PROVE  BackInv'
  <2>1. /\ Types' /\ Alone(p) /\ pc[p] = "idle" /\ pc'[p] = "sync" /\ job'[p].order = 0
        /\ UNCHANGED <<tables, backup>> /\ Meet(p)
    BY <1>0, <1>2, MeetSteps
  <2>2. Backing(p)'
    BY <2>1 DEF Backing
  <2> QED BY <1>0, <2>1, <2>2, AtTablesStep, BackStep
<1>3. ASSUME NEW p \in Processes, CopyRow(p) \/ CopyRefused(p) PROVE BackInv'
  <2>1. Types' /\ Alone(p)
    BY <1>0, <1>3, TypesCopy
  <2>2. pc[p] = "copy" /\ UNCHANGED <<tables, backup, mixed, pc>>
    BY <1>3 DEF CopyRow, CopyRefused
  <2> QED BY <1>0, <2>1, <2>2, AtTablesStep, NoPhase, BackStep
<1>4. ASSUME NEW p \in Processes, EndCopy(p) \/ EndCopyOrdered(p) PROVE BackInv'
  <2>1. Types' /\ Alone(p)
    BY <1>0, <1>4, TypesCopy
  <2>2. /\ UNCHANGED <<tables, backup>> /\ pc[p] = "copy"
        /\ \/ pc'[p] = "idle" /\ UNCHANGED mixed
           \/ pc'[p] \in {"sync", "backup"} /\ Meet(p)
        /\ pc'[p] = "sync" => job'[p].order = 0
    BY <1>0, <1>4, EndCopySteps
  <2>3. Backing(p)'
    BY <2>2, NoPhase DEF Backing
  <2> QED BY <1>0, <2>1, <2>2, <2>3, AtTablesStep, BackStep
<1>5. ASSUME NEW p \in Processes, Backup(p) PROVE BackInv'
  <2>1. Types' /\ Alone(p)
    BY <1>0, <1>5, TypesCopy
  <2>2. pc[p] = "backup" /\ UNCHANGED mixed
    BY <1>5 DEF Backup
  <2> QED BY <1>0, <1>5, <2>1, <2>2, BackupBacked, AtTablesStep, BackStep
<1>6. ASSUME NEW p \in Processes, BackupFails(p) PROVE BackInv'
  <2>1. Types' /\ Alone(p)
    BY <1>0, <1>6, TypesCopy
  <2>2. pc[p] = "backup" /\ pc' = [pc EXCEPT ![p] = "idle"] /\ UNCHANGED mixed
    BY <1>6 DEF BackupFails, Finish, Goto
  <2>3. pc'[p] = "idle"
    BY <1>0, <2>2, GotoAlone
  <2> QED BY <1>0, <2>1, <2>2, <2>3, NoPhase, AtTablesStep, BackStep
<1>7. ASSUME NEW p \in Processes, Reset(p) PROVE BackInv'
  <2>1. Types' /\ Alone(p) /\ pc[p] = "sync" /\ UNCHANGED mixed
    BY <1>0, <1>7, ResetSteps
  <2> QED BY <1>0, <1>7, <2>1, ResetBacked, AtTablesStep, BackStep
<1>8. ASSUME NEW p \in Processes, SaveGroup(p) PROVE BackInv'
  <2>1. Types' /\ Alone(p) /\ pc[p] = "walk" /\ UNCHANGED mixed
    BY <1>0, <1>8, SaveGroupSteps
  <2> QED BY <1>0, <1>8, <2>1, SaveGroupBacked, AtTablesStep, BackStep
<1>9. ASSUME NEW p \in Processes, SaveUser(p) \/ NextGroups(p) \/ SaveRefused(p) PROVE BackInv'
  <2>1. Types' /\ Alone(p) /\ pc[p] = "walk" /\ UNCHANGED mixed
    BY <1>0, <1>9, SaveUserSteps, WalkOnSteps
  <2> QED BY <1>0, <1>9, <2>1, WalkBacked, AtTablesStep, BackStep
<1>10. ASSUME NEW p \in Processes, EndWalk(p) \/ EndUsers(p) \/ DestroyUser(p) \/ DestroyGroup(p)
       PROVE  BackInv'
  <2>1. Types' /\ Alone(p) /\ pc[p] \in {"walk", "users", "groups"} /\ UNCHANGED mixed
    BY <1>0, <1>10, SweepSteps, DestroyUserSteps, DestroyGroupSteps
  <2> QED BY <1>0, <1>10, <2>1, SweepBacked, AtTablesStep, BackStep
<1>11. ASSUME NEW p \in Processes, EndSync(p) \/ Kill(p) PROVE BackInv'
  <2>1. Types' /\ Alone(p) /\ pc'[p] = "idle" /\ UNCHANGED <<tables, backup, mixed>>
    BY <1>0, <1>11, EndSteps
  <2> QED BY <1>0, <2>1, NoPhase, AtTablesStep, BackStep
<1>12. ASSUME \/ \E p \in Processes, v \in 1..Len(copies) : Destroy(p, v)
              \/ \E t \in LdapTrees : Change(t)
              \/ \E t \in GwTrees : Order(t)
              \/ UNCHANGED vars
       PROVE  BackInv'
  <2>1. Types' /\ UNCHANGED <<tables, backup, mixed, pc, job>>
    BY <1>0, <1>12, OutsideSteps
  <2>2. Sharing'
    BY <2>1 DEF BackInv, Sharing, AtTables, Busy
  <2>3. \A p \in Processes : Backing(p)'
    BY <2>1, PhaseStays DEF BackInv, Backing
  <2> QED BY <2>1, <2>2, <2>3 DEF BackInv
<1> QED
  BY <1>1, <1>2, <1>3, <1>4, <1>5, <1>6, <1>7, <1>8, <1>9, <1>10, <1>11, <1>12
  DEF Next, Copying, Walking, Sweeping

(* What BackedUp says of the steps of one process.                         *)
BackedUpStep(p) ==
  (pc[p] \in {"users", "groups"} /\ job[p].order # 0 /\ p \notin mixed) =>
     /\ \A u \in DOMAIN users \ DOMAIN users' :
          u \in DOMAIN backup.users /\ backup.users[u].in = users[u].in
     /\ \A g \in DOMAIN groups \ DOMAIN groups' :
          \/ g \in DOMAIN backup.groups
          \/ \E h \in Own(groups, FALSE) \ DOMAIN groups' : g \in Subtree(h)

(* A group of the walk goes only along with one of the program's own that  *)
(* is above it.                                                            *)
LEMMA SubtreeBacked ==
  ASSUME GroupRows, WalkedApart, NEW x, {x} \cap DOMAIN groups \subseteq Outdated(groups), NEW g \in Subtree(x)
  PROVE  \/ g \in DOMAIN backup.groups
         \/ \E h \in Own(groups, FALSE) \cap Subtree(x) : g \in Subtree(h)
<1> DEFINE D == Subtree(x)
           Under(n) == \E h \in Own(groups, FALSE) \cap D : n \in Subtree(h)
           S == {n \in D : n \notin Walked \/ Under(n)}
<1>1. D \subseteq DOMAIN groups /\ Closed(D) /\ {x} \cap DOMAIN groups \subseteq D
  BY SubtreeClosed
<1> HIDE DEF D
<1>2. {x} \cap DOMAIN groups \subseteq S
  BY <1>1 DEF Outdated, Walked
<1>3. ASSUME NEW m \in DOMAIN groups, groups[m].parent \in S PROVE m \in S
  <2> DEFINE n == groups[m].parent
  <2>1. m \in D /\ n \in D /\ n \in DOMAIN groups
    BY <1>1, <1>3 DEF Closed
  <2>2. CASE m \notin Walked
    BY <2>1, <2>2
  <2>3. CASE m \in Walked
    <3>1. n \notin Outdated(groups)
      BY <2>3 DEF WalkedApart
    <3>2. CASE n \in Walked
      <4>1. PICK h \in Own(groups, FALSE) \cap D : n \in Subtree(h)
        BY <1>3, <3>2
      <4>2. m \in Subtree(h)
        BY <2>1, <4>1, SubtreeClosed DEF Closed
      <4> QED BY <2>1, <4>2
    <3>3. CASE n \notin Walked
      <4>1. groups[n].ldap = FALSE
        BY <2>1, <3>1, <3>3 DEF GroupRows, Outdated, Walked
      <4>2. n \in Own(groups, FALSE) \cap D
        BY <2>1, <4>1 DEF Own
      <4>3. m \in Subtree(n)
        BY <2>1, SubtreeClosed DEF Closed
      <4> QED BY <2>1, <4>2, <4>3
    <3> QED BY <3>2, <3>3
  <2> QED BY <2>2, <2>3
<1>4. Closed(S) /\ S \in SUBSET DOMAIN groups
  BY <1>1, <1>3 DEF Closed
<1>5. g \in S
  <2> HIDE DEF S
  <2> QED BY <1>2, <1>4, SubtreeLeast
<1> QED BY <1>1, <1>5 DEF WalkedApart, D

(* Only a process at the tables changes them.                              *)
LEMMA TablesStep ==
  ASSUME Types, [Next]_vars, ~UNCHANGED tables
  PROVE  \E q \in AtTables : Reset(q) \/ SaveGroup(q) \/ SaveUser(q) \/ DestroyUser(q) \/ DestroyGroup(q)
<1>1. ASSUME NEW q \in Processes,
             \/ Run(q) \/ Create(q) \/ Check(q) \/ CopyRow(q) \/ CopyRefused(q)
             \/ EndCopy(q) \/ EndCopyOrdered(q) \/ Backup(q) \/ BackupFails(q)
             \/ \E v \in 1..Len(copies) : Synchronize(q, v) \/ Destroy(q, v)
             \/ \E t \in GwTrees : Screen(q, t)
             \/ NextGroups(q) \/ SaveRefused(q) \/ EndWalk(q) \/ EndUsers(q) \/ EndSync(q) \/ Kill(q)
      PROVE  UNCHANGED tables
  <2>1. CASE Run(q) \/ Create(q) \/ Check(q)
    BY <2>1, BeginSteps
  <2>2. CASE \/ CopyRow(q) \/ CopyRefused(q) \/ EndCopy(q) \/ EndCopyOrdered(q) \/ Backup(q) \/ BackupFails(q)
             \/ NextGroups(q) \/ SaveRefused(q) \/ EndWalk(q) \/ EndUsers(q) \/ EndSync(q) \/ Kill(q)
    BY <2>2 DEF CopyRow, CopyRefused, EndCopy, EndCopyOrdered, Backup, BackupFails,
                NextGroups, SaveRefused, EndWalk, EndUsers, EndSync, Kill
  <2>3. CASE \/ \E v \in 1..Len(copies) : Synchronize(q, v) \/ Destroy(q, v)
             \/ \E t \in GwTrees : Screen(q, t)
    BY <2>3 DEF Synchronize, Destroy, Screen
  <2> QED BY <1>1, <2>1, <2>2, <2>3
<1>2. (\E t \in LdapTrees : Change(t)) \/ (\E t \in GwTrees : Order(t)) \/ UNCHANGED vars => UNCHANGED tables
  BY DEF Change, Order, vars
<1>3. PICK q \in Processes : Reset(q) \/ SaveGroup(q) \/ SaveUser(q) \/ DestroyUser(q) \/ DestroyGroup(q)
  BY <1>1, <1>2 DEF Next, Copying, Walking, Sweeping
<1>4. q \in AtTables
  BY <1>3 DEF AtTables, Busy, Reset, SaveGroup, SaveUser, DestroyUser, DestroyGroup
<1> QED BY <1>3, <1>4

(* A process that is alone at the tables when it sweeps destroys only what *)
(* is backed up.                                                           *)
LEMMA SweepStep ==
  ASSUME BackInv, [Next]_vars, NEW p \in Processes
  PROVE  BackedUpStep(p)
<1> SUFFICES ASSUME pc[p] \in {"users", "groups"}, job[p].order # 0, p \notin mixed
             PROVE  /\ \A u \in DOMAIN users \ DOMAIN users' : Saved(u)
                    /\ \A g \in DOMAIN groups \ DOMAIN groups' :
                         \/ g \in DOMAIN backup.groups
                         \/ \E h \in Own(groups, FALSE) \ DOMAIN groups' : g \in Subtree(h)
  BY DEF BackedUpStep, Saved
<1>1. Types /\ Sharing /\ Phase(p)
  BY DEF BackInv, Backing
<1>2. AtTables = {p}
  BY <1>1 DEF Sharing, AtTables, Busy
<1>3. CASE UNCHANGED tables
  BY <1>3 DEF tables
<1>4. CASE DestroyUser(p)
  <2>1. PICK u \in job[p].doomed : DOMAIN users' = DOMAIN users \ {u}
    BY <1>1, <1>4, DestroyUserSteps
  <2>2. pc[p] = "users" /\ UNCHANGED groups
    BY <1>1, <1>4, DestroyUserSteps
  <2> QED BY <1>1, <2>1, <2>2 DEF Phase
<1>5. CASE DestroyGroup(p)
  <2>1. PICK g \in job[p].doomed : DOMAIN groups' = DOMAIN groups \ Subtree(g)
    BY <1>1, <1>5, DestroyGroupSteps
  <2>2. pc[p] = "groups" /\ DOMAIN users' = DOMAIN users
    BY <1>1, <1>5, DestroyGroupSteps
  <2>3. GroupRows /\ WalkedApart /\ {g} \cap DOMAIN groups \subseteq Outdated(groups)
    BY <1>1, <2>2 DEF Types, Phase
  <2>4. \A h \in Subtree(g) : \/ h \in DOMAIN backup.groups
                              \/ \E o \in Own(groups, FALSE) \cap Subtree(g) : h \in Subtree(o)
    BY <2>3, SubtreeBacked
  <2> QED BY <2>1, <2>2, <2>4
<1>6. CASE ~UNCHANGED tables
  <2>1. PICK q \in AtTables : Reset(q) \/ SaveGroup(q) \/ SaveUser(q) \/ DestroyUser(q) \/ DestroyGroup(q)
    BY <1>1, <1>6, TablesStep
  <2>2. q = p
    BY <1>2, <2>1
  <2> QED BY <1>4, <1>5, <2>1, <2>2 DEF Reset, SaveGroup, SaveUser
<1> QED BY <1>3, <1>6

(* Whatever other processes do, the synchronisation that Joruri Gw orders, *)
(* when it has the tables for itself, destroys no user and no group that   *)
(* is not in the backup tables, but for groups below one of the program's  *)
(* own that goes with the group above it (BackedUp).                       *)
THEOREM SweepsOnlyBackedUp == Spec => BackedUp
<1>1. BackInv /\ [Next]_vars => \A p \in Processes : BackedUpStep(p)
  BY SweepStep
<1>2. BackInv /\ [Next]_vars => [\A p \in Processes : BackedUpStep(p)]_vars
  BY <1>1
<1>3. Spec => [][\A p \in Processes : BackedUpStep(p)]_vars
  BY <1>2, BackInit, BackNext, PTL DEF Spec
<1> QED BY <1>3 DEF BackedUp, BackedUpStep
---------------------------------------------------------------------------
(* A synchronisation that nothing disturbs spares what it was given.       *)

(* A walk over the rows T that has been at the rows S and has todo on its  *)
(* list: what is below the rows of S is in S, on the list, or below a group*)
(* whose mark is on the list.                                              *)
Walks(S, todo, T) ==
  /\ S \subseteq T
  /\ \A r \in T :
       (r.kind = "group" /\ r.above = Root) \/ (\E g \in S : g.kind = "group" /\ g.code = r.above) =>
         \/ r \in S \/ r \in Range(todo)
         \/ r.kind = "group" /\ \E n \in Range(todo) : n.kind = "next" /\ n.code = r.above
  /\ \A x \in Range(todo) :
       IF x.kind = "next" THEN \E g \in T : g.kind = "group" /\ g.code = x.code ELSE x \in T

Rows(tree) == Range(Trees[tree])
(* Versions that hold all their tree does, when they are copied.           *)
Fine(v) == v \notin cut /\ v \notin short
JobTrees == \A p \in Processes : job[p].ver # 0 => job[p].tree = origin[job[p].ver]
(* Nobody is copying into a version, ...                                   *)
Copied(v) == \A q \in Processes : pc[q] = "copy" => job[q].ver # v
(* ... and no two copies are made into one.                                *)
OneCopier == /\ \A p \in Processes : pc[p] = "copy" => job[p].ver # 0
             /\ \A p, q \in Processes :
                  pc[p] = "copy" /\ pc[q] = "copy" /\ job[p].ver = job[q].ver => p = q
CopiesWhole == \A v \in 1..Len(copies) :
                 Fine(v) /\ Copied(v) => Range(copies[v]) = Rows(origin[v])
CopyPhase(p) ==
  pc[p] = "copy" =>
    /\ job[p].ver \in short => job[p].bad
    /\ Fine(job[p].ver) => /\ Walks(Range(copies[job[p].ver]), job[p].todo, Rows(job[p].tree))
                           /\ job[p].order = 0 => dir = job[p].tree
PastCopy(p) ==
  pc[p] \notin {"idle", "copy"} /\ job[p].ver # 0 /\ job[p].ver \notin cut =>
    /\ Copied(job[p].ver)
    /\ job[p].order # 0 => job[p].ver \notin short
CopyInv == /\ short \subseteq 1..Len(copies)
           /\ JobTrees /\ OneCopier /\ CopiesWhole
           /\ \A p \in Processes : CopyPhase(p) /\ PastCopy(p)

(* No group has become the program's own.                                  *)
LocalStay == Own(groups, FALSE) \subseteq Own(FirstGroups, FALSE)
(* The users and groups of the rows S are not going to be swept; the groups*)
(* hang below the root, below others of the tree, or nowhere.              *)
UsersMarked(S)  == \A r \in S : r.kind = "user" => r.code \notin Outdated(users)
GroupsMarked(S) == \A r \in S : r.kind = "group" => r.code \notin Outdated(groups)
Hung(S, tree) == \A r \in S :
                   r.kind = "group" /\ r.code \in DOMAIN groups /\ groups[r.code].ldap =>
                     groups[r.code].parent \in Listed("group", tree) \cup {Root, Lost}
Sparing(p) ==
  LET t == job[p].tree IN
  Clean(p) =>
    /\ pc[p] = "walk" => \E S \in SUBSET Rows(t) : /\ Walks(S, job[p].todo, Rows(t))
                                                   /\ UsersMarked(S) /\ GroupsMarked(S) /\ Hung(S, t)
    /\ pc[p] = "users" => /\ job[p].doomed \cap Listed("user", t) = {}
                          /\ GroupsMarked(Rows(t)) /\ Hung(Rows(t), t)
    /\ pc[p] = "groups" => /\ job[p].doomed \cap Listed("group", t) = {}
                           /\ Hung(Rows(t), t)
SpareInv == LocalStay /\ \A p \in Processes : Sparing(p)

(* A list is its head and its tail.                                        *)
LEMMA HeadTail ==
  ASSUME NEW S, NEW s \in Seq(S), s # <<>>
  PROVE  Head(s) \in S /\ Tail(s) \in Seq(S) /\ Range(s) = {Head(s)} \cup Range(Tail(s))
<1>1. /\ Head(s) \in S /\ Tail(s) \in Seq(S) /\ Len(s) \in Nat \ {0} /\ Head(s) = s[1]
      /\ DOMAIN s = 1..Len(s) /\ DOMAIN Tail(s) = 1..(Len(s) - 1)
      /\ \A i \in 1..(Len(s) - 1) : Tail(s)[i] = s[i + 1]
  OBVIOUS
<1>2. \A i \in 1..Len(s) : i = 1 \/ i - 1 \in 1..(Len(s) - 1)
  BY <1>1
<1>3. \A i \in 1..Len(s) : s[i] = Head(s) \/ s[i] \in Range(Tail(s))
  <2>1. \A i \in 1..Len(s) : i - 1 \in 1..(Len(s) - 1) => s[i] = Tail(s)[i - 1]
    BY <1>1
  <2> QED BY <1>1, <1>2, <2>1 DEF Range
<1>4. \A i \in DOMAIN Tail(s) : Tail(s)[i] \in Range(s)
  BY <1>1 DEF Range
<1>5. Head(s) \in Range(s)
  BY <1>1 DEF Range
<1> QED BY <1>1, <1>3, <1>4, <1>5 DEF Range

(* The rows right below a row.                                             *)
Lower(rows, kind, code) == {x \in Range(rows) : x.kind = kind /\ x.above = code}

Mark(r) == [r EXCEPT !.kind = "next"]
(* What a walk lists for a group: its users, and its mark.                 *)
Start(rows, r) == Lower(rows, "user", r.code) \cup {Mark(r)}

(* What is on the list after a step over its head.                         *)
LEMMA OnwardsRange ==
  ASSUME NEW p, NEW rows \in Seq(Row), job[p].todo \in Seq(Item), job[p].todo # <<>>,
         NEW r, r = Head(job[p].todo)
  PROVE  /\ Range(job[p].todo) = {r} \cup Range(Tail(job[p].todo))
         /\ r.kind = "group" =>
              /\ Mark(r).kind = "next" /\ Mark(r).code = r.code
              /\ Range(Onwards(p, rows)) = Start(rows, r) \cup Range(Tail(job[p].todo))
         /\ r.kind = "next" =>
              Range(Onwards(p, rows)) = Lower(rows, "group", r.code)
                                         \cup Range(Tail(job[p].todo))
<1> DEFINE rest == Tail(job[p].todo)
           mark == Mark(r)
           us == Below(rows, "user", r.code)
           gs == Below(rows, "group", r.code)
<1>1. r \in Item /\ rest \in Seq(Item) /\ Range(job[p].todo) = {r} \cup Range(rest)
  BY HeadTail
<1>2. /\ us \in Seq(Row) /\ Range(us) = Lower(rows, "user", r.code)
      /\ gs \in Seq(Row) /\ Range(gs) = Lower(rows, "group", r.code)
  BY BelowRows DEF Lower
<1>3. us \in Seq(Item) /\ gs \in Seq(Item)
  BY <1>2 DEF Item
<1>4. r.kind = "group" => mark \in Item /\ mark.kind = "next" /\ mark.code = r.code
  BY <1>1 DEF Item, Row, Mark
<1>5. Onwards(p, rows) = (CASE r.kind = "group" -> us \o <<mark>>
                            [] r.kind = "next"  -> gs
                            [] OTHER            -> <<>>) \o rest
  BY DEF Onwards, Expand, Mark
<1> HIDE DEF us, gs, mark, rest
<1>6. CASE r.kind = "group"
  <2>1. Onwards(p, rows) = (us \o <<mark>>) \o rest
    BY <1>5, <1>6
  <2> DEFINE m == <<mark>>
             a == us \o m
  <2>2. m \in Seq(Item) /\ Range(m) = {mark}
    BY <1>4, <1>6 DEF Range
  <2> HIDE DEF m
  <2>3. a \in Seq(Item) /\ Range(a) = Range(us) \cup {mark}
    <3>1. Range(us \o m) = Range(us) \cup Range(m)
      BY <1>3, <2>2, RangeConcatenation
    <3> QED BY <1>3, <2>2, <3>1
  <2> HIDE DEF a
  <2>4. Range(a \o rest) = Range(a) \cup Range(rest)
    BY <1>1, <2>3, RangeConcatenation
  <2>5. Range(Onwards(p, rows)) = Range(us) \cup {mark} \cup Range(rest)
    BY <2>1, <2>3, <2>4 DEF a, m
  <2>6. Range(us) \cup {mark} = Start(rows, r)
    BY <1>2 DEF mark, Start
  <2>7. Range(Onwards(p, rows)) = Start(rows, r) \cup Range(rest)
    BY <2>5, <2>6
  <2> QED BY <1>1, <1>4, <1>6, <2>7 DEF rest, mark
<1>7. CASE r.kind = "next"
  <2>1. Onwards(p, rows) = gs \o rest
    BY <1>5, <1>7
  <2>2. Range(gs \o rest) = Range(gs) \cup Range(rest)
    BY <1>1, <1>3, RangeConcatenation
  <2> QED BY <1>1, <1>2, <1>7, <2>1, <2>2 DEF rest
<1> QED BY <1>1, <1>6, <1>7 DEF rest

(* A walk begins with the groups right below the root.                     *)
LEMMA WalkBegins ==
  ASSUME NEW rows \in Seq(Row)
  PROVE  Walks({}, Below(rows, "group", Root), Range(rows))
<1> DEFINE todo == Below(rows, "group", Root)
<1>1. Range(todo) = {r \in Range(rows) : r.kind = "group" /\ r.above = Root}
  BY BelowRows
<1> HIDE DEF todo
<1>2. \A x \in Range(todo) : x.kind # "next" /\ x \in Range(rows)
  BY <1>1
<1> QED BY <1>1, <1>2 DEF Walks, todo

(* It goes on over a group, ...                                            *)
LEMMA WalkGroup ==
  ASSUME NEW p, NEW rows \in Seq(Row), job[p].todo \in Seq(Item), job[p].todo # <<>>,
         NEW S, Walks(S, job[p].todo, Range(rows)), NEW r, r = Head(job[p].todo), r.kind = "group"
  PROVE  Walks(S \cup {r}, Onwards(p, rows), Range(rows)) /\ r \in Range(rows)
<1> DEFINE T == Range(rows)
           R == Range(Tail(job[p].todo))
           U == Lower(rows, "user", r.code)
           next == Onwards(p, rows)
           mark == Mark(r)
<1>0. mark.kind = "next" /\ mark.code = r.code /\ Range(next) = Start(rows, r) \cup R
  BY OnwardsRange
<1>1. mark.kind = "next" /\ mark.code = r.code /\ Range(next) = U \cup {mark} \cup R
  <2> HIDE DEF next, R
  <2> QED BY <1>0 DEF Start
<1>2. Range(job[p].todo) = {r} \cup R
  BY OnwardsRange
<1>3. \A x \in T : x.kind \in {"group", "user"}
  BY RangeOfSeq DEF Row
<1>4. r \in T
  BY <1>2 DEF Walks
<1> HIDE DEF next, mark
<1>5. ASSUME NEW x \in T,
             (x.kind = "group" /\ x.above = Root) \/ (\E g \in S \cup {r} : g.kind = "group" /\ g.code = x.above)
      PROVE  \/ x \in S \cup {r} \/ x \in Range(next)
             \/ x.kind = "group" /\ \E n \in Range(next) : n.kind = "next" /\ n.code = x.above
  <2>1. CASE x.above = r.code
    BY <1>1, <1>3, <2>1 DEF Lower
  <2>2. CASE x.above # r.code
    <3>1. (x.kind = "group" /\ x.above = Root) \/ (\E g \in S : g.kind = "group" /\ g.code = x.above)
      BY <1>5, <2>2
    <3>2. \/ x \in S \/ x \in {r} \cup R
          \/ x.kind = "group" /\ \E n \in {r} \cup R : n.kind = "next" /\ n.code = x.above
      BY <1>2, <3>1 DEF Walks
    <3> QED BY <1>1, <3>2
  <2> QED BY <2>1, <2>2
<1>6. ASSUME NEW x \in Range(next)
      PROVE  IF x.kind = "next" THEN \E g \in T : g.kind = "group" /\ g.code = x.code ELSE x \in T
  BY <1>1, <1>2, <1>4 DEF Walks, Lower
<1>7. S \cup {r} \subseteq T
  BY <1>4 DEF Walks
<1> HIDE DEF T
<1>8. Walks(S \cup {r}, next, T)
  BY <1>5, <1>6, <1>7 DEF Walks
<1> QED BY <1>4, <1>8 DEF T, next

(* ... over the mark of a group, ...                                       *)
LEMMA WalkMark ==
  ASSUME NEW p, NEW rows \in Seq(Row), job[p].todo \in Seq(Item), job[p].todo # <<>>,
         NEW S, Walks(S, job[p].todo, Range(rows)), NEW r, r = Head(job[p].todo), r.kind = "next"
  PROVE  Walks(S, Onwards(p, rows), Range(rows))
<1> DEFINE T == Range(rows)
           R == Range(Tail(job[p].todo))
           G == Lower(rows, "group", r.code)
           next == Onwards(p, rows)
<1>1. Range(next) = G \cup R
  BY OnwardsRange
<1>2. Range(job[p].todo) = {r} \cup R
  BY OnwardsRange
<1>3. \A x \in T : x.kind \in {"group", "user"}
  BY RangeOfSeq DEF Row
<1> HIDE DEF next
<1>5. ASSUME NEW x \in T,
             (x.kind = "group" /\ x.above = Root) \/ (\E g \in S : g.kind = "group" /\ g.code = x.above)
      PROVE  \/ x \in S \/ x \in Range(next)
             \/ x.kind = "group" /\ \E n \in Range(next) : n.kind = "next" /\ n.code = x.above
  <2>1. \/ x \in S \/ x \in {r} \cup R
        \/ x.kind = "group" /\ \E n \in {r} \cup R : n.kind = "next" /\ n.code = x.above
    BY <1>2, <1>5 DEF Walks
  <2> QED BY <1>1, <1>3, <2>1 DEF Lower
<1>6. ASSUME NEW x \in Range(next)
      PROVE  IF x.kind = "next" THEN \E g \in T : g.kind = "group" /\ g.code = x.code ELSE x \in T
  <2>1. CASE x \in G
    BY <1>3, <2>1 DEF Lower
  <2>2. CASE x \in R
    BY <1>2, <2>2 DEF Walks
  <2> QED BY <1>1, <2>1, <2>2
<1>7. S \subseteq T
  BY DEF Walks
<1> HIDE DEF T
<1>8. Walks(S, next, T)
  BY <1>5, <1>6, <1>7 DEF Walks
<1> QED BY <1>8 DEF T, next

(* ... and over a user.                                                    *)
LEMMA WalkUser ==
  ASSUME NEW p, NEW T \in SUBSET Row, job[p].todo \in Seq(Item), job[p].todo # <<>>,
         NEW S, Walks(S, job[p].todo, T), NEW r, r = Head(job[p].todo), r.kind = "user"
  PROVE  Walks(S \cup {r}, Tail(job[p].todo), T) /\ r \in T
<1> DEFINE next == Tail(job[p].todo)
<1>1. Range(job[p].todo) = {r} \cup Range(next)
  BY HeadTail
<1>2. r \in T
  BY <1>1 DEF Walks
<1> HIDE DEF next
<1>3. ASSUME NEW x \in T,
             (x.kind = "group" /\ x.above = Root) \/ (\E g \in S \cup {r} : g.kind = "group" /\ g.code = x.above)
      PROVE  \/ x \in S \cup {r} \/ x \in Range(next)
             \/ x.kind = "group" /\ \E n \in Range(next) : n.kind = "next" /\ n.code = x.above
  <2>1. (x.kind = "group" /\ x.above = Root) \/ (\E g \in S : g.kind = "group" /\ g.code = x.above)
    BY <1>3
  <2>2. \/ x \in S \/ x \in {r} \cup Range(next)
        \/ x.kind = "group" /\ \E n \in {r} \cup Range(next) : n.kind = "next" /\ n.code = x.above
    BY <1>1, <2>1 DEF Walks
  <2> QED BY <2>2
<1>4. \A x \in Range(next) : IF x.kind = "next" THEN \E g \in T : g.kind = "group" /\ g.code = x.code ELSE x \in T
  BY <1>1 DEF Walks
<1>5. S \cup {r} \subseteq T
  BY <1>2 DEF Walks
<1> QED BY <1>2, <1>3, <1>4, <1>5 DEF Walks, next

(* When nothing is left on the list it has been everywhere.                *)
LEMMA WalkEnds ==
  ASSUME NEW t \in DOMAIN Trees, NEW S, Walks(S, <<>>, Rows(t))
  PROVE  S = Rows(t)
<1>1. Range(<<>>) = {}
  BY DEF Range
<1>2. S \in SUBSET Rows(t)
  BY DEF Walks
<1>3. \A r \in Rows(t) : r.kind = "group" /\ r.above = Root => r \in S
  BY <1>1 DEF Walks
<1>4. \A g \in S, r \in Rows(t) : g.kind = "group" /\ r.above = g.code => r \in S
  BY <1>1 DEF Walks
<1> QED BY <1>2, <1>3, <1>4, TreesAssumption DEF Rows

(* Every row of a tree is below the root or below a group of the tree.     *)
LEMMA RowsHang ==
  ASSUME NEW t \in DOMAIN Trees, NEW r \in Rows(t)
  PROVE  r.above \in Listed("group", t) \cup {Root}
<1> DEFINE S == {x \in Rows(t) : x.above \in Listed("group", t) \cup {Root}}
<1>1. \A g \in Rows(t) : g.kind = "group" => g.code \in Listed("group", t)
  BY DEF Rows, Listed
<1>2. \A x \in Rows(t) : x.kind = "group" /\ x.above = Root => x \in S
  OBVIOUS
<1>3. \A g \in S, x \in Rows(t) : g.kind = "group" /\ x.above = g.code => x \in S
  BY <1>1
<1>4. S \in SUBSET Rows(t)
  OBVIOUS
<1> HIDE DEF S
<1>5. S = Rows(t)
  BY <1>2, <1>3, <1>4, TreesAssumption DEF Rows
<1> QED BY <1>5 DEF S

(* A step of a process that does not copy, before or after it, and leaves  *)
(* the versions as they are.                                               *)
LEMMA QuietCopies ==
  ASSUME CopyInv, NEW p \in Processes, Alone(p), UNCHANGED <<copies, origin, short, cut, dir>>,
         pc[p] # "copy", pc'[p] # "copy",
         \/ pc'[p] = "idle" /\ job'[p].ver = 0
         \/ pc[p] # "idle" /\ SameJob(p)
  PROVE  CopyInv'
<1>1. /\ short \subseteq 1..Len(copies) /\ JobTrees /\ OneCopier /\ CopiesWhole
      /\ \A q \in Processes : CopyPhase(q) /\ PastCopy(q)
  BY DEF CopyInv
<1>2. \A q \in Processes \ {p} : pc'[q] = pc[q] /\ job'[q] = job[q]
  BY DEF Alone
<1>3. \A v : Copied(v)' <=> Copied(v)
  BY <1>2 DEF Copied
<1>4. JobTrees'
  BY <1>1, <1>2 DEF JobTrees, SameJob
<1>5. OneCopier'
  BY <1>1, <1>2 DEF OneCopier
<1>6. CopiesWhole'
  BY <1>1, <1>3 DEF CopiesWhole, Fine
<1>7. ASSUME NEW q \in Processes PROVE CopyPhase(q)'
  BY <1>1, <1>2 DEF CopyPhase, Fine
<1>8. ASSUME NEW q \in Processes PROVE PastCopy(q)'
  <2>1. CASE q = p /\ pc'[p] = "idle"
    BY <2>1 DEF PastCopy
  <2>2. CASE q = p /\ pc[p] # "idle" /\ SameJob(p)
    BY <1>1, <1>3, <2>2 DEF PastCopy, SameJob
  <2>3. CASE q # p
    BY <1>1, <1>2, <1>3, <2>3 DEF PastCopy
  <2> QED BY <2>1, <2>2, <2>3
<1> QED BY <1>1, <1>4, <1>5, <1>6, <1>7, <1>8 DEF CopyInv

(* A new version is begun: nobody else copies into it.                     *)
LEMMA BeginCopies ==
  ASSUME Types, CopyInv, NEW p \in Processes, NEW then, NEW tree \in DOMAIN Trees, NEW order,
         BeginCopy(p, then, tree, order), order = 0 => tree = dir
  PROVE  CopyInv'
<1> SUFFICES ASSUME NEW n, n = Len(copies) PROVE CopyInv'
  OBVIOUS
<1> DEFINE todo == Below(Trees[tree], "group", Root)
           j == [NoJob EXCEPT !.ver = n + 1, !.tree = tree, !.order = order, !.then = then, !.todo = todo]
<1>1. /\ short \subseteq 1..n /\ JobTrees /\ OneCopier /\ CopiesWhole
      /\ \A q \in Processes : CopyPhase(q) /\ PastCopy(q)
  BY DEF CopyInv
<1>2. /\ pc[p] = "idle" /\ pc' = [pc EXCEPT ![p] = "copy"] /\ job' = [job EXCEPT ![p] = j]
      /\ copies' = Append(copies, <<>>) /\ origin' = Append(origin, tree)
      /\ UNCHANGED <<dir, short, cut>>
  BY DEF BeginCopy, Goto
<1>3. j.ver = n + 1 /\ j.tree = tree /\ j.order = order /\ j.todo = todo
  BY DEF NoJob
<1>4. Walks({}, todo, Rows(tree))
  BY WalkBegins, SynchroAssumption DEF Rows
<1> HIDE DEF j, todo
<1>5. /\ pc'[p] = "copy" /\ job'[p] = j
      /\ \A q \in Processes \ {p} : pc'[q] = pc[q] /\ job'[q] = job[q]
  BY <1>2 DEF Types, JobRows
<1>6. /\ n \in Nat /\ Len(copies') = n + 1 /\ copies'[n + 1] = <<>> /\ origin'[n + 1] = tree
      /\ \A v \in 1..n : copies'[v] = copies[v] /\ origin'[v] = origin[v]
  <2>1. copies \in Seq(Seq(Row)) /\ origin \in Seq(DOMAIN Trees) /\ Len(origin) = n
    BY DEF Types, Versions
  <2>2. <<>> \in Seq(Row)
    OBVIOUS
  <2> QED BY <1>2, <2>1, <2>2
<1>7. \A q \in Processes : job[q].ver \in 0..n
  BY DEF Types, JobRows, JobRow
<1>8. \A v \in 1..n : Copied(v)' <=> Copied(v)
  <2>1. \A v \in 1..n : v # n + 1
    BY <1>6
  <2> QED BY <1>2, <1>3, <1>5, <2>1 DEF Copied
<1>9. \A v \in 0..(n + 1) : v = 0 \/ v \in 1..n \/ v = n + 1
  BY <1>6
<1>10. n + 1 # 0 /\ n + 1 \notin 1..n /\ \A v \in 0..n : v # n + 1 /\ (v = 0 \/ v \in 1..n)
  BY <1>6
<1>11. JobTrees'
  BY <1>1, <1>3, <1>5, <1>6, <1>7, <1>10 DEF JobTrees
<1>12. OneCopier'
  BY <1>1, <1>3, <1>5, <1>7, <1>10 DEF OneCopier
<1>13. CopiesWhole'
  <2>1. ~Copied(n + 1)'
    BY <1>3, <1>5 DEF Copied
  <2>2. \A v \in 1..(n + 1) : v \in 1..n \/ v = n + 1
    BY <1>6
  <2>3. \A v \in 1..n : Fine(v)' <=> Fine(v)
    BY <1>2 DEF Fine
  <2> QED BY <1>1, <1>6, <1>8, <2>1, <2>2, <2>3 DEF CopiesWhole
<1>14. ASSUME NEW q \in Processes PROVE CopyPhase(q)'
  <2>1. CASE q = p
    <3>1. Range(<<>>) = {}
      BY DEF Range
    <3>2. n + 1 \notin short'
      BY <1>1, <1>2, <1>10
    <3>3. Range(copies'[n + 1]) = {}
      BY <1>6, <3>1
    <3>4. Walks(Range(copies'[n + 1]), todo, Rows(tree))
      BY <1>4, <3>3
    <3>5. job'[p].ver = n + 1 /\ job'[p].todo = todo /\ job'[p].tree = tree /\ job'[p].order = order
      BY <1>3, <1>5
    <3> QED BY <1>2, <2>1, <3>2, <3>4, <3>5 DEF CopyPhase
  <2>2. CASE q # p
    <3>1. pc[q] = "copy" => job[q].ver \in 1..n
      BY <1>1, <1>7, <1>10 DEF OneCopier
    <3> QED BY <1>1, <1>2, <1>5, <1>6, <2>2, <3>1 DEF CopyPhase, Fine
  <2> QED BY <2>1, <2>2
<1>15. ASSUME NEW q \in Processes PROVE PastCopy(q)'
  <2>1. CASE q = p
    BY <1>5, <2>1 DEF PastCopy
  <2>2. CASE q # p
    <3>1. job[q].ver # 0 => job[q].ver \in 1..n
      BY <1>7, <1>10
    <3> QED BY <1>1, <1>2, <1>5, <1>8, <2>2, <3>1 DEF PastCopy
  <2> QED BY <2>1, <2>2
<1>16. (short \subseteq 1..Len(copies))'
  BY <1>1, <1>2, <1>6
<1> QED BY <1>11, <1>12, <1>13, <1>14, <1>15, <1>16 DEF CopyInv

(* A row is added at the end of a version.                                 *)
LEMMA RangeAppend ==
  ASSUME NEW S, NEW s \in Seq(S), NEW x
  PROVE  Range(Append(s, x)) = Range(s) \cup {x}
<1>1. /\ Len(s) \in Nat /\ DOMAIN s = 1..Len(s) /\ DOMAIN Append(s, x) = 1..(Len(s) + 1)
      /\ \A i \in 1..Len(s) : Append(s, x)[i] = s[i]
      /\ Append(s, x)[Len(s) + 1] = x
  <2>1. s \in Seq(S \cup {x}) /\ x \in S \cup {x}
    OBVIOUS
  <2> QED BY <2>1
<1>2. \A i \in 1..(Len(s) + 1) : i \in 1..Len(s) \/ i = Len(s) + 1
  BY <1>1
<1>3. 1..Len(s) \subseteq 1..(Len(s) + 1) /\ Len(s) + 1 \in 1..(Len(s) + 1)
  BY <1>1
<1>4. Range(Append(s, x)) \subseteq Range(s) \cup {x}
  BY <1>1, <1>2 DEF Range
<1>5. Range(s) \cup {x} \subseteq Range(Append(s, x))
  BY <1>1, <1>3 DEF Range
<1> QED BY <1>4, <1>5

(* A copy goes on: what it has copied is what its walk has been at.        *)
LEMMA CopyWalks ==
  ASSUME Types, NEW p \in Processes, CopyRow(p), CopyPhase(p), job[p].ver # 0, Fine(job[p].ver)
  PROVE  Walks(Range(copies'[job[p].ver]), job'[p].todo, Rows(job[p].tree))
<1> DEFINE k == job[p].ver
           T == Rows(job[p].tree)
           rows == Trees[job[p].tree]
           D == Range(copies[k])
<1> SUFFICES ASSUME NEW r, r = Head(job[p].todo)
             PROVE  Walks(Range(copies'[k]), job'[p].todo, T)
  OBVIOUS
<1>1. /\ pc[p] = "copy" /\ job[p].todo # <<>>
      /\ copies' = IF r.kind = "next" THEN copies ELSE [copies EXCEPT ![k] = Append(copies[k], r)]
      /\ job' = [job EXCEPT ![p].todo = Onwards(p, CopySource(p)), ![p].got = job[p].got \cup {r.kind}]
  BY DEF CopyRow
<1>2. /\ Walks(D, job[p].todo, T) /\ CopySource(p) = rows
  BY <1>1 DEF CopyPhase, CopySource
<1>3. /\ rows \in Seq(Row) /\ T = Range(rows) /\ job[p].todo \in Seq(Item) /\ r \in Item
      /\ Tail(job[p].todo) \in Seq(Item) /\ T \in SUBSET Row
  <2>1. rows \in Seq(Row) /\ job[p].todo \in Seq(Item) /\ r \in Item /\ Tail(job[p].todo) \in Seq(Item)
    BY <1>1, JobOf, SynchroAssumption DEF JobRow
  <2>2. T = Range(rows)
    BY DEF Rows
  <2>3. Range(rows) \in SUBSET Row
    BY <2>1, RangeOfSeq
  <2> QED BY <2>1, <2>2, <2>3
<1>4. job'[p].todo = Onwards(p, rows)
  BY <1>1, <1>2 DEF Types, JobRows, JobRow, JobFields
<1>5. copies[k] \in Seq(Row) /\ k \in DOMAIN copies
  BY DEF Types, Versions, JobRows, JobRow
<1>6. Range(copies'[k]) = IF r.kind = "next" THEN D ELSE D \cup {r}
  <2>1. CASE r.kind = "next"
    BY <1>1, <2>1
  <2>2. CASE r.kind # "next"
    <3>1. copies'[k] = Append(copies[k], r)
      BY <1>1, <1>5, <2>2
    <3>2. Range(Append(copies[k], r)) = D \cup {r}
      BY <1>5, RangeAppend
    <3> QED BY <2>2, <3>1, <3>2
  <2> QED BY <2>1, <2>2
<1> HIDE DEF T, rows, D, k
<1>7. CASE r.kind = "group"
  <2>1. Walks(D \cup {r}, Onwards(p, rows), T)
    BY <1>1, <1>2, <1>3, <1>7, WalkGroup
  <2> QED BY <1>4, <1>6, <1>7, <2>1
<1>8. CASE r.kind = "next"
  <2>1. Walks(D, Onwards(p, rows), T)
    BY <1>1, <1>2, <1>3, <1>8, WalkMark
  <2> QED BY <1>4, <1>6, <1>8, <2>1
<1>9. CASE r.kind = "user"
  <2>1. Onwards(p, rows) = <<>> \o Tail(job[p].todo)
    BY <1>9 DEF Onwards, Expand
  <2>2. Onwards(p, rows) = Tail(job[p].todo)
    BY <1>3, <2>1
  <2>3. Walks(D \cup {r}, Tail(job[p].todo), T)
    BY <1>1, <1>2, <1>3, <1>9, WalkUser
  <2> QED BY <1>4, <1>6, <1>9, <2>2, <2>3
<1>10. r.kind \in {"group", "next", "user"}
  BY <1>3 DEF Item, Row
<1> QED BY <1>7, <1>8, <1>9, <1>10

(* The same of the invariant as a whole.                                   *)
LEMMA CopyRowCopies ==
  ASSUME Types, CopyInv, NEW p \in Processes, CopyRow(p)
  PROVE  CopyInv'
<1> SUFFICES ASSUME NEW k, k = job[p].ver PROVE CopyInv'
  OBVIOUS
<1> USE DEF history
<1>1. /\ short \subseteq 1..Len(copies) /\ JobTrees /\ OneCopier /\ CopiesWhole
      /\ \A q \in Processes : CopyPhase(q) /\ PastCopy(q)
  BY DEF CopyInv
<1>2. /\ pc[p] = "copy" /\ UNCHANGED <<pc, dir, origin, short, cut>>
      /\ \E r : copies' \in {copies, [copies EXCEPT ![k] = Append(copies[k], r)]}
      /\ \E x, y : job' = [job EXCEPT ![p].todo = x, ![p].got = y]
  BY DEF CopyRow
<1>3. /\ Alone(p) /\ SameJob(p) /\ job'[p].bad = job[p].bad
      /\ job'[p].ver = k /\ job'[p].tree = job[p].tree /\ job'[p].order = job[p].order
      /\ \A q \in Processes \ {p} : job'[q] = job[q]
  <2>1. PICK x, y : job' = [job EXCEPT ![p].todo = x, ![p].got = y]
    BY <1>2
  <2>2. Alone(p) /\ SameJob(p)
    BY <1>2, <2>1, JobUpdate, JobOf
  <2>3. job'[p].bad = job[p].bad
    BY <2>1 DEF Types, JobRows, JobRow, JobFields
  <2> QED BY <2>2, <2>3 DEF Alone, SameJob
<1>11. \A q \in Processes : job'[q].ver = job[q].ver /\ job'[q].tree = job[q].tree /\ job'[q].order = job[q].order
  BY <1>3
<1>12. /\ pc[p] = "copy" /\ UNCHANGED <<pc, dir, origin, short, cut>>
  BY <1>2
<1>4. /\ Len(copies') = Len(copies)
      /\ \A v \in 1..Len(copies) : v # k => copies'[v] = copies[v]
  <2>1. PICK r : copies' \in {copies, [copies EXCEPT ![k] = Append(copies[k], r)]}
    BY <1>2
  <2>2. copies \in Seq(Seq(Row))
    BY DEF Types, Versions
  <2> DEFINE x == Append(copies[k], r)
  <2> HIDE DEF x
  <2>3. copies' = copies \/ copies' = [copies EXCEPT ![k] = x]
    BY <2>1 DEF x
  <2> QED BY <2>2, <2>3
<1>5. \A v : Copied(v)' <=> Copied(v)
  BY <1>2, <1>3 DEF Copied
<1>6. JobTrees'
  BY <1>1, <1>11, <1>12 DEF JobTrees
<1>7. OneCopier'
  BY <1>1, <1>11, <1>12 DEF OneCopier
<1>8. CopiesWhole'
  <2>1. ~Copied(k)
    BY <1>2 DEF Copied
  <2> QED BY <1>1, <1>2, <1>4, <1>5, <2>1 DEF CopiesWhole, Fine
<1>9. ASSUME NEW q \in Processes PROVE CopyPhase(q)'
  <2>1. CASE q = p
    <3>1. k # 0 /\ (k \in short => job[p].bad) /\ (job[p].order = 0 /\ Fine(k) => dir = job[p].tree)
      BY <1>1, <1>2 DEF OneCopier, CopyPhase
    <3>2. Fine(k) => Walks(Range(copies'[k]), job'[p].todo, Rows(job[p].tree))
      BY <1>1, <3>1, CopyWalks
    <3> QED BY <1>2, <1>3, <2>1, <3>1, <3>2 DEF CopyPhase, Fine
  <2>2. CASE q # p
    <3>1. pc[q] = "copy" => job[q].ver \in 1..Len(copies) /\ job[q].ver # k
      BY <1>1, <1>2, <2>2 DEF OneCopier, Types, Versions, JobRows, JobRow
    <3> QED BY <1>1, <1>3, <1>4, <1>12, <2>2, <3>1 DEF CopyPhase, Fine
  <2> QED BY <2>1, <2>2
<1>10. ASSUME NEW q \in Processes PROVE PastCopy(q)'
  BY <1>1, <1>5, <1>11, <1>12 DEF PastCopy
<1> QED BY <1>1, <1>2, <1>4, <1>6, <1>7, <1>8, <1>9, <1>10 DEF CopyInv

(* A row that is refused spoils the version its copier is at, and no other. *)
LEMMA CopyRefusedCopies ==
  ASSUME Types, CopyInv, NEW p \in Processes, CopyRefused(p)
  PROVE  CopyInv'
<1> SUFFICES ASSUME NEW k, k = job[p].ver PROVE CopyInv'
  OBVIOUS
<1>1. /\ short \subseteq 1..Len(copies) /\ JobTrees /\ OneCopier /\ CopiesWhole
      /\ \A q \in Processes : CopyPhase(q) /\ PastCopy(q)
  BY DEF CopyInv
<1>2. /\ pc[p] = "copy" /\ UNCHANGED <<pc, dir, origin, copies, cut>>
      /\ short' = short \cup {k}
      /\ job' = [job EXCEPT ![p].todo = Tail(job[p].todo), ![p].bad = TRUE]
  BY DEF CopyRefused
<1>3. /\ job'[p].bad /\ job'[p].ver = k /\ job'[p].tree = job[p].tree /\ job'[p].order = job[p].order
      /\ \A q \in Processes \ {p} : job'[q] = job[q]
  BY <1>2 DEF Types, JobRows, JobRow, JobFields
<1>11. \A q \in Processes : job'[q].ver = job[q].ver /\ job'[q].tree = job[q].tree /\ job'[q].order = job[q].order
  BY <1>3
<1>12. /\ pc[p] = "copy" /\ UNCHANGED <<pc, dir, origin, copies, cut>> /\ short' = short \cup {k}
  BY <1>2
<1>4. k \in 1..Len(copies)
  BY <1>1, <1>2 DEF OneCopier, Types, Versions, JobRows, JobRow
<1>5. \A v : Copied(v)' <=> Copied(v)
  BY <1>2, <1>3 DEF Copied
<1>6. JobTrees'
  BY <1>1, <1>11, <1>12 DEF JobTrees
<1>7. OneCopier'
  BY <1>1, <1>11, <1>12 DEF OneCopier
<1>8. CopiesWhole'
  BY <1>1, <1>2, <1>5 DEF CopiesWhole, Fine
<1>9. ASSUME NEW q \in Processes PROVE CopyPhase(q)'
  <2>1. CASE q = p
    BY <1>2, <1>3, <2>1 DEF CopyPhase, Fine
  <2>2. CASE q # p
    <3>1. pc[q] = "copy" => job[q].ver # k
      BY <1>1, <1>2, <2>2 DEF OneCopier
    <3> QED BY <1>1, <1>3, <1>12, <2>2, <3>1 DEF CopyPhase, Fine
  <2> QED BY <2>1, <2>2
<1>10. ASSUME NEW q \in Processes PROVE PastCopy(q)'
  <2>1. Copied(job[q].ver) => job[q].ver # k
    BY <1>2 DEF Copied
  <2>2. q = p => PastCopy(q)'
    BY <1>2 DEF PastCopy
  <2>3. q # p => PastCopy(q)'
    BY <1>1, <1>5, <1>11, <1>12, <2>1 DEF PastCopy
  <2> QED BY <2>2, <2>3
<1> QED BY <1>1, <1>2, <1>4, <1>6, <1>7, <1>8, <1>9, <1>10 DEF CopyInv

(* The end of a copy: a version nothing was refused of holds all its rows. *)
LEMMA EndCopyCopies ==
  ASSUME Types, CopyInv, NEW p \in Processes, EndCopy(p) \/ EndCopyOrdered(p)
  PROVE  CopyInv'
<1> SUFFICES ASSUME NEW k, k = job[p].ver PROVE CopyInv'
  OBVIOUS
<1>1. /\ short \subseteq 1..Len(copies) /\ JobTrees /\ OneCopier /\ CopiesWhole
      /\ \A q \in Processes : CopyPhase(q) /\ PastCopy(q)
  BY DEF CopyInv
<1>2. pc[p] = "copy" /\ job[p].todo = <<>> /\ UNCHANGED <<copies, dir, origin, short, cut>>
  BY DEF EndCopy, EndCopyOrdered, history
<1>3. /\ Alone(p)
      /\ \/ pc'[p] = "idle" /\ job'[p].ver = 0
         \/ pc'[p] \in {"sync", "backup"} /\ SameJob(p) /\ (job[p].order # 0 => ~job[p].bad)
  <2>1. CASE Finish(p)
    <3>1. pc' = [pc EXCEPT ![p] = "idle"] /\ job' = [job EXCEPT ![p] = NoJob] /\ NoJob.ver = 0
      BY <2>1 DEF Finish, Goto, NoJob
    <3> QED BY <3>1, NoJobDoomed DEF Types, JobRows, Alone
  <2>2. CASE EndCopy(p) /\ ~Finish(p)
    <3>1. /\ pc' = [pc EXCEPT ![p] = "sync"] /\ job' = [job EXCEPT ![p].bad = FALSE]
          /\ job[p].then # "backup"
      BY <2>2 DEF EndCopy, Goto
    <3>2. Alone(p) /\ pc'[p] = "sync" /\ SameJob(p)
      BY <3>1, GotoAlone, JobUpdateDoomed
    <3> QED BY <3>1, <3>2, JobOf DEF JobRow
  <2>3. CASE EndCopyOrdered(p) /\ ~Finish(p)
    <3>1. pc' = [pc EXCEPT ![p] = "backup"] /\ job' = job /\ ~job[p].bad
      BY <2>3 DEF EndCopyOrdered, Goto
    <3>2. Alone(p) /\ pc'[p] = "backup" /\ SameJob(p)
      BY <3>1, GotoAlone, JobUpdateDoomed
    <3> QED BY <3>1, <3>2
  <2> QED BY <2>1, <2>2, <2>3
<1>4. \A q \in Processes \ {p} : pc'[q] = pc[q] /\ job'[q] = job[q]
  BY <1>3 DEF Alone
<1>5. pc'[p] # "copy" /\ (pc'[p] # "idle" => SameJob(p))
  BY <1>3
<1>6. \A v : Copied(v)' <=> (\A q \in Processes \ {p} : pc[q] = "copy" => job[q].ver # v)
  BY <1>4, <1>5 DEF Copied
<1>7. Copied(k)' /\ \A v : (Copied(v) => Copied(v)') /\ (v # k => (Copied(v)' => Copied(v)))
  <2>1. \A q \in Processes \ {p} : pc[q] = "copy" => job[q].ver # k
    BY <1>1, <1>2 DEF OneCopier
  <2> QED BY <1>6, <2>1 DEF Copied
<1>8. Fine(k) => Range(copies[k]) = Rows(origin[k])
  <2>1. SUFFICES ASSUME Fine(k) PROVE Range(copies[k]) = Rows(origin[k])
    OBVIOUS
  <2>2. job[p].tree = origin[k] /\ job[p].tree \in DOMAIN Trees
    BY <1>1, <1>2, JobOf DEF JobTrees, OneCopier, JobRow
  <2>3. Walks(Range(copies[k]), <<>>, Rows(job[p].tree))
    BY <1>1, <1>2, <2>1 DEF CopyPhase
  <2> QED BY <2>2, <2>3, WalkEnds
<1>9. JobTrees'
  BY <1>1, <1>2, <1>3, <1>4 DEF JobTrees, SameJob
<1>10. OneCopier'
  BY <1>1, <1>4, <1>5 DEF OneCopier
<1>11. CopiesWhole'
  BY <1>1, <1>2, <1>7, <1>8 DEF CopiesWhole, Fine
<1>12. ASSUME NEW q \in Processes PROVE CopyPhase(q)'
  BY <1>1, <1>2, <1>4, <1>5 DEF CopyPhase, Fine
<1>13. ASSUME NEW q \in Processes PROVE PastCopy(q)'
  <2>1. CASE q = p
    <3>1. k \in short => job[p].bad
      BY <1>1, <1>2 DEF CopyPhase
    <3> QED BY <1>2, <1>3, <1>7, <2>1, <3>1 DEF PastCopy, SameJob
  <2>2. CASE q # p
    BY <1>1, <1>2, <1>4, <1>7, <2>2 DEF PastCopy
  <2> QED BY <2>1, <2>2
<1> QED BY <1>1, <1>2, <1>9, <1>10, <1>11, <1>12, <1>13 DEF CopyInv

(* A copy that is broken off leaves a version that is cut.                 *)
LEMMA KillCopies ==
  ASSUME Types, CopyInv, NEW p \in Processes, Kill(p)
  PROVE  CopyInv'
<1> SUFFICES ASSUME NEW k, k = job[p].ver PROVE CopyInv'
  OBVIOUS
<1>1. /\ short \subseteq 1..Len(copies) /\ JobTrees /\ OneCopier /\ CopiesWhole
      /\ \A q \in Processes : CopyPhase(q) /\ PastCopy(q)
  BY DEF CopyInv
<1>2. /\ UNCHANGED <<copies, dir, origin, short>>
      /\ cut' = IF pc[p] = "copy" THEN cut \cup {k} ELSE cut
      /\ pc' = [pc EXCEPT ![p] = "idle"] /\ job' = [job EXCEPT ![p] = NoJob]
  BY DEF Kill, Copiers, Busy, Finish, Goto
<1>3. Alone(p) /\ pc'[p] = "idle" /\ job'[p].ver = 0
  <2>1. NoJob.ver = 0
    BY DEF NoJob
  <2> QED BY <1>2, <2>1, NoJobDoomed DEF Types, JobRows, Alone
<1>4. CASE pc[p] # "copy"
  BY <1>2, <1>3, <1>4, QuietCopies
<1>5. CASE pc[p] = "copy"
  <2>1. cut' = cut \cup {k} /\ UNCHANGED <<copies, dir, origin, short>>
    BY <1>2, <1>5
  <2>2. \A q \in Processes \ {p} : pc'[q] = pc[q] /\ job'[q] = job[q]
    BY <1>3 DEF Alone
  <2>3. \A v : /\ Copied(v) => Copied(v)'
               /\ v # k => (Copied(v)' => Copied(v))
    BY <1>3, <2>2 DEF Copied
  <2>4. JobTrees'
    BY <1>1, <1>3, <2>1, <2>2 DEF JobTrees
  <2>5. OneCopier'
    BY <1>1, <1>3, <2>2 DEF OneCopier
  <2>6. CopiesWhole'
    BY <1>1, <2>1, <2>3 DEF CopiesWhole, Fine
  <2>7. ASSUME NEW q \in Processes PROVE CopyPhase(q)' /\ PastCopy(q)'
    <3>1. CASE q = p
      BY <1>3, <3>1 DEF CopyPhase, PastCopy
    <3>2. CASE q # p
      <4>1. CopyPhase(q)'
        BY <1>1, <2>1, <2>2, <3>2 DEF CopyPhase, Fine
      <4>2. PastCopy(q)'
        BY <1>1, <2>1, <2>2, <2>3, <3>2 DEF PastCopy
      <4> QED BY <4>1, <4>2
    <3> QED BY <3>1, <3>2
  <2> QED BY <1>1, <2>1, <2>4, <2>5, <2>6, <2>7 DEF CopyInv
<1> QED BY <1>4, <1>5

(* A version that is synchronised while it is copied is cut.               *)
LEMMA MeetCopies ==
  ASSUME Types, CopyInv, NEW p \in Processes,
         (\E v \in 1..Len(copies) : Synchronize(p, v)) \/ (\E t \in GwTrees : Screen(p, t))
  PROVE  CopyInv'
<1>1. /\ short \subseteq 1..Len(copies) /\ JobTrees /\ OneCopier /\ CopiesWhole
      /\ \A q \in Processes : CopyPhase(q) /\ PastCopy(q)
  BY DEF CopyInv
<1> DEFINE Comes(k, t, j) ==
             /\ k # 0 => t = origin[k]
             /\ j.ver = k /\ j.tree = t /\ j.order = 0 /\ job' = [job EXCEPT ![p] = j]
             /\ cut' \in {cut, cut \cup {k}} /\ (k # 0 /\ k \notin cut' => Copied(k))
             /\ pc[p] = "idle" /\ pc' = [pc EXCEPT ![p] = "sync"]
             /\ UNCHANGED <<copies, dir, origin, short>>
<1>2. \E k \in 0..Len(copies), t \in DOMAIN Trees : \E j : Comes(k, t, j)
  <2>1. ASSUME NEW v \in 1..Len(copies), Synchronize(p, v)
        PROVE  \E k \in 0..Len(copies), t \in DOMAIN Trees : \E j : Comes(k, t, j)
    <3> DEFINE j == [NoJob EXCEPT !.ver = v, !.tree = origin[v]]
    <3>1. j.ver = v /\ j.tree = origin[v] /\ j.order = 0
      BY DEF NoJob
    <3>2. job' = [job EXCEPT ![p] = j]
      BY <2>1 DEF Synchronize
    <3> HIDE DEF j
    <3>3. v \in 0..Len(copies) /\ origin[v] \in DOMAIN Trees
      BY DEF Types, Versions
    <3>4. cut' = IF Copiers(v) = {} THEN cut ELSE cut \cup {v}
      BY <2>1 DEF Synchronize
    <3>5. Copiers(v) = {} => Copied(v)
      BY DEF Copiers, Busy, Copied
    <3>6. cut' \in {cut, cut \cup {v}} /\ (v \notin cut' => Copied(v))
      BY <3>4, <3>5
    <3>7. pc[p] = "idle" /\ pc' = [pc EXCEPT ![p] = "sync"] /\ UNCHANGED <<copies, dir, origin, short>>
      BY <2>1 DEF Synchronize, Goto
    <3>8. Comes(v, origin[v], j)
      BY <3>1, <3>2, <3>6, <3>7
    <3> HIDE DEF Comes
    <3> QED BY <3>3, <3>8
  <2>2. ASSUME NEW t \in GwTrees, Screen(p, t)
        PROVE  \E k \in 0..Len(copies), x \in DOMAIN Trees : \E j : Comes(k, x, j)
    <3> DEFINE j == [NoJob EXCEPT !.tree = t]
    <3>1. j.ver = 0 /\ j.tree = t /\ j.order = 0
      BY DEF NoJob
    <3>2. job' = [job EXCEPT ![p] = j]
      BY <2>2 DEF Screen
    <3> HIDE DEF j
    <3>3. 0 \in 0..Len(copies) /\ t \in DOMAIN Trees
      BY SynchroAssumption DEF Types, Versions
    <3>4. cut' = cut /\ pc[p] = "idle" /\ pc' = [pc EXCEPT ![p] = "sync"] /\ UNCHANGED <<copies, dir, origin, short>>
      BY <2>2 DEF Screen, Goto, history
    <3>5. Comes(0, t, j)
      BY <3>1, <3>2, <3>4
    <3> HIDE DEF Comes
    <3> QED BY <3>3, <3>5
  <2> QED BY <2>1, <2>2
<1>3. PICK k \in 0..Len(copies), t \in DOMAIN Trees : \E j : Comes(k, t, j)
  BY <1>2
<1>4. PICK j : Comes(k, t, j)
  BY <1>3
<1>5. /\ pc'[p] = "sync" /\ job'[p] = j
      /\ \A q \in Processes \ {p} : pc'[q] = pc[q] /\ job'[q] = job[q]
  BY <1>4 DEF Types, JobRows
<1>6. /\ k # 0 => t = origin[k]
      /\ cut \subseteq cut' /\ (k # 0 /\ k \notin cut' => Copied(k))
      /\ pc[p] = "idle" /\ UNCHANGED <<copies, dir, origin, short>>
  BY <1>4
<1>7. \A v : Copied(v)' <=> Copied(v)
  BY <1>5, <1>6 DEF Copied
<1>8. JobTrees'
  BY <1>1, <1>4, <1>5, <1>6 DEF JobTrees
<1>9. OneCopier'
  BY <1>1, <1>5 DEF OneCopier
<1>10. CopiesWhole'
  BY <1>1, <1>6, <1>7 DEF CopiesWhole, Fine
<1>11. ASSUME NEW q \in Processes PROVE CopyPhase(q)' /\ PastCopy(q)'
  <2>1. CASE q = p
    BY <1>4, <1>5, <1>6, <1>7, <2>1 DEF CopyPhase, PastCopy
  <2>2. CASE q # p
    <3>1. CopyPhase(q)'
      BY <1>1, <1>5, <1>6, <2>2 DEF CopyPhase, Fine
    <3>2. PastCopy(q)'
      BY <1>1, <1>5, <1>6, <1>7, <2>2 DEF PastCopy
    <3> QED BY <3>1, <3>2
  <2> QED BY <2>1, <2>2
<1> QED BY <1>1, <1>6, <1>8, <1>9, <1>10, <1>11 DEF CopyInv

(* The outside cuts the versions that it changes, or that are being copied *)
(* from what it changes.                                                   *)
LEMMA OutsideCopies ==
  ASSUME Types, CopyInv,
         \/ \E p \in Processes, v \in 1..Len(copies) : Destroy(p, v)
         \/ \E t \in LdapTrees : Change(t)
         \/ \E t \in GwTrees : Order(t)
         \/ UNCHANGED vars
  PROVE  CopyInv'
<1> USE DEF history
<1>1. /\ short \subseteq 1..Len(copies) /\ JobTrees /\ OneCopier /\ CopiesWhole
      /\ \A q \in Processes : CopyPhase(q) /\ PastCopy(q)
  BY DEF CopyInv
<1>2. UNCHANGED <<pc, job, origin, short>> /\ cut \subseteq cut'
  BY DEF Destroy, Change, Order, vars
<1>3. Len(copies') = Len(copies) /\ \A v \in 1..Len(copies) : v \notin cut' => copies'[v] = copies[v]
  <2>1. ASSUME NEW p \in Processes, NEW v \in 1..Len(copies), Destroy(p, v)
        PROVE  Len(copies') = Len(copies) /\ \A w \in 1..Len(copies) : w \notin cut' => copies'[w] = copies[w]
    BY <2>1 DEF Destroy, Types, Versions
  <2> QED BY <2>1 DEF Change, Order, vars
<1>4. \A q \in Processes : pc[q] = "copy" /\ job[q].order = 0 /\ job[q].ver \notin cut' => dir' = dir
  <2>1. CASE UNCHANGED dir
    BY <2>1
  <2>2. CASE \E t \in LdapTrees : Change(t)
    <3>1. cut' = cut \cup {v \in 1..Len(copies) : \E q \in Copiers(v) : job[q].order = 0}
      BY <2>2 DEF Change
    <3>2. \A q \in Processes : pc[q] = "copy" => job[q].ver \in 1..Len(copies) /\ q \in Copiers(job[q].ver)
      BY <1>1 DEF OneCopier, Types, Versions, JobRows, JobRow, Copiers, Busy
    <3> QED BY <3>1, <3>2
  <2> QED BY <2>1, <2>2 DEF Destroy, Order, vars
<1>5. \A v : Copied(v)' <=> Copied(v)
  BY <1>2 DEF Copied
<1>6. JobTrees' /\ OneCopier'
  BY <1>1, <1>2 DEF JobTrees, OneCopier
<1>7. CopiesWhole'
  BY <1>1, <1>2, <1>3, <1>5 DEF CopiesWhole, Fine
<1>8. ASSUME NEW q \in Processes PROVE CopyPhase(q)' /\ PastCopy(q)'
  <2>1. pc[q] = "copy" => job[q].ver \in 1..Len(copies)
    BY <1>1 DEF OneCopier, Types, Versions, JobRows, JobRow
  <2>2. CopyPhase(q)'
    BY <1>1, <1>2, <1>3, <1>4, <2>1 DEF CopyPhase, Fine
  <2>3. PastCopy(q)'
    BY <1>1, <1>2, <1>5 DEF PastCopy
  <2> QED BY <2>2, <2>3
<1> QED BY <1>1, <1>2, <1>3, <1>6, <1>7, <1>8 DEF CopyInv

(* What the steps behind a copy leave as it is.                            *)
LEMMA BehindCopy ==
  ASSUME Types, NEW p \in Processes,
         \/ Backup(p) \/ BackupFails(p) \/ Reset(p) \/ SaveGroup(p) \/ SaveUser(p) \/ NextGroups(p)
         \/ SaveRefused(p) \/ EndWalk(p) \/ EndUsers(p) \/ DestroyUser(p) \/ DestroyGroup(p) \/ EndSync(p)
  PROVE  /\ UNCHANGED <<copies, origin, short, cut, dir>> /\ Alone(p) /\ pc[p] \notin {"idle", "copy"}
         /\ \/ pc'[p] = "idle" /\ job'[p].ver = 0
            \/ pc'[p] \notin {"idle", "copy"} /\ SameJob(p)
<1>1. UNCHANGED <<copies, origin, short, cut, dir>>
  BY DEF Backup, BackupFails, Reset, SaveGroup, SaveUser, NextGroups, SaveRefused, EndWalk, EndUsers,
         DestroyUser, DestroyGroup, EndSync, history
<1>2. CASE Backup(p)
  <2>1. pc[p] = "backup" /\ pc' = [pc EXCEPT ![p] = "sync"] /\ job' = job
    BY <1>2 DEF Backup, Goto
  <2>2. pc'[p] = "sync" /\ Alone(p) /\ SameJob(p)
    BY <2>1, GotoAlone, JobUpdateDoomed
  <2> QED BY <1>1, <2>1, <2>2
<1>3. CASE BackupFails(p) \/ EndSync(p)
  <2>1. /\ pc[p] \notin {"idle", "copy"} /\ pc' = [pc EXCEPT ![p] = "idle"]
        /\ job' = [job EXCEPT ![p] = NoJob] /\ NoJob.ver = 0
    BY <1>3 DEF BackupFails, EndSync, Finish, Goto, NoJob
  <2>2. pc'[p] = "idle" /\ Alone(p) /\ job'[p] = NoJob
    BY <2>1, NoJobDoomed DEF Types, JobRows, Alone
  <2> QED BY <1>1, <2>1, <2>2
<1>4. CASE \/ Reset(p) \/ SaveGroup(p) \/ SaveUser(p) \/ NextGroups(p) \/ SaveRefused(p)
           \/ EndWalk(p) \/ EndUsers(p) \/ DestroyUser(p) \/ DestroyGroup(p)
  <2>1. CASE Reset(p)
    BY <1>1, <2>1, ResetSteps
  <2>2. CASE SaveGroup(p) \/ SaveUser(p)
    BY <1>1, <2>2, SaveGroupSteps, SaveUserSteps
  <2>3. CASE NextGroups(p) \/ SaveRefused(p)
    BY <1>1, <2>3, WalkOnSteps
  <2>4. CASE EndWalk(p) \/ EndUsers(p)
    BY <1>1, <2>4, SweepSteps
  <2>5. CASE DestroyUser(p) \/ DestroyGroup(p)
    BY <1>1, <2>5, DestroyUserSteps, DestroyGroupSteps
  <2> QED BY <1>4, <2>1, <2>2, <2>3, <2>4, <2>5
<1> QED BY <1>2, <1>3, <1>4

(* The initial states, without versions.                                   *)
LEMMA CopyInit == Init => CopyInv
<1> SUFFICES ASSUME Init PROVE CopyInv
  OBVIOUS
<1>1. copies = <<>> /\ short = {} /\ Len(<<>>) = 0
  BY DEF Init
<1>2. \A p \in Processes : pc[p] = "idle" /\ job[p].ver = 0
  BY DEF Init, NoJob
<1>3. 1..Len(copies) = {}
  BY <1>1
<1> QED BY <1>1, <1>2, <1>3 DEF CopyInv, JobTrees, OneCopier, CopiesWhole, CopyPhase, PastCopy

(* Every step keeps what is known of the versions.                         *)
LEMMA CopyNext == Types /\ CopyInv /\ [Next]_vars => CopyInv'
<1> SUFFICES ASSUME Types, CopyInv, [Next]_vars PROVE CopyInv'
  OBVIOUS
<1>1. ASSUME NEW p \in Processes, Run(p) \/ Create(p) \/ Check(p) PROVE CopyInv'
  <2>1. dir \in DOMAIN Trees /\ orders \in Seq(OrderRow)
    BY DEF Types, Versions
  <2>2. CASE Run(p) \/ Create(p)
    <3>1. BeginCopy(p, "sync", dir, 0) \/ BeginCopy(p, "stop", dir, 0)
      BY <2>2 DEF Run, Create
    <3> QED BY <2>1, <3>1, BeginCopies
  <2>3. CASE Check(p)
    <3>1. PICK i \in 1..Len(orders) : BeginCopy(p, "backup", orders[i].tree, i)
      BY <2>3 DEF Check
    <3>2. orders[i] \in OrderRow /\ i # 0
      BY <2>1
    <3>3. orders[i].tree \in DOMAIN Trees
      BY <3>2 DEF OrderRow
    <3> QED BY <3>1, <3>2, <3>3, BeginCopies
  <2> QED BY <1>1, <2>2, <2>3
<1>2. ASSUME NEW p \in Processes,
             \/ Backup(p) \/ BackupFails(p) \/ Reset(p) \/ SaveGroup(p) \/ SaveUser(p) \/ NextGroups(p)
             \/ SaveRefused(p) \/ EndWalk(p) \/ EndUsers(p) \/ DestroyUser(p) \/ DestroyGroup(p) \/ EndSync(p)
      PROVE  CopyInv'
  BY <1>2, BehindCopy, QuietCopies
<1>3. ASSUME NEW p \in Processes, CopyRow(p) \/ CopyRefused(p) \/ EndCopy(p) \/ EndCopyOrdered(p) \/ Kill(p)
      PROVE  CopyInv'
  BY <1>3, CopyRowCopies, CopyRefusedCopies, EndCopyCopies, KillCopies
<1>4. ASSUME NEW p \in Processes,
             (\E v \in 1..Len(copies) : Synchronize(p, v)) \/ (\E t \in GwTrees : Screen(p, t))
      PROVE  CopyInv'
  BY <1>4, MeetCopies
<1>5. ASSUME \/ \E p \in Processes, v \in 1..Len(copies) : Destroy(p, v)
             \/ \E t \in LdapTrees : Change(t)
             \/ \E t \in GwTrees : Order(t)
             \/ UNCHANGED vars
      PROVE  CopyInv'
  BY <1>5, OutsideCopies
<1> QED BY <1>1, <1>2, <1>3, <1>4, <1>5 DEF Next, Copying, Walking, Sweeping

(* No version becomes whole again.                                         *)
LEMMA HistoryGrows == [Next]_vars => cut \subseteq cut' /\ short \subseteq short'
<1> SUFFICES ASSUME [Next]_vars PROVE cut \subseteq cut' /\ short \subseteq short'
  OBVIOUS
<1> USE DEF history
<1>1. ASSUME NEW p \in Processes,
             \/ Run(p) \/ Create(p) \/ Check(p) \/ CopyRow(p) \/ CopyRefused(p)
             \/ EndCopy(p) \/ EndCopyOrdered(p) \/ Backup(p) \/ BackupFails(p) \/ Kill(p)
             \/ \E v \in 1..Len(copies) : Synchronize(p, v) \/ Destroy(p, v)
             \/ \E t \in GwTrees : Screen(p, t)
      PROVE  cut \subseteq cut' /\ short \subseteq short'
  BY <1>1 DEF Run, Create, Check, BeginCopy, CopyRow, CopyRefused, EndCopy, EndCopyOrdered, Backup,
              BackupFails, Kill, Synchronize, Destroy, Screen
<1>2. ASSUME NEW p \in Processes, Walking(p) \/ Sweeping(p) \/ SaveRefused(p)
      PROVE  cut \subseteq cut' /\ short \subseteq short'
  BY <1>2 DEF Walking, Sweeping, Reset, SaveGroup, SaveUser, NextGroups, EndWalk, DestroyUser, EndUsers,
              DestroyGroup, EndSync, SaveRefused
<1>3. (\E t \in LdapTrees : Change(t)) \/ (\E t \in GwTrees : Order(t)) \/ UNCHANGED vars
      => cut \subseteq cut' /\ short \subseteq short'
  BY DEF Change, Order, vars
<1> QED BY <1>1, <1>2, <1>3 DEF Next, Copying

(* Who is clean after going on with its job was so before.                 *)
LEMMA WasClean ==
  ASSUME [Next]_vars, NEW p, p \in mixed => p \in mixed',
         job'[p].ver = job[p].ver, job'[p].order = job[p].order, job[p].bad => job'[p].bad
  PROVE  Clean(p)' => Clean(p)
  BY HistoryGrows DEF Clean

(* A walk or a sweep does not forget what was refused.                     *)
LEMMA StaysBad ==
  ASSUME Types, NEW p \in Processes, Walking(p) \/ SaveRefused(p) \/ DestroyUser(p) \/ EndUsers(p) \/ DestroyGroup(p)
  PROVE  job[p].bad => job'[p].bad
<1>1. /\ DOMAIN job = Processes /\ {"todo", "doomed", "bad"} \subseteq DOMAIN job[p]
  BY DEF Types, JobRows, JobRow, JobFields
<1>2. \E x : job' \in {[job EXCEPT ![p].todo = x], [job EXCEPT ![p].doomed = x],
                       [job EXCEPT ![p].todo = x, ![p].bad = TRUE]}
  BY DEF Walking, Reset, SaveGroup, SaveUser, NextGroups, EndWalk, SaveRefused, DestroyUser, EndUsers, DestroyGroup
<1> QED BY <1>1, <1>2

(* The rows a clean synchronisation walks over are those of its tree.      *)
LEMMA CleanSource ==
  ASSUME Types, CopyInv, NEW p \in Processes, pc[p] \notin {"idle", "copy"}, Clean(p)
  PROVE  /\ Range(WalkSource(p)) = Rows(job[p].tree) /\ WalkSource(p) \in Seq(Row)
         /\ job[p].tree \in DOMAIN Trees /\ Rows(job[p].tree) \in SUBSET Row
<1>1. WalkSource(p) \in Seq(Row) /\ job[p].tree \in DOMAIN Trees /\ job[p].ver \in 0..Len(copies)
  BY SourceRows, JobOf DEF JobRow
<1>2. Range(WalkSource(p)) = Rows(job[p].tree)
  <2>1. CASE job[p].ver = 0
    BY <2>1 DEF WalkSource, Rows
  <2>2. CASE job[p].ver # 0
    <3>1. Fine(job[p].ver) /\ Copied(job[p].ver)
      BY <2>2 DEF CopyInv, PastCopy, Clean, Fine
    <3>2. job[p].ver \in 1..Len(copies) /\ job[p].tree = origin[job[p].ver]
      BY <1>1, <2>2 DEF CopyInv, JobTrees, Types, Versions
    <3> QED BY <2>2, <3>1, <3>2 DEF WalkSource, CopyInv, CopiesWhole
  <2> QED BY <2>1, <2>2
<1>3. Range(WalkSource(p)) \in SUBSET Row
  BY <1>1, RangeOfSeq
<1> QED BY <1>1, <1>2, <1>3

(* No group becomes the program's own.                                     *)
LEMMA LocalNext ==
  ASSUME Types, LocalStay, [Next]_vars
  PROVE  LocalStay'
<1>1. CASE UNCHANGED tables
  BY <1>1 DEF LocalStay, Own, tables
<1>2. CASE ~UNCHANGED tables
  <2>1. PICK q \in AtTables : Reset(q) \/ SaveGroup(q) \/ SaveUser(q) \/ DestroyUser(q) \/ DestroyGroup(q)
    BY <1>2, TablesStep
  <2>2. q \in Processes
    BY DEF AtTables, Busy
  <2>3. CASE Reset(q)
    BY <2>2, <2>3, ResetSteps DEF LocalStay, Own
  <2>4. CASE SaveGroup(q)
    <3>1. \/ groups' = groups
          \/ \E g : /\ DOMAIN groups' = DOMAIN groups \cup {g} /\ groups'[g].ldap
                     /\ \A h \in DOMAIN groups \ {g} : groups'[h] = groups[h]
      BY <2>2, <2>4, SaveGroupSteps
    <3> QED BY <3>1 DEF LocalStay, Own
  <2>5. CASE SaveUser(q) \/ DestroyUser(q)
    BY <2>2, <2>5, SaveUserSteps, DestroyUserSteps DEF LocalStay, Own
  <2>6. CASE DestroyGroup(q)
    BY <2>2, <2>6, DestroyGroupSteps DEF LocalStay, Own
  <2> QED BY <2>1, <2>3, <2>4, <2>5, <2>6
<1> QED BY <1>1, <1>2

(* Reset: a walk begins.                                                   *)
LEMMA ResetSpares ==
  ASSUME Types, CopyInv, [Next]_vars, NEW p \in Processes, Reset(p)
  PROVE  Sparing(p)'
<1>1. /\ SameJob(p) /\ pc[p] = "sync" /\ pc'[p] = "walk" /\ UNCHANGED mixed
      /\ job'[p].todo = Below(WalkSource(p), "group", Root)
  BY ResetSteps
<1>2. SUFFICES ASSUME NEW t, t = job[p].tree, Clean(p)'
               PROVE  \E S \in SUBSET Rows(t) : /\ Walks(S, job'[p].todo, Rows(t))
                                                /\ UsersMarked(S)' /\ GroupsMarked(S)' /\ Hung(S, t)'
  BY <1>1 DEF Sparing, SameJob
<1>3. Clean(p)
  BY <1>1, <1>2, WasClean, StaysBad DEF SameJob, Walking
<1>4. Range(WalkSource(p)) = Rows(t) /\ WalkSource(p) \in Seq(Row)
  BY <1>1, <1>2, <1>3, CleanSource
<1>5. Walks({}, Below(WalkSource(p), "group", Root), Rows(t))
  BY <1>4, WalkBegins
<1>6. Walks({}, job'[p].todo, Rows(t))
  BY <1>1, <1>5
<1>7. UsersMarked({})' /\ GroupsMarked({})' /\ Hung({}, t)'
  BY DEF UsersMarked, GroupsMarked, Hung
<1> QED BY <1>6, <1>7

(* SaveGroup: the group is not outdated, and hangs where its row says.     *)
LEMMA SaveGroupSpares ==
  ASSUME Types, CopyInv, NEW p \in Processes, Sparing(p), [Next]_vars, SaveGroup(p)
  PROVE  Sparing(p)'
<1> SUFFICES ASSUME NEW t, t = job[p].tree, NEW r, r = Head(job[p].todo) PROVE Sparing(p)'
  OBVIOUS
<1>1. /\ SameJob(p) /\ pc[p] = "walk" /\ pc'[p] = "walk" /\ UNCHANGED <<mixed, users>>
      /\ job[p].todo # <<>> /\ r.kind = "group"
      /\ job'[p].todo = Onwards(p, WalkSource(p))
      /\ \/ groups' = groups /\ r.code \in DOMAIN groups /\ ~groups[r.code].ldap
         \/ /\ DOMAIN groups' = DOMAIN groups \cup {r.code}
            /\ \A g \in DOMAIN groups \ {r.code} : groups'[g] = groups[g]
            /\ groups'[r.code].ldap /\ groups'[r.code].current
            /\ groups'[r.code].parent \in {r.above, Lost}
  BY SaveGroupSteps
<1>2. SUFFICES ASSUME Clean(p)'
               PROVE  \E S \in SUBSET Rows(t) : /\ Walks(S, job'[p].todo, Rows(t))
                                                /\ UsersMarked(S)' /\ GroupsMarked(S)' /\ Hung(S, t)'
  BY <1>1 DEF Sparing, SameJob
<1>3. Clean(p)
  BY <1>1, <1>2, WasClean, StaysBad DEF SameJob, Walking
<1>4. /\ Range(WalkSource(p)) = Rows(t) /\ WalkSource(p) \in Seq(Row) /\ t \in DOMAIN Trees
      /\ job[p].todo \in Seq(Item)
  BY <1>1, <1>3, CleanSource, JobOf
<1>5. PICK S \in SUBSET Rows(t) : /\ Walks(S, job[p].todo, Rows(t))
                                  /\ UsersMarked(S) /\ GroupsMarked(S) /\ Hung(S, t)
  BY <1>1, <1>3 DEF Sparing
<1>6. Walks(S \cup {r}, job'[p].todo, Rows(t)) /\ r \in Rows(t)
  <2>1. Walks(S, job[p].todo, Range(WalkSource(p)))
    BY <1>4, <1>5
  <2>2. Walks(S \cup {r}, Onwards(p, WalkSource(p)), Range(WalkSource(p))) /\ r \in Range(WalkSource(p))
    BY <1>1, <1>4, <2>1, WalkGroup
  <2> QED BY <1>1, <1>4, <2>2
<1>7. UsersMarked(S \cup {r})'
  BY <1>1, <1>5 DEF UsersMarked
<1>8. GroupsMarked(S \cup {r})'
  <2>1. Outdated(groups') \subseteq Outdated(groups) /\ r.code \notin Outdated(groups')
    BY <1>1 DEF Outdated
  <2> QED BY <1>5, <2>1 DEF GroupsMarked
<1>9. Hung(S \cup {r}, t)'
  <2>1. r.above \in Listed("group", t) \cup {Root}
    BY <1>4, <1>6, RowsHang
  <2>2. ASSUME NEW x \in S \cup {r}, x.kind = "group", x.code \in DOMAIN groups', groups'[x.code].ldap
        PROVE  groups'[x.code].parent \in Listed("group", t) \cup {Root, Lost}
    <3>1. CASE x.code = r.code
      <4>1. CASE groups' = groups /\ ~groups[r.code].ldap
        BY <2>2, <3>1, <4>1
      <4>2. CASE groups'[r.code].parent \in {r.above, Lost}
        BY <2>1, <3>1, <4>2
      <4> QED BY <1>1, <4>1, <4>2
    <3>2. CASE x.code # r.code
      <4>1. x \in S /\ x.code \in DOMAIN groups /\ groups'[x.code] = groups[x.code]
        BY <1>1, <2>2, <3>2
      <4> QED BY <1>5, <2>2, <4>1 DEF Hung
    <3> QED BY <3>1, <3>2
  <2> QED BY <2>2 DEF Hung
<1> QED BY <1>6, <1>7, <1>8, <1>9, <1>5

(* The other steps of a walk.                                              *)
LEMMA WalkSpares ==
  ASSUME Types, CopyInv, NEW p \in Processes, Sparing(p), [Next]_vars,
         SaveUser(p) \/ NextGroups(p) \/ SaveRefused(p)
  PROVE  Sparing(p)'
<1> SUFFICES ASSUME NEW t, t = job[p].tree, NEW r, r = Head(job[p].todo) PROVE Sparing(p)'
  OBVIOUS
<1>1. /\ SameJob(p) /\ pc[p] = "walk" /\ pc'[p] = "walk" /\ UNCHANGED <<mixed, groups>>
      /\ job[p].todo # <<>> /\ (SaveRefused(p) => job'[p].bad)
  BY SaveUserSteps, WalkOnSteps DEF tables, SaveRefused, SaveUser
<1>2. SUFFICES ASSUME Clean(p)'
               PROVE  \E S \in SUBSET Rows(t) : /\ Walks(S, job'[p].todo, Rows(t))
                                                /\ UsersMarked(S)' /\ GroupsMarked(S)' /\ Hung(S, t)'
  BY <1>1 DEF Sparing, SameJob
<1>3. Clean(p)
  BY <1>1, <1>2, WasClean, StaysBad DEF SameJob, Walking
<1>4. /\ Range(WalkSource(p)) = Rows(t) /\ WalkSource(p) \in Seq(Row) /\ t \in DOMAIN Trees
      /\ job[p].todo \in Seq(Item) /\ Rows(t) \in SUBSET Row
  BY <1>1, <1>3, CleanSource, JobOf
<1>5. PICK S \in SUBSET Rows(t) : /\ Walks(S, job[p].todo, Rows(t))
                                  /\ UsersMarked(S) /\ GroupsMarked(S) /\ Hung(S, t)
  BY <1>1, <1>3 DEF Sparing
<1>6. \A D : (GroupsMarked(D) => GroupsMarked(D)') /\ (Hung(D, t) => Hung(D, t)')
  BY <1>1 DEF GroupsMarked, Hung, Outdated
<1>7. CASE SaveUser(p)
  <2>1. /\ r.kind = "user" /\ r.code \notin Outdated(users') /\ job'[p].todo = Tail(job[p].todo)
        /\ \A u \in Outdated(users') : u \in Outdated(users)
    BY <1>7, SaveUserSteps
  <2>2. Walks(S \cup {r}, Tail(job[p].todo), Rows(t)) /\ r \in Rows(t)
    BY <1>1, <1>4, <1>5, <2>1, WalkUser
  <2>3. UsersMarked(S \cup {r})'
    BY <1>5, <2>1 DEF UsersMarked
  <2>4. GroupsMarked(S \cup {r})' /\ Hung(S \cup {r}, t)'
    <3>1. GroupsMarked(S \cup {r}) /\ Hung(S \cup {r}, t)
      BY <1>5, <2>1 DEF GroupsMarked, Hung
    <3> QED BY <1>6, <3>1
  <2>5. S \cup {r} \in SUBSET Rows(t) /\ Walks(S \cup {r}, job'[p].todo, Rows(t))
    BY <2>1, <2>2
  <2> QED BY <2>3, <2>4, <2>5
<1>8. CASE NextGroups(p)
  <2>1. r.kind = "next" /\ job'[p].todo = Onwards(p, WalkSource(p)) /\ UNCHANGED users
    BY <1>8, JobOf DEF NextGroups, tables, Types, JobRows, JobRow, JobFields
  <2>2. Walks(S, job[p].todo, Range(WalkSource(p)))
    BY <1>4, <1>5
  <2>3. Walks(S, Onwards(p, WalkSource(p)), Range(WalkSource(p)))
    BY <1>1, <1>4, <2>1, <2>2, WalkMark
  <2>4. UsersMarked(S)'
    BY <1>5, <2>1 DEF UsersMarked, Outdated
  <2> QED BY <1>4, <1>5, <1>6, <2>1, <2>3, <2>4
<1>9. CASE SaveRefused(p)
  BY <1>1, <1>2, <1>9 DEF Clean
<1> QED BY <1>7, <1>8, <1>9

(* The walk ends: it has been at every row of the tree.                    *)
LEMMA EndWalkSpares ==
  ASSUME Types, NEW p \in Processes, Sparing(p), [Next]_vars, EndWalk(p)
  PROVE  Sparing(p)'
<1> SUFFICES ASSUME NEW t, t = job[p].tree PROVE Sparing(p)'
  OBVIOUS
<1>1. /\ SameJob(p) /\ UNCHANGED <<mixed, tables>>
      /\ pc[p] = "walk" /\ pc'[p] = "users" /\ job'[p].doomed = Outdated(users)
  BY SweepSteps DEF EndWalk
<1>2. job[p].todo = <<>> /\ t \in DOMAIN Trees
  BY JobOf DEF EndWalk, JobRow
<1>3. SUFFICES ASSUME Clean(p)'
               PROVE  /\ job'[p].doomed \cap Listed("user", t) = {}
                      /\ GroupsMarked(Rows(t))' /\ Hung(Rows(t), t)'
  BY <1>1 DEF Sparing, SameJob
<1>4. Clean(p)
  BY <1>1, <1>3, WasClean, StaysBad DEF SameJob, Walking
<1>5. PICK S \in SUBSET Rows(t) : /\ Walks(S, job[p].todo, Rows(t))
                                  /\ UsersMarked(S) /\ GroupsMarked(S) /\ Hung(S, t)
  BY <1>1, <1>4 DEF Sparing
<1>6. S = Rows(t)
  BY <1>2, <1>5, WalkEnds
<1>7. Outdated(users) \cap Listed("user", t) = {}
  BY <1>5, <1>6 DEF UsersMarked, Listed, Rows
<1>8. GroupsMarked(Rows(t))' /\ Hung(Rows(t), t)'
  BY <1>1, <1>5, <1>6 DEF GroupsMarked, Hung, Outdated, tables
<1> QED BY <1>1, <1>7, <1>8

(* The sweep: users, ...                                                   *)
LEMMA SweepUsersSpares ==
  ASSUME Types, NEW p \in Processes, Sparing(p), [Next]_vars, DestroyUser(p) \/ EndUsers(p)
  PROVE  Sparing(p)'
<1> SUFFICES ASSUME NEW t, t = job[p].tree PROVE Sparing(p)'
  OBVIOUS
<1>1. /\ SameJob(p) /\ UNCHANGED <<mixed, groups>> /\ pc[p] = "users"
      /\ \/ pc'[p] = "users" /\ job'[p].doomed \subseteq job[p].doomed
         \/ pc'[p] = "groups" /\ job'[p].doomed \subseteq Outdated(groups)
  BY DestroyUserSteps, SweepSteps DEF tables, EndUsers
<1>2. SUFFICES ASSUME Clean(p)' PROVE Sparing(p)'
  BY DEF Sparing
<1>3. Clean(p)
  BY <1>1, <1>2, WasClean, StaysBad DEF SameJob
<1>4. /\ job[p].doomed \cap Listed("user", t) = {}
      /\ GroupsMarked(Rows(t)) /\ Hung(Rows(t), t)
  BY <1>1, <1>3 DEF Sparing
<1>5. GroupsMarked(Rows(t))' /\ Hung(Rows(t), t)'
  BY <1>1, <1>4 DEF GroupsMarked, Hung, Outdated
<1>6. Outdated(groups) \cap Listed("group", t) = {}
  BY <1>4 DEF GroupsMarked, Listed, Rows
<1>7. job'[p].tree = t
  BY <1>1 DEF SameJob
<1>8. CASE pc'[p] = "users" /\ job'[p].doomed \subseteq job[p].doomed
  BY <1>4, <1>5, <1>7, <1>8 DEF Sparing
<1>9. CASE pc'[p] = "groups" /\ job'[p].doomed \subseteq Outdated(groups)
  BY <1>5, <1>6, <1>7, <1>9 DEF Sparing
<1> QED BY <1>1, <1>8, <1>9

(* ... and groups.                                                         *)
LEMMA SweepGroupsSpares ==
  ASSUME Types, NEW p \in Processes, Sparing(p), [Next]_vars, DestroyGroup(p)
  PROVE  Sparing(p)'
<1> SUFFICES ASSUME NEW t, t = job[p].tree PROVE Sparing(p)'
  OBVIOUS
<1>1. /\ SameJob(p) /\ UNCHANGED mixed /\ pc[p] = "groups" /\ pc'[p] = "groups"
      /\ job'[p].doomed \subseteq job[p].doomed /\ DOMAIN groups' \subseteq DOMAIN groups
      /\ \A g \in DOMAIN groups' : groups'[g] = groups[g]
  BY DestroyGroupSteps
<1>2. SUFFICES ASSUME Clean(p)' PROVE Sparing(p)'
  BY DEF Sparing
<1>3. Clean(p)
  BY <1>1, <1>2, WasClean, StaysBad DEF SameJob
<1>4. job[p].doomed \cap Listed("group", t) = {} /\ Hung(Rows(t), t)
  BY <1>1, <1>3 DEF Sparing
<1>5. Hung(Rows(t), t)'
  BY <1>1, <1>4 DEF Hung
<1>6. job'[p].tree = t
  BY <1>1 DEF SameJob
<1> QED BY <1>1, <1>4, <1>5, <1>6 DEF Sparing

(* Another process goes on with its job while p makes a step: if it is     *)
(* clean, p is not at the tables, and leaves them alone.                   *)
LEMMA SpareOthers ==
  ASSUME Types, Sharing, NEW p \in Processes, [Next]_vars, Alone(p),
         \/ mixed' = mixed /\ (p \in AtTables' => p \in AtTables)
         \/ Meet(p) /\ p \notin AtTables,
         p \notin AtTables => UNCHANGED tables,
         NEW q \in Processes \ {p}, Sparing(q)
  PROVE  Sparing(q)'
<1>1. pc'[q] = pc[q] /\ job'[q] = job[q] /\ (q \in mixed => q \in mixed')
  BY SharingStep DEF Alone
<1>2. SUFFICES ASSUME Clean(q)' PROVE Sparing(q)'
  BY DEF Sparing
<1>3. Clean(q) /\ q \notin mixed
  BY <1>1, <1>2, WasClean DEF Clean
<1>4. CASE UNCHANGED tables
  <2> DEFINE t == job[q].tree
  <2>1. \A D : /\ UsersMarked(D) => UsersMarked(D)'
               /\ GroupsMarked(D) => GroupsMarked(D)'
               /\ Hung(D, t) => Hung(D, t)'
    BY <1>1, <1>4 DEF UsersMarked, GroupsMarked, Hung, Outdated, tables
  <2> QED BY <1>1, <1>3, <2>1 DEF Sparing
<1>5. CASE p \in AtTables
  <2>1. q \notin AtTables
    BY <1>3, <1>5 DEF Sharing
  <2>2. pc'[q] \in {"idle", "copy"}
    BY <1>1, <2>1 DEF AtTables, Busy
  <2> QED BY <2>2 DEF Sparing
<1> QED BY <1>4, <1>5

(* A process that is not between the walk and the end of the sweep.        *)
LEMMA NoSpare ==
  ASSUME NEW p, pc'[p] \notin {"walk", "users", "groups"}
  PROVE  Sparing(p)'
  BY DEF Sparing

(* A step of p that leaves p sparing what it was given.                    *)
LEMMA SpareStep ==
  ASSUME Types, Sharing, SpareInv, NEW p \in Processes, [Next]_vars, Alone(p),
         \/ mixed' = mixed /\ (p \in AtTables' => p \in AtTables)
         \/ Meet(p) /\ p \notin AtTables,
         p \notin AtTables => UNCHANGED tables,
         Sparing(p)'
  PROVE  SpareInv'
<1>1. \A q \in Processes \ {p} : Sparing(q)'
  BY SpareOthers DEF SpareInv
<1> QED BY <1>1, LocalNext DEF SpareInv

(* The initial states: nobody walks.                                       *)
LEMMA SpareInit == Init => SpareInv
<1> SUFFICES ASSUME Init PROVE SpareInv
  OBVIOUS
<1>1. groups = FirstGroups /\ \A p \in Processes : pc[p] = "idle"
  BY DEF Init
<1> QED BY <1>1 DEF SpareInv, LocalStay, Sparing

(* Every step keeps it.                                                    *)
LEMMA SpareNext == BackInv /\ CopyInv /\ SpareInv /\ [Next]_vars => SpareInv'
<1> SUFFICES ASSUME BackInv, CopyInv, SpareInv, [Next]_vars PROVE SpareInv'
  OBVIOUS
<1>0. Types /\ Sharing /\ \A p \in Processes : Sparing(p)
  BY DEF BackInv, SpareInv
<1>1. ASSUME NEW p \in Processes, Run(p) \/ Create(p) \/ Check(p) PROVE SpareInv'
  <2>1. Alone(p) /\ pc'[p] = "copy" /\ UNCHANGED <<tables, mixed>>
    BY <1>0, <1>1, BeginSteps
  <2> QED BY <1>0, <2>1, AtTablesStep, NoSpare, SpareStep
<1>2. ASSUME NEW p \in Processes,
             (\E v \in 1..Len(copies) : Synchronize(p, v)) \/ (\E t \in GwTrees : Screen(p, t))
      PROVE  SpareInv'
  <2>1. Alone(p) /\ pc[p] = "idle" /\ pc'[p] = "sync" /\ UNCHANGED tables /\ Meet(p)
    BY <1>0, <1>2, MeetSteps
  <2> QED BY <1>0, <2>1, NoSpare, AtTablesStep, SpareStep
<1>3. ASSUME NEW p \in Processes, CopyRow(p) \/ CopyRefused(p) PROVE SpareInv'
  <2>1. Alone(p)
    BY <1>0, <1>3, TypesCopy
  <2>2. pc[p] = "copy" /\ UNCHANGED <<tables, mixed, pc>>
    BY <1>3 DEF CopyRow, CopyRefused
  <2> QED BY <1>0, <2>1, <2>2, AtTablesStep, NoSpare, SpareStep
<1>4. ASSUME NEW p \in Processes, EndCopy(p) \/ EndCopyOrdered(p) PROVE SpareInv'
  <2>1. Alone(p)
    BY <1>0, <1>4, TypesCopy
  <2>2. /\ UNCHANGED tables /\ pc[p] = "copy"
        /\ \/ pc'[p] = "idle" /\ UNCHANGED mixed
           \/ pc'[p] \in {"sync", "backup"} /\ Meet(p)
    BY <1>0, <1>4, EndCopySteps
  <2> QED BY <1>0, <2>1, <2>2, NoSpare, AtTablesStep, SpareStep
<1>5. ASSUME NEW p \in Processes, Backup(p) \/ BackupFails(p) PROVE SpareInv'
  <2>1. Alone(p)
    BY <1>0, <1>5, TypesCopy
  <2>2. /\ pc[p] = "backup" /\ UNCHANGED <<mixed, tables>>
        /\ \E l \in {"sync", "idle"} : pc' = [pc EXCEPT ![p] = l]
    BY <1>5 DEF Backup, BackupFails, Finish, Goto
  <2>3. pc'[p] \in {"sync", "idle"}
    BY <1>0, <2>2, GotoAlone
  <2> QED BY <1>0, <2>1, <2>2, <2>3, NoSpare, AtTablesStep, SpareStep
<1>6. ASSUME NEW p \in Processes, Alone(p), UNCHANGED mixed, pc[p] \notin {"idle", "copy"}, Sparing(p)'
      PROVE  SpareInv'
  BY <1>0, <1>6, AtTablesStep, SpareStep
<1>7. ASSUME NEW p \in Processes, Reset(p) PROVE SpareInv'
  <2>1. Alone(p) /\ pc[p] = "sync" /\ UNCHANGED mixed
    BY <1>0, <1>7, ResetSteps
  <2> QED BY <1>0, <1>6, <1>7, <2>1, ResetSpares
<1>8. ASSUME NEW p \in Processes, SaveGroup(p) PROVE SpareInv'
  <2>1. Alone(p) /\ pc[p] = "walk" /\ UNCHANGED mixed
    BY <1>0, <1>8, SaveGroupSteps
  <2> QED BY <1>0, <1>6, <1>8, <2>1, SaveGroupSpares
<1>9. ASSUME NEW p \in Processes, SaveUser(p) \/ NextGroups(p) \/ SaveRefused(p) PROVE SpareInv'
  <2>1. Alone(p) /\ pc[p] = "walk" /\ UNCHANGED mixed
    BY <1>0, <1>9, SaveUserSteps, WalkOnSteps
  <2> QED BY <1>0, <1>6, <1>9, <2>1, WalkSpares
<1>10. ASSUME NEW p \in Processes, EndWalk(p) \/ EndUsers(p) \/ DestroyUser(p) \/ DestroyGroup(p)
       PROVE  SpareInv'
  <2>1. Alone(p) /\ pc[p] \in {"walk", "users", "groups"} /\ UNCHANGED mixed
    BY <1>0, <1>10, SweepSteps, DestroyUserSteps, DestroyGroupSteps
  <2> QED BY <1>0, <1>6, <1>10, <2>1, EndWalkSpares, SweepUsersSpares, SweepGroupsSpares
<1>11. ASSUME NEW p \in Processes, EndSync(p) \/ Kill(p) PROVE SpareInv'
  <2>1. Alone(p) /\ pc'[p] = "idle" /\ UNCHANGED <<tables, mixed>>
    BY <1>0, <1>11, EndSteps
  <2> QED BY <1>0, <2>1, NoSpare, AtTablesStep, SpareStep
<1>12. ASSUME \/ \E p \in Processes, v \in 1..Len(copies) : Destroy(p, v)
              \/ \E t \in LdapTrees : Change(t)
              \/ \E t \in GwTrees : Order(t)
              \/ UNCHANGED vars
       PROVE  SpareInv'
  <2>1. UNCHANGED <<tables, mixed, pc, job>>
    BY <1>0, <1>12, OutsideSteps
  <2>2. ASSUME NEW q \in Processes PROVE Sparing(q)'
    <3>1. Clean(q)' => Clean(q)
      BY <2>1, WasClean
    <3> DEFINE t == job[q].tree
    <3>2. \A D : /\ UsersMarked(D)' <=> UsersMarked(D)
                 /\ GroupsMarked(D)' <=> GroupsMarked(D)
                 /\ Hung(D, t)' <=> Hung(D, t)
      BY <2>1 DEF UsersMarked, GroupsMarked, Hung, Outdated, tables
    <3> QED BY <1>0, <2>1, <3>1, <3>2 DEF Sparing
  <2> QED BY <1>0, <2>2, LocalNext DEF SpareInv
<1> QED
  BY <1>1, <1>2, <1>3, <1>4, <1>5, <1>7, <1>8, <1>9, <1>10, <1>11, <1>12
  DEF Next, Copying, Walking, Sweeping

(* What ListedAreSpared says of the steps of one process.                  *)
ListedSparedStep(p) ==
  (pc[p] \in {"users", "groups"} /\ job[p].doomed # job'[p].doomed /\ Clean(p)) =>
     /\ Listed("user", job[p].tree) \cap DOMAIN users \subseteq DOMAIN users'
     /\ Apart(job[p].tree) = {} =>
           Listed("group", job[p].tree) \cap DOMAIN groups \subseteq DOMAIN groups'

(* No group of the tree is below one that is not, when none of them is the *)
(* program's own.                                                          *)
LEMMA SubtreeSpared ==
  ASSUME GroupRows, LocalStay, NEW t \in DOMAIN Trees, Apart(t) = {}, Hung(Rows(t), t),
         NEW g, g \notin Listed("group", t)
  PROVE  Subtree(g) \cap Listed("group", t) = {}
<1> DEFINE S == DOMAIN groups \ Listed("group", t)
<1>1. ASSUME NEW h \in DOMAIN groups, groups[h].parent \in S PROVE h \in S
  <2>1. SUFFICES ASSUME h \in Listed("group", t) PROVE FALSE
    OBVIOUS
  <2>2. PICK r \in Rows(t) : r.kind = "group" /\ r.code = h
    BY <2>1 DEF Listed, Rows
  <2>3. groups[h].ldap
    BY <2>1 DEF Apart, LocalStay, Own, GroupRows
  <2>4. groups[h].parent \in Listed("group", t) \cup {Root, Lost}
    BY <2>2, <2>3 DEF Hung
  <2> QED BY <1>1, <2>4, SynchroAssumption DEF GroupRows
<1>2. Closed(S) /\ S \in SUBSET DOMAIN groups /\ {g} \cap DOMAIN groups \subseteq S
  BY <1>1 DEF Closed
<1> HIDE DEF S
<1>3. Subtree(g) \subseteq S
  BY <1>2, SubtreeLeast
<1> QED BY <1>3 DEF S

(* A clean sweep destroys nothing of its tree.                             *)
LEMMA SpareSweep ==
  ASSUME BackInv, SpareInv, [Next]_vars, NEW p \in Processes
  PROVE  ListedSparedStep(p)
<1> SUFFICES ASSUME pc[p] \in {"users", "groups"}, Clean(p), NEW t, t = job[p].tree
             PROVE  /\ Listed("user", t) \cap DOMAIN users \subseteq DOMAIN users'
                    /\ Apart(t) = {} => Listed("group", t) \cap DOMAIN groups \subseteq DOMAIN groups'
  BY DEF ListedSparedStep
<1>1. Types /\ Sharing /\ Sparing(p) /\ LocalStay /\ t \in DOMAIN Trees
  BY JobOf DEF BackInv, SpareInv, JobRow
<1>2. AtTables = {p}
  BY <1>1 DEF Sharing, AtTables, Busy, Clean
<1>3. CASE UNCHANGED tables
  BY <1>3 DEF tables
<1>4. CASE DestroyUser(p)
  <2>1. PICK u \in job[p].doomed : DOMAIN users' = DOMAIN users \ {u}
    BY <1>1, <1>4, DestroyUserSteps
  <2>2. pc[p] = "users" /\ UNCHANGED groups
    BY <1>1, <1>4, DestroyUserSteps
  <2> QED BY <1>1, <2>1, <2>2 DEF Sparing
<1>5. CASE DestroyGroup(p)
  <2>1. PICK g \in job[p].doomed : DOMAIN groups' = DOMAIN groups \ Subtree(g)
    BY <1>1, <1>5, DestroyGroupSteps
  <2>2. pc[p] = "groups" /\ DOMAIN users' = DOMAIN users
    BY <1>1, <1>5, DestroyGroupSteps
  <2>3. g \notin Listed("group", t) /\ Hung(Rows(t), t)
    BY <1>1, <2>2 DEF Sparing
  <2>4. Apart(t) = {} => Subtree(g) \cap Listed("group", t) = {}
    BY <1>1, <2>3, SubtreeSpared DEF Types
  <2> QED BY <2>1, <2>2, <2>4
<1>6. CASE ~UNCHANGED tables
  <2>1. PICK q \in AtTables : Reset(q) \/ SaveGroup(q) \/ SaveUser(q) \/ DestroyUser(q) \/ DestroyGroup(q)
    BY <1>1, <1>6, TablesStep
  <2>2. q = p
    BY <1>2, <2>1
  <2> QED BY <1>4, <1>5, <2>1, <2>2 DEF Reset, SaveGroup, SaveUser
<1> QED BY <1>3, <1>6

(* Whatever other processes do and whatever earlier synchronisations have  *)
(* left behind, a synchronisation that nothing disturbed destroys no user  *)
(* and no group of the tree it was given (ListedAreSpared).                *)
THEOREM ListedSpared == Spec => ListedAreSpared
<1>1. BackInv /\ SpareInv /\ [Next]_vars => \A p \in Processes : ListedSparedStep(p)
  BY SpareSweep
<1>2. BackInv /\ SpareInv /\ [Next]_vars => [\A p \in Processes : ListedSparedStep(p)]_vars
  BY <1>1
<1>3. BackInv => Types
  BY DEF BackInv
<1>4. Spec => []BackInv
  BY BackInit, BackNext, PTL DEF Spec
<1>5. Spec => []CopyInv
  BY <1>3, <1>4, CopyInit, CopyNext, PTL DEF Spec
<1>6. Spec => []SpareInv
  BY <1>4, <1>5, SpareInit, SpareNext, PTL DEF Spec
<1>7. Spec => [][\A p \in Processes : ListedSparedStep(p)]_vars
  BY <1>2, <1>4, <1>6, PTL DEF Spec
<1> QED BY <1>7 DEF ListedAreSpared, ListedSparedStep
---------------------------------------------------------------------------
(* An order that succeeds leaves the tables as its tree.                   *)

(* The order in which a tree is listed, and what of it a list stands for:  *)
(* a row for its place, a mark for the places of the groups below it.      *)
Listing(T) ==
  /\ \A i, j \in DOMAIN T :
       T[i] = T[j] \/ (T[i].kind = "group" /\ T[j].kind = "group" /\ T[i].code = T[j].code) => i = j
  /\ \A i \in DOMAIN T :
       T[i].above = Root \/ \E h \in 1..(i - 1) : T[h].kind = "group" /\ T[h].code = T[i].above
  /\ \A i, j \in DOMAIN T :
       T[i].kind = "user" /\ T[j].kind = "group" /\ T[i].above = T[j].above => i < j
  /\ \A h, i, j \in DOMAIN T :
       T[h].kind = "group" /\ T[j].above = T[h].code /\ h < i /\ i < j =>
         \E g \in h..(i - 1) : T[g].kind = "group" /\ T[g].code = T[i].above
Direct(T, x) == {i \in DOMAIN T : IF x.kind = "next" THEN T[i].kind = "group" /\ T[i].above = x.code
                                  ELSE T[i] = x}
Due(T, todo) == {i \in DOMAIN T : \E a \in DOMAIN todo : i \in Direct(T, todo[a])}
Ordered(T, todo) == \A a, b \in DOMAIN todo : a < b =>
                      \A i \in Direct(T, todo[a]), j \in Direct(T, todo[b]) : i < j
(* The row at i is below the root or one of the first n groups.            *)
Under(T, n, i) == T[i].above = Root \/ \E h \in 1..n : T[h].kind = "group" /\ T[h].code = T[i].above
(* The walk over T has been at its first n rows, and todo is what is left. *)
Turn(T, n, todo) ==
  /\ n \in 0..Len(T)
  /\ Due(T, todo) = {i \in DOMAIN T : n < i /\ Under(T, n, i)}
  /\ Ordered(T, todo)
  /\ \A a \in DOMAIN todo : todo[a].kind = "next" \/ todo[a] \in Range(T)

(* The trees are listed in that order.                                     *)
LEMMA TreesListed ==
  ASSUME NEW t \in DOMAIN Trees
  PROVE  Trees[t] \in Seq(Row) /\ Listing(Trees[t])
  BY SynchroAssumption, OrderAssumption DEF Listing

(* The rows below a row are in the order of the tree.                      *)
LEMMA BelowOrder ==
  ASSUME NEW T \in Seq(Row), Listing(T), NEW kind, NEW code, kind # "next",
         NEW a \in DOMAIN Below(T, kind, code), NEW b \in DOMAIN Below(T, kind, code), a < b,
         NEW i \in DOMAIN T, NEW j \in DOMAIN T,
         T[i] = Below(T, kind, code)[a], T[j] = Below(T, kind, code)[b]
  PROVE  i < j
<1> DEFINE places == {x \in DOMAIN T : T[x].kind = kind /\ T[x].above = code}
           P(x) == {y \in places : y <= x}
           Place(n) == CHOOSE x \in places : Cardinality(P(x)) = n
           c == Cardinality(places)
<1>1. places \in SUBSET Nat /\ places \subseteq 1..Len(T) /\ Len(T) \in Nat /\ places \subseteq DOMAIN T
  OBVIOUS
<1>2. IsFiniteSet(places) /\ c \in Nat
  <2>1. IsFiniteSet(1..Len(T))
    BY <1>1, FS_Interval
  <2> HIDE DEF places
  <2>2. IsFiniteSet(places)
    BY <1>1, <2>1, FS_Subset
  <2> QED BY <2>2, FS_CardinalityType DEF c
<1>3. Below(T, kind, code) = [n \in 1..c |-> T[Place(n)]]
  BY DEF Below
<1>4. ASSUME NEW n \in 1..c PROVE Place(n) \in places /\ Cardinality(P(Place(n))) = n
  <2> HIDE DEF places
  <2>1. \E x \in places : Cardinality(P(x)) = n
    BY <1>1, <1>2, Places DEF c
  <2> QED BY <2>1
<1>5. a \in 1..c /\ b \in 1..c /\ T[i] = T[Place(a)] /\ T[j] = T[Place(b)]
  <2> HIDE DEF Place, c
  <2> QED BY <1>3
<1>6. i = Place(a) /\ j = Place(b)
  <2>1. Place(a) \in DOMAIN T /\ Place(b) \in DOMAIN T
    BY <1>1, <1>4, <1>5
  <2> HIDE DEF Place
  <2> QED BY <1>5, <2>1 DEF Listing
<1>7. i \in places /\ j \in places /\ Cardinality(P(i)) = a /\ Cardinality(P(j)) = b
  BY <1>4, <1>5, <1>6
<1> HIDE DEF places, Place
<1>8. SUFFICES ASSUME j <= i PROVE FALSE
  BY <1>1, <1>7
<1>9. P(j) \subseteq P(i) /\ P(i) \subseteq places
  <2>1. \A y \in places : y <= j => y <= i
    BY <1>1, <1>7, <1>8
  <2> QED BY <2>1
<1>10. IsFiniteSet(P(i))
  BY <1>2, <1>9, FS_Subset
<1>11. Cardinality(P(j)) <= Cardinality(P(i))
  BY <1>9, <1>10, FS_Subset
<1> QED BY <1>2, <1>5, <1>7, <1>11

(* What lists stand for, taken apart ...                                   *)
LEMMA DueHead ==
  ASSUME NEW T, NEW S, NEW todo \in Seq(S), todo # <<>>, Ordered(T, todo)
  PROVE  /\ Due(T, todo) = Direct(T, Head(todo)) \cup Due(T, Tail(todo))
         /\ Ordered(T, Tail(todo))
         /\ \A i \in Direct(T, Head(todo)), j \in Due(T, Tail(todo)) : i < j
<1> DEFINE rest == Tail(todo)
<1>1. /\ Len(todo) \in Nat \ {0} /\ Head(todo) = todo[1]
      /\ DOMAIN todo = 1..Len(todo) /\ DOMAIN rest = 1..(Len(todo) - 1)
      /\ \A a \in DOMAIN rest : rest[a] = todo[a + 1] /\ a + 1 \in DOMAIN todo
  OBVIOUS
<1>2. \A a \in DOMAIN todo : a = 1 \/ (a - 1 \in DOMAIN rest /\ rest[a - 1] = todo[a])
  BY <1>1
<1> HIDE DEF rest
<1>3. Due(T, todo) \subseteq Direct(T, Head(todo)) \cup Due(T, rest)
  BY <1>1, <1>2 DEF Due
<1>4. 1 \in DOMAIN todo
  BY <1>1
<1>5. Direct(T, Head(todo)) \cup Due(T, rest) \subseteq Due(T, todo)
  BY <1>1, <1>4 DEF Due, Direct
<1>6. Ordered(T, rest)
  <2>1. \A a, b \in DOMAIN rest : a < b => a + 1 < b + 1
    BY <1>1
  <2> QED BY <1>1, <2>1 DEF Ordered
<1>7. \A i \in Direct(T, Head(todo)), j \in Due(T, rest) : i < j
  <2>1. \A a \in DOMAIN rest : 1 < a + 1
    BY <1>1
  <2> QED BY <1>1, <1>4, <2>1 DEF Ordered, Due
<1> QED BY <1>3, <1>5, <1>6, <1>7 DEF rest

(* ... and put together.                                                   *)
LEMMA DueConcat ==
  ASSUME NEW T, NEW S, NEW s \in Seq(S), NEW u \in Seq(S), Ordered(T, s), Ordered(T, u),
         \A i \in Due(T, s), j \in Due(T, u) : i < j
  PROVE  Due(T, s \o u) = Due(T, s) \cup Due(T, u) /\ Ordered(T, s \o u)
<1> DEFINE w == s \o u
<1>1. /\ Len(s) \in Nat /\ Len(u) \in Nat /\ DOMAIN s = 1..Len(s) /\ DOMAIN u = 1..Len(u)
      /\ DOMAIN w = 1..(Len(s) + Len(u))
      /\ \A a \in DOMAIN s : w[a] = s[a]
      /\ \A a \in DOMAIN u : w[Len(s) + a] = u[a]
  OBVIOUS
<1>2. \A a \in DOMAIN w : \/ a \in DOMAIN s
                          \/ \E b \in DOMAIN u : a = Len(s) + b
  <2>1. \A a \in DOMAIN w : a \in DOMAIN s \/ (a - Len(s) \in DOMAIN u /\ a = Len(s) + (a - Len(s)))
    BY <1>1
  <2> QED BY <2>1
<1>3. (\A a \in DOMAIN s : a \in DOMAIN w) /\ \A a \in DOMAIN u : Len(s) + a \in DOMAIN w
  BY <1>1
<1> HIDE DEF w
<1>4. Due(T, w) = Due(T, s) \cup Due(T, u)
  <2>1. Due(T, w) \subseteq Due(T, s) \cup Due(T, u)
    BY <1>1, <1>2 DEF Due
  <2>2. Due(T, s) \cup Due(T, u) \subseteq Due(T, w)
    BY <1>1, <1>3 DEF Due
  <2> QED BY <2>1, <2>2
<1>5. ASSUME NEW a \in DOMAIN w, NEW b \in DOMAIN w, a < b,
             NEW i \in Direct(T, w[a]), NEW j \in Direct(T, w[b])
      PROVE  i < j
  <2>1. CASE a \in DOMAIN s /\ b \in DOMAIN s
    BY <1>1, <1>5, <2>1 DEF Ordered
  <2>2. CASE a \in DOMAIN s /\ \E d \in DOMAIN u : b = Len(s) + d
    <3>1. i \in Due(T, s) /\ j \in Due(T, u)
      BY <1>1, <1>5, <2>2 DEF Due, Direct
    <3> QED BY <3>1
  <2>3. CASE (\E c \in DOMAIN u : a = Len(s) + c) /\ \E d \in DOMAIN u : b = Len(s) + d
    <3>1. PICK c \in DOMAIN u, d \in DOMAIN u : a = Len(s) + c /\ b = Len(s) + d
      BY <2>3
    <3>2. c < d
      BY <1>1, <1>5, <3>1
    <3> QED BY <1>1, <1>5, <3>1, <3>2 DEF Ordered
  <2>4. CASE (\E c \in DOMAIN u : a = Len(s) + c) /\ b \in DOMAIN s
    BY <1>1, <1>5, <2>4
  <2> QED BY <1>2, <2>1, <2>2, <2>3, <2>4
<1> QED BY <1>4, <1>5 DEF Ordered, w

(* The list of the rows below a row.                                       *)
LEMMA DueBelow ==
  ASSUME NEW T \in Seq(Row), Listing(T), NEW kind \in {"user", "group"}, NEW code
  PROVE  /\ Due(T, Below(T, kind, code)) = {i \in DOMAIN T : T[i].kind = kind /\ T[i].above = code}
         /\ Ordered(T, Below(T, kind, code))
<1> DEFINE B == Below(T, kind, code)
<1>1. /\ Range(B) = {r \in Range(T) : r.kind = kind /\ r.above = code}
      /\ \A n \in DOMAIN B : B[n].kind = kind /\ B[n].above = code
  BY BelowRows
<1>2. \A a \in DOMAIN B, i \in DOMAIN T : i \in Direct(T, B[a]) <=> T[i] = B[a]
  BY <1>1 DEF Direct
<1>3. ASSUME NEW a \in DOMAIN B, NEW b \in DOMAIN B, a < b,
             NEW i \in Direct(T, B[a]), NEW j \in Direct(T, B[b])
      PROVE  i < j
  <2>1. i \in DOMAIN T /\ j \in DOMAIN T /\ T[i] = B[a] /\ T[j] = B[b]
    BY <1>2 DEF Direct
  <2> QED BY <1>3, <2>1, BelowOrder
<1> HIDE DEF B
<1>4. \A i \in DOMAIN T : i \in Due(T, B) <=> T[i] \in Range(B)
  BY <1>2 DEF Due, Range
<1>5. \A i \in DOMAIN T : T[i] \in Range(T)
  BY DEF Range
<1>6. Due(T, B) = {i \in DOMAIN T : T[i].kind = kind /\ T[i].above = code}
  BY <1>1, <1>4, <1>5 DEF Due
<1>7. Ordered(T, B)
  BY <1>3 DEF Ordered
<1> QED BY <1>6, <1>7 DEF B

(* The row at the head of the list is the next one of the tree.            *)
LEMMA TurnHead ==
  ASSUME NEW T \in Seq(Row), Listing(T), NEW todo \in Seq(Item), todo # <<>>, NEW n, Turn(T, n, todo),
         Head(todo).kind # "next"
  PROVE  /\ n \in Nat /\ n + 1 \in DOMAIN T /\ T[n + 1] = Head(todo)
         /\ Direct(T, Head(todo)) = {n + 1}
<1> DEFINE r == Head(todo)
<1>1. n \in Nat /\ Len(T) \in Nat /\ DOMAIN T = 1..Len(T) /\ Ordered(T, todo)
      /\ Due(T, todo) = {i \in DOMAIN T : n < i /\ Under(T, n, i)}
  BY DEF Turn
<1>2. r \in Range(T)
  <2>1. 1 \in DOMAIN todo /\ r = todo[1]
    OBVIOUS
  <2> QED BY <2>1 DEF Turn
<1> HIDE DEF r
<1>3. PICK i \in DOMAIN T : T[i] = r
  BY <1>2 DEF Range
<1>4. Direct(T, r) = {i}
  BY <1>3 DEF Direct, Listing, r
<1>5. Due(T, todo) = {i} \cup Due(T, Tail(todo)) /\ \A j \in Due(T, Tail(todo)) : i < j
  BY <1>1, <1>4, DueHead DEF r
<1>6. n < i /\ i \in Nat /\ n + 1 \in DOMAIN T
  BY <1>1, <1>5
<1>7. n + 1 \in Due(T, todo)
  <2>1. 1..((n + 1) - 1) = 1..n /\ n < n + 1
    BY <1>1
  <2>2. Under(T, n, n + 1)
    BY <1>6, <2>1 DEF Listing, Under
  <2> QED BY <1>1, <1>6, <2>1, <2>2
<1>8. n + 1 = i
  BY <1>1, <1>5, <1>6, <1>7
<1> QED BY <1>1, <1>3, <1>4, <1>6, <1>8 DEF r

(* Rows of the tree and marks.                                             *)
Turned(T, s) == \A a \in DOMAIN s : s[a].kind = "next" \/ s[a] \in Range(T)

(* Two such lists after one another are one.                               *)
LEMMA TurnedConcat ==
  ASSUME NEW T, NEW s \in Seq(Item), NEW u \in Seq(Item), Turned(T, s), Turned(T, u)
  PROVE  Turned(T, s \o u)
<1> DEFINE Good(x) == x.kind = "next" \/ x \in Range(T)
<1>1. \A x \in Range(s) \cup Range(u) : Good(x)
  BY DEF Turned, Range
<1>2. Range(s \o u) = Range(s) \cup Range(u)
  BY RangeConcatenation
<1>3. \A a \in DOMAIN (s \o u) : (s \o u)[a] \in Range(s \o u)
  BY DEF Range
<1> HIDE DEF Good
<1>4. \A a \in DOMAIN (s \o u) : Good((s \o u)[a])
  BY <1>1, <1>2, <1>3
<1> QED BY <1>4 DEF Turned, Good

(* What is left behind the head is left.                                   *)
LEMMA TurnTail ==
  ASSUME NEW T \in Seq(Row), Listing(T), NEW todo \in Seq(Item), todo # <<>>, NEW n, Turn(T, n, todo)
  PROVE  /\ Ordered(T, Tail(todo)) /\ Turned(T, Tail(todo)) /\ Tail(todo) \in Seq(Item)
         /\ \A i \in Direct(T, Head(todo)), j \in Due(T, Tail(todo)) : i < j
         /\ Direct(T, Head(todo)) \cup Due(T, Tail(todo)) = {i \in DOMAIN T : n < i /\ Under(T, n, i)}
<1>1. Ordered(T, todo) /\ Turned(T, todo) /\ Due(T, todo) = {i \in DOMAIN T : n < i /\ Under(T, n, i)}
  BY DEF Turn, Turned
<1>2. Turned(T, Tail(todo)) /\ Tail(todo) \in Seq(Item)
  <2>1. Tail(todo) \in Seq(Item) /\ \A a \in DOMAIN Tail(todo) : a + 1 \in DOMAIN todo /\ Tail(todo)[a] = todo[a + 1]
    OBVIOUS
  <2> QED BY <1>1, <2>1 DEF Turned
<1> QED BY <1>1, <1>2, DueHead

(* The walk goes on over the mark of a group, ...                          *)
LEMMA TurnMark ==
  ASSUME NEW T \in Seq(Row), Listing(T), NEW todo \in Seq(Item), todo # <<>>, NEW n, Turn(T, n, todo),
         Head(todo).kind = "next"
  PROVE  Turn(T, n, Below(T, "group", Head(todo).code) \o Tail(todo))
<1> DEFINE r == Head(todo)
           B == Below(T, "group", r.code)
           R == Tail(todo)
<1>1. /\ Ordered(T, R) /\ Turned(T, R) /\ R \in Seq(Item)
      /\ \A i \in Direct(T, r), j \in Due(T, R) : i < j
      /\ Direct(T, r) \cup Due(T, R) = {i \in DOMAIN T : n < i /\ Under(T, n, i)}
  BY TurnTail
<1>2. B \in Seq(Row) /\ \A x \in Range(B) : x \in Range(T)
  BY BelowRows
<1>3. Due(T, B) = Direct(T, r) /\ Ordered(T, B)
  BY DueBelow DEF Direct
<1>4. B \in Seq(Item) /\ Turned(T, B)
  <2>1. \A a \in DOMAIN B : B[a] \in Range(B)
    BY DEF Range
  <2> QED BY <1>2, <2>1 DEF Turned, Item
<1> HIDE DEF B, R, r
<1>5. Due(T, B \o R) = Due(T, B) \cup Due(T, R) /\ Ordered(T, B \o R)
  BY <1>1, <1>3, <1>4, DueConcat
<1>6. Turned(T, B \o R)
  BY <1>1, <1>4, TurnedConcat
<1>7. Due(T, B \o R) = {i \in DOMAIN T : n < i /\ Under(T, n, i)}
  BY <1>1, <1>3, <1>5
<1>8. n \in 0..Len(T)
  BY DEF Turn
<1>9. Turn(T, n, B \o R)
  BY <1>5, <1>6, <1>7, <1>8 DEF Turn, Turned
<1> QED BY <1>9 DEF B, R, r

(* ... over a user, ...                                                    *)
LEMMA TurnUser ==
  ASSUME NEW T \in Seq(Row), Listing(T), NEW todo \in Seq(Item), todo # <<>>, NEW n, Turn(T, n, todo),
         Head(todo).kind = "user"
  PROVE  Turn(T, n + 1, Tail(todo))
<1> DEFINE r == Head(todo)
           R == Tail(todo)
<1>1. /\ Ordered(T, R) /\ Turned(T, R)
      /\ \A i \in Direct(T, r), j \in Due(T, R) : i < j
      /\ Direct(T, r) \cup Due(T, R) = {i \in DOMAIN T : n < i /\ Under(T, n, i)}
  BY TurnTail
<1>2. n \in Nat /\ n + 1 \in DOMAIN T /\ T[n + 1] = r /\ Direct(T, r) = {n + 1} /\ r.kind = "user"
  BY TurnHead
<1> HIDE DEF R, r
<1>3. \A i : Under(T, n + 1, i) <=> Under(T, n, i)
  <2>1. 1..(n + 1) = (1..n) \cup {n + 1}
    BY <1>2
  <2> QED BY <1>2, <2>1 DEF Under
<1>4. DOMAIN T = 1..Len(T) /\ Len(T) \in Nat
  OBVIOUS
<1>5. Due(T, R) = {i \in DOMAIN T : n + 1 < i /\ Under(T, n + 1, i)}
  <2>1. \A i \in DOMAIN T : n + 1 < i <=> n < i /\ i # n + 1
    BY <1>2, <1>4
  <2>2. \A i \in Due(T, R) : i \in DOMAIN T /\ n + 1 < i
    BY <1>1, <1>2
  <2> QED BY <1>1, <1>2, <1>3, <2>1, <2>2
<1>6. n + 1 \in 0..Len(T)
  BY <1>2, <1>4
<1>7. Turn(T, n + 1, R)
  BY <1>1, <1>5, <1>6 DEF Turn, Turned
<1> QED BY <1>7 DEF R

(* ... and over a group: its users and the groups below it come before     *)
(* what was on the list behind it.                                         *)
LEMMA TurnGroup ==
  ASSUME NEW T \in Seq(Row), Listing(T), NEW todo \in Seq(Item), todo # <<>>, NEW n, Turn(T, n, todo),
         NEW r, r = Head(todo), r.kind = "group"
  PROVE  Turn(T, n + 1, (Below(T, "user", r.code) \o <<Mark(r)>>) \o Tail(todo))
<1> DEFINE us == Below(T, "user", r.code)
           m == <<Mark(r)>>
           R == Tail(todo)
           L == {i \in DOMAIN T : T[i].above = r.code}
<1>1. /\ Ordered(T, R) /\ Turned(T, R) /\ R \in Seq(Item)
      /\ \A i \in Direct(T, r), j \in Due(T, R) : i < j
      /\ Direct(T, r) \cup Due(T, R) = {i \in DOMAIN T : n < i /\ Under(T, n, i)}
  BY TurnTail
<1>2. n \in Nat /\ n + 1 \in DOMAIN T /\ T[n + 1] = r /\ Direct(T, r) = {n + 1}
  BY TurnHead
<1>3. DOMAIN T = 1..Len(T) /\ Len(T) \in Nat /\ \A i \in DOMAIN T : T[i] \in Row
  OBVIOUS
<1>4. r \in Row /\ r.code \in Groups /\ r.code # Root
  BY <1>2, <1>3, SynchroAssumption DEF Row
<1>5. us \in Seq(Row) /\ us \in Seq(Item) /\ Ordered(T, us) /\ Turned(T, us)
      /\ Due(T, us) = {i \in DOMAIN T : T[i].kind = "user" /\ T[i].above = r.code}
  <2>1. us \in Seq(Row) /\ \A x \in Range(us) : x \in Range(T)
    BY BelowRows
  <2>2. \A a \in DOMAIN us : us[a] \in Range(us)
    BY DEF Range
  <2>3. us \in Seq(Item) /\ Turned(T, us)
    BY <2>1, <2>2 DEF Turned, Item
  <2> QED BY <2>1, <2>3, DueBelow
<1>6. m \in Seq(Item) /\ Ordered(T, m) /\ Turned(T, m)
      /\ Due(T, m) = {i \in DOMAIN T : T[i].kind = "group" /\ T[i].above = r.code}
  <2>1. Mark(r) \in Item /\ Mark(r).kind = "next" /\ Mark(r).code = r.code
    BY <1>4 DEF Mark, Item, Row
  <2>2. DOMAIN m = {1} /\ m[1] = Mark(r)
    OBVIOUS
  <2>3. m \in Seq(Item)
    BY <2>1
  <2> HIDE DEF m
  <2>4. Ordered(T, m) /\ Turned(T, m)
    BY <2>1, <2>2 DEF Ordered, Turned
  <2>5. Due(T, m) = {i \in DOMAIN T : T[i].kind = "group" /\ T[i].above = r.code}
    BY <2>1, <2>2 DEF Due, Direct
  <2> QED BY <2>3, <2>4, <2>5
<1> HIDE DEF us, m, R
<1>7. /\ us \o m \in Seq(Item) /\ Ordered(T, us \o m) /\ Turned(T, us \o m)
      /\ Due(T, us \o m) = L
  <2>1. \A i \in Due(T, us), j \in Due(T, m) : i < j
    BY <1>5, <1>6 DEF Listing
  <2>2. Ordered(T, us \o m) /\ Due(T, us \o m) = Due(T, us) \cup Due(T, m)
    BY <1>5, <1>6, <2>1, DueConcat
  <2>3. Due(T, us) \cup Due(T, m) = L
    BY <1>3, <1>5, <1>6 DEF Row
  <2>4. Turned(T, us \o m)
    BY <1>5, <1>6, TurnedConcat
  <2> QED BY <1>5, <1>6, <2>2, <2>3, <2>4
<1> DEFINE A == us \o m
<1> HIDE DEF A
<1>8. \A h \in DOMAIN T : T[h].kind = "group" /\ T[h].code = r.code => h = n + 1
  BY <1>2 DEF Listing
<1>9. \A i \in L : n + 1 < i
  <2>1. SUFFICES ASSUME NEW i \in L PROVE n + 1 < i
    OBVIOUS
  <2>2. PICK h \in 1..(i - 1) : T[h].kind = "group" /\ T[h].code = r.code
    BY <1>4 DEF Listing
  <2>3. h \in DOMAIN T /\ h < i
    BY <1>3, <2>2
  <2> QED BY <1>8, <2>2, <2>3
<1>10. \A j \in Due(T, R) : j \in DOMAIN T /\ n + 1 < j /\ Under(T, n, j) /\ T[j].above # r.code
  <2>1. SUFFICES ASSUME NEW j \in Due(T, R) PROVE j \in DOMAIN T /\ n + 1 < j /\ Under(T, n, j) /\ T[j].above # r.code
    OBVIOUS
  <2>2. j \in DOMAIN T /\ n + 1 < j /\ Under(T, n, j)
    BY <1>1, <1>2
  <2>3. ASSUME NEW h \in 1..n, T[h].kind = "group", T[h].code = r.code PROVE FALSE
    BY <1>2, <1>3, <1>8, <2>3
  <2> QED BY <1>4, <2>2, <2>3 DEF Under
<1>11. \A i \in L, j \in Due(T, R) : i < j
  <2>1. SUFFICES ASSUME NEW i \in L, NEW j \in Due(T, R), j <= i PROVE FALSE
    BY <1>3, <1>10
  <2>2. j \in DOMAIN T /\ n + 1 < j /\ j < i /\ Under(T, n, j)
    BY <1>3, <1>10, <2>1
  <2>3. PICK g \in (n + 1)..(j - 1) : T[g].kind = "group" /\ T[g].code = T[j].above
    BY <1>2, <2>2 DEF Listing
  <2>4. g \in DOMAIN T /\ g > n
    BY <1>2, <1>3, <2>2, <2>3
  <2>5. T[j].above # Root
    BY <1>3, <2>3, <2>4, SynchroAssumption DEF Row
  <2>6. PICK h \in 1..n : T[h].kind = "group" /\ T[h].code = T[j].above
    BY <2>2, <2>5 DEF Under
  <2>7. h \in DOMAIN T /\ h < g
    BY <1>2, <1>3, <2>4, <2>6
  <2>8. h = g
    BY <2>3, <2>4, <2>6, <2>7 DEF Listing
  <2> QED BY <1>2, <2>4, <2>6, <2>7, <2>8
<1>12. Due(T, A \o R) = L \cup Due(T, R) /\ Ordered(T, A \o R)
  <2>1. A \in Seq(Item) /\ Ordered(T, A) /\ Due(T, A) = L
    BY <1>7 DEF A
  <2> HIDE DEF L
  <2> QED BY <1>1, <1>11, <2>1, DueConcat
<1>13. Turned(T, A \o R)
  BY <1>1, <1>7, TurnedConcat DEF A
<1>14. L \cup Due(T, R) = {i \in DOMAIN T : n + 1 < i /\ Under(T, n + 1, i)}
  <2>1. \A i : Under(T, n + 1, i) <=> Under(T, n, i) \/ T[i].above = r.code
    <3>1. 1..(n + 1) = (1..n) \cup {n + 1}
      BY <1>2
    <3> QED BY <1>2, <3>1 DEF Under
  <2>2. \A i \in DOMAIN T : n + 1 < i <=> n < i /\ i # n + 1
    BY <1>2, <1>3
  <2> QED BY <1>1, <1>2, <1>9, <1>10, <2>1, <2>2
<1>15. n + 1 \in 0..Len(T)
  BY <1>2, <1>3
<1>16. Turn(T, n + 1, A \o R)
  BY <1>12, <1>13, <1>14, <1>15 DEF Turn, Turned
<1> QED BY <1>16 DEF A, us, m, R

(* The walk begins with the groups right below the root, ...               *)
LEMMA TurnBegins ==
  ASSUME NEW T \in Seq(Row), Listing(T)
  PROVE  Turn(T, 0, Below(T, "group", Root))
<1> DEFINE B == Below(T, "group", Root)
<1>1. Due(T, B) = {i \in DOMAIN T : T[i].kind = "group" /\ T[i].above = Root} /\ Ordered(T, B)
  BY DueBelow
<1>2. \A a \in DOMAIN B : B[a] \in Range(T)
  <2>1. \A x \in Range(B) : x \in Range(T)
    BY BelowRows
  <2> QED BY <2>1 DEF Range
<1> HIDE DEF B
<1>3. DOMAIN T = 1..Len(T) /\ Len(T) \in Nat /\ \A i \in DOMAIN T : T[i] \in Row
  OBVIOUS
<1>4. \A i \in DOMAIN T : 0 < i /\ (Under(T, 0, i) <=> T[i].kind = "group" /\ T[i].above = Root)
  <2>1. \A i \in DOMAIN T : T[i].above = Root => T[i].kind = "group"
    BY <1>3, SynchroAssumption DEF Row
  <2>2. 1..0 = {}
    OBVIOUS
  <2> QED BY <1>3, <2>1, <2>2 DEF Under
<1>5. Due(T, B) = {i \in DOMAIN T : 0 < i /\ Under(T, 0, i)}
  BY <1>1, <1>4
<1>6. 0 \in 0..Len(T)
  BY <1>3
<1> QED BY <1>1, <1>2, <1>5, <1>6 DEF Turn, B

(* ... and has been at all rows when nothing is left.                      *)
LEMMA TurnEnds ==
  ASSUME NEW T \in Seq(Row), Listing(T), NEW n, Turn(T, n, <<>>)
  PROVE  n = Len(T)
<1>1. n \in 0..Len(T) /\ Len(T) \in Nat /\ DOMAIN T = 1..Len(T)
  BY DEF Turn
<1>2. Due(T, <<>>) = {}
  BY DEF Due
<1>3. SUFFICES ASSUME n # Len(T) PROVE FALSE
  OBVIOUS
<1>4. n + 1 \in DOMAIN T /\ n < n + 1 /\ 1..((n + 1) - 1) = 1..n
  <2>1. n \in Nat /\ n < Len(T)
    <3>1. \A x \in Nat : \A y \in 0..x : y # x => y \in Nat /\ y < x
      OBVIOUS
    <3> QED BY <1>1, <1>3, <3>1
  <2>2. n + 1 \in 1..Len(T) /\ n < n + 1 /\ (n + 1) - 1 = n
    BY <1>1, <2>1
  <2> QED BY <1>1, <2>2
<1>5. Under(T, n, n + 1)
  BY <1>4 DEF Listing, Under
<1> QED BY <1>2, <1>4, <1>5 DEF Turn

(* A version that is not being copied is its tree, and one that is holds   *)
(* the rows the walk of its copy has been at.                              *)
Prefix(c, T) == Len(c) <= Len(T) /\ \A i \in DOMAIN c : c[i] = T[i]
CopyIsTree(v) == Fine(v) /\ Copied(v) => copies[v] = Trees[origin[v]]
CopyTurn(p) ==
  pc[p] = "copy" /\ Fine(job[p].ver) =>
    /\ Prefix(copies[job[p].ver], Trees[job[p].tree])
    /\ Turn(Trees[job[p].tree], Len(copies[job[p].ver]), job[p].todo)
OrderInv == /\ \A v \in 1..Len(copies) : CopyIsTree(v)
            /\ \A p \in Processes : CopyTurn(p)

(* A step of p that touches at most the version k leaves the copies of the *)
(* others, and the other versions, as they are.                            *)
LEMMA OrderOthers ==
  ASSUME Types, CopyInv, OrderInv, NEW p \in Processes, Alone(p), NEW k,
         cut \subseteq cut', short \subseteq short',
         \A v \in 1..Len(copies) : v # k => copies'[v] = copies[v] /\ origin'[v] = origin[v],
         pc[p] = "copy" => job[p].ver = k,
         Fine(k)' => \A q \in Processes \ {p} : pc[q] = "copy" => job[q].ver # k
  PROVE  /\ \A q \in Processes \ {p} : CopyTurn(q)'
         /\ \A v \in 1..Len(copies) : v # k => CopyIsTree(v)'
<1>1. \A q \in Processes \ {p} : pc'[q] = pc[q] /\ job'[q] = job[q]
  BY DEF Alone
<1>2. \A v : Fine(v)' => Fine(v)
  BY DEF Fine
<1>3. ASSUME NEW q \in Processes \ {p} PROVE CopyTurn(q)'
  <2>1. SUFFICES ASSUME NEW v, v = job[q].ver, pc[q] = "copy", Fine(v)' PROVE CopyTurn(q)'
    BY <1>1 DEF CopyTurn, Fine
  <2>2. v # k
    BY <2>1
  <2>3. v \in 1..Len(copies)
    BY <2>1 DEF CopyInv, OneCopier, Types, Versions, JobRows, JobRow
  <2>4. Fine(v) /\ copies'[v] = copies[v] /\ CopyTurn(q)
    BY <1>2, <2>1, <2>2, <2>3 DEF OrderInv
  <2> QED BY <1>1, <2>1, <2>4 DEF CopyTurn
<1>4. ASSUME NEW v \in 1..Len(copies), v # k PROVE CopyIsTree(v)'
  <2>1. Copied(v)' => Copied(v)
    BY <1>1, <1>4 DEF Copied
  <2> QED BY <1>2, <1>4, <2>1 DEF CopyIsTree, OrderInv
<1> QED BY <1>3, <1>4

(* A step of p that neither begins, makes nor ends a copy.                 *)
LEMMA QuietOrder ==
  ASSUME Types, CopyInv, OrderInv, NEW p \in Processes, Alone(p), pc[p] # "copy", pc'[p] # "copy",
         UNCHANGED <<copies, origin>>, cut \subseteq cut', short \subseteq short'
  PROVE  OrderInv'
<1>1. \A q \in Processes \ {p} : pc[q] = "copy" => job[q].ver # 0
  BY DEF CopyInv, OneCopier
<1>2. \A v \in 1..Len(copies) : v # 0
  BY DEF Types, Versions
<1>3. /\ \A q \in Processes \ {p} : CopyTurn(q)'
      /\ \A v \in 1..Len(copies) : v # 0 => CopyIsTree(v)'
  BY <1>1, OrderOthers
<1>4. CopyTurn(p)'
  BY DEF CopyTurn
<1> QED BY <1>2, <1>3, <1>4 DEF OrderInv

(* A copy is begun: of its version nothing is there, ...                   *)
LEMMA BeginOrder ==
  ASSUME Types, CopyInv, OrderInv, NEW p \in Processes, NEW then, NEW tree \in DOMAIN Trees, NEW order,
         BeginCopy(p, then, tree, order)
  PROVE  OrderInv'
<1> SUFFICES ASSUME NEW k, k = Len(copies) + 1 PROVE OrderInv'
  OBVIOUS
<1> DEFINE todo == Below(Trees[tree], "group", Root)
           j == [NoJob EXCEPT !.ver = k, !.tree = tree, !.order = order, !.then = then, !.todo = todo]
<1>1. /\ pc[p] = "idle" /\ pc' = [pc EXCEPT ![p] = "copy"] /\ job' = [job EXCEPT ![p] = j]
      /\ copies' = Append(copies, <<>>) /\ origin' = Append(origin, tree)
      /\ UNCHANGED <<short, cut>>
  BY DEF BeginCopy, Goto
<1>2. DOMAIN j = JobFields /\ j.ver = k /\ j.tree = tree /\ j.todo = todo
  BY DEF NoJob, JobFields
<1>3. Turn(Trees[tree], 0, todo)
  BY TreesListed, TurnBegins
<1> HIDE DEF j, todo
<1>4. Alone(p) /\ pc'[p] = "copy" /\ job'[p] = j
  BY <1>1, <1>2 DEF Types, JobRows, Alone, JobFields
<1>5. /\ Len(copies) \in Nat /\ Len(copies') = k /\ copies'[k] = <<>>
      /\ \A v \in 1..Len(copies) : v # k /\ copies'[v] = copies[v] /\ origin'[v] = origin[v]
  <2>1. copies \in Seq(Seq(Row)) /\ origin \in Seq(DOMAIN Trees) /\ Len(origin) = Len(copies)
    BY DEF Types, Versions
  <2>2. <<>> \in Seq(Row)
    OBVIOUS
  <2> QED BY <1>1, <2>1, <2>2
<1>6. \A q \in Processes : job[q].ver # k
  <2>1. \A q \in Processes : job[q].ver \in 0..Len(copies)
    BY DEF Types, JobRows, JobRow
  <2> QED BY <1>5, <2>1
<1>7. /\ \A q \in Processes \ {p} : CopyTurn(q)'
      /\ \A v \in 1..Len(copies) : v # k => CopyIsTree(v)'
  BY <1>1, <1>4, <1>5, <1>6, OrderOthers
<1>8. CopyIsTree(k)'
  BY <1>2, <1>4 DEF CopyIsTree, Copied
<1>9. CopyTurn(p)'
  <2>1. Len(copies'[k]) = 0 /\ DOMAIN copies'[k] = {}
    BY <1>5
  <2>2. Len(Trees[tree]) \in Nat
    BY TreesListed
  <2>3. Prefix(copies'[k], Trees[tree])
    BY <2>1, <2>2 DEF Prefix
  <2>4. job'[p].ver = k /\ job'[p].tree = tree /\ job'[p].todo = todo
    BY <1>2, <1>4
  <2> QED BY <1>3, <2>1, <2>3, <2>4 DEF CopyTurn
<1>10. \A v \in 1..k : v \in 1..Len(copies) \/ v = k
  BY <1>5
<1> QED BY <1>5, <1>7, <1>8, <1>9, <1>10 DEF OrderInv

(* ... a row is added when the walk comes to it, ...                       *)
LEMMA CopyRowOrder ==
  ASSUME Types, CopyInv, OrderInv, NEW p \in Processes, CopyRow(p)
  PROVE  OrderInv'
<1> SUFFICES ASSUME NEW k, k = job[p].ver, NEW r, r = Head(job[p].todo), NEW t, t = job[p].tree PROVE OrderInv'
  OBVIOUS
<1> USE DEF history
<1>1. /\ pc[p] = "copy" /\ job[p].todo # <<>> /\ UNCHANGED <<pc, origin, short, cut>>
      /\ copies' = IF r.kind = "next" THEN copies ELSE [copies EXCEPT ![k] = Append(copies[k], r)]
      /\ job' = [job EXCEPT ![p].todo = Onwards(p, CopySource(p)), ![p].got = job[p].got \cup {r.kind}]
  BY DEF CopyRow
<1>2. k \in 1..Len(copies) /\ \A q \in Processes \ {p} : pc[q] = "copy" => job[q].ver # k
  BY <1>1 DEF CopyInv, OneCopier, Types, Versions, JobRows, JobRow
<1>3. copies \in Seq(Seq(Row)) /\ copies[k] \in Seq(Row) /\ k \in DOMAIN copies
  BY <1>2 DEF Types, Versions
<1>4. /\ Len(copies') = Len(copies)
      /\ \A v \in 1..Len(copies) : v # k => copies'[v] = copies[v]
      /\ copies'[k] = IF r.kind = "next" THEN copies[k] ELSE Append(copies[k], r)
  BY <1>1, <1>3
<1>5. /\ Alone(p) /\ job'[p].ver = k /\ job'[p].tree = t /\ job'[p].todo = Onwards(p, CopySource(p))
  BY <1>1 DEF Types, JobRows, JobRow, JobFields, Alone
<1>6. /\ \A q \in Processes \ {p} : CopyTurn(q)'
      /\ \A v \in 1..Len(copies) : v # k => CopyIsTree(v)'
  BY <1>1, <1>2, <1>4, <1>5, OrderOthers
<1>7. CopyIsTree(k)'
  BY <1>1, <1>5 DEF CopyIsTree, Copied
<1>8. ASSUME Fine(k) PROVE Prefix(copies'[k], Trees[t]) /\ Turn(Trees[t], Len(copies'[k]), job'[p].todo)
  <2> DEFINE T == Trees[t]
             n == Len(copies[k])
             rest == Tail(job[p].todo)
  <2>1. T \in Seq(Row) /\ Listing(T) /\ job[p].todo \in Seq(Item) /\ r \in Item /\ rest \in Seq(Item)
    BY <1>1, JobOf, TreesListed DEF JobRow
  <2>2. Prefix(copies[k], T) /\ Turn(T, n, job[p].todo) /\ CopySource(p) = T
    <3>1. job[p].order = 0 => dir = t
      BY <1>1, <1>8 DEF CopyInv, CopyPhase
    <3> QED BY <1>1, <1>8, <3>1 DEF OrderInv, CopyTurn, CopySource
  <2>3. job'[p].todo = Expand(T, r) \o rest
    BY <1>5, <2>2 DEF Onwards
  <2> HIDE DEF T, rest
  <2>4. CASE r.kind = "next"
    <3>1. Turn(T, n, Below(T, "group", r.code) \o rest)
      BY <1>1, <2>1, <2>2, <2>4, TurnMark DEF rest
    <3> QED BY <1>4, <2>2, <2>3, <2>4, <3>1 DEF Expand, T
  <2>5. CASE r.kind # "next"
    <3>1. n \in Nat /\ n + 1 \in DOMAIN T /\ T[n + 1] = r
      BY <1>1, <2>1, <2>2, <2>5, TurnHead
    <3>2. /\ copies'[k] = Append(copies[k], r) /\ Len(copies'[k]) = n + 1
          /\ \A i \in DOMAIN copies'[k] :
               (i = n + 1 /\ copies'[k][i] = r) \/ (i \in DOMAIN copies[k] /\ copies'[k][i] = copies[k][i])
      <4>1. r \in Row /\ copies'[k] = Append(copies[k], r)
        BY <1>4, <2>1, <2>5 DEF Item
      <4>2. \A c \in Seq(Row) : /\ Len(Append(c, r)) = Len(c) + 1
                                /\ \A i \in DOMAIN Append(c, r) :
                                     (i = Len(c) + 1 /\ Append(c, r)[i] = r) \/ (i \in DOMAIN c /\ Append(c, r)[i] = c[i])
        BY <4>1
      <4> QED BY <1>3, <4>1, <4>2
    <3>3. Prefix(copies'[k], T)
      <4>1. n + 1 <= Len(T)
        BY <2>1, <3>1
      <4> QED BY <2>2, <3>1, <3>2, <4>1 DEF Prefix
    <3>4. Turn(T, n + 1, Expand(T, r) \o rest)
      <4>1. CASE r.kind = "user"
        <5>1. Turn(T, n + 1, rest)
          BY <1>1, <2>1, <2>2, <4>1, TurnUser DEF rest
        <5>2. Expand(T, r) \o rest = rest
          BY <2>1, <4>1 DEF Expand
        <5> QED BY <5>1, <5>2
      <4>2. CASE r.kind = "group"
        <5>1. Turn(T, n + 1, (Below(T, "user", r.code) \o <<Mark(r)>>) \o rest)
          BY <1>1, <2>1, <2>2, <4>2, TurnGroup DEF rest
        <5> QED BY <4>2, <5>1 DEF Expand, Mark
      <4> QED BY <2>1, <2>5, <4>1, <4>2 DEF Item, Row
    <3> QED BY <2>3, <3>2, <3>3, <3>4 DEF T
  <2> QED BY <2>4, <2>5
<1>9. CopyTurn(p)'
  BY <1>1, <1>5, <1>8 DEF CopyTurn, Fine
<1> QED BY <1>2, <1>4, <1>6, <1>7, <1>9 DEF OrderInv

(* ... and at its end it holds the tree; unless a row was refused or the   *)
(* copy broken off.                                                        *)
LEMMA EndCopyOrder ==
  ASSUME Types, CopyInv, OrderInv, NEW p \in Processes,
         CopyRefused(p) \/ EndCopy(p) \/ EndCopyOrdered(p) \/ (Kill(p) /\ pc[p] = "copy")
  PROVE  OrderInv'
<1> SUFFICES ASSUME NEW k, k = job[p].ver, NEW t, t = job[p].tree PROVE OrderInv'
  OBVIOUS
<1> USE DEF history
<1>1. pc[p] = "copy" /\ UNCHANGED <<copies, origin>> /\ cut \subseteq cut' /\ short \subseteq short'
  BY DEF CopyRefused, EndCopy, EndCopyOrdered, Kill
<1>2. /\ k \in 1..Len(copies) /\ t = origin[k]
      /\ \A q \in Processes \ {p} : pc[q] = "copy" => job[q].ver # k
  BY <1>1 DEF CopyInv, OneCopier, JobTrees, Types, Versions, JobRows, JobRow
<1>3. Alone(p)
  BY TypesCopy, EndSteps
<1>4. /\ \A q \in Processes \ {p} : CopyTurn(q)'
      /\ \A v \in 1..Len(copies) : v # k => CopyIsTree(v)'
  BY <1>1, <1>2, <1>3, OrderOthers
<1>5. CASE CopyRefused(p) \/ Kill(p)
  <2>1. ~Fine(k)' /\ (pc'[p] = "copy" => job'[p].ver = k)
    <3>1. CASE CopyRefused(p)
      <4>1. short' = short \cup {k} /\ job' = [job EXCEPT ![p].todo = Tail(job[p].todo), ![p].bad = TRUE]
        BY <3>1 DEF CopyRefused
      <4>2. job'[p].ver = k
        BY <4>1 DEF Types, JobRows, JobRow, JobFields
      <4> QED BY <4>1, <4>2 DEF Fine
    <3>2. CASE Kill(p)
      <4>1. cut' = cut \cup {k} /\ pc' = [pc EXCEPT ![p] = "idle"]
        BY <1>1, <3>2 DEF Kill, Copiers, Busy, Finish, Goto
      <4>2. pc'[p] = "idle"
        BY <4>1 DEF Types, JobRows
      <4> QED BY <4>1, <4>2 DEF Fine
    <3> QED BY <1>5, <3>1, <3>2
  <2>2. CopyTurn(p)' /\ CopyIsTree(k)'
    BY <2>1 DEF CopyTurn, CopyIsTree
  <2> QED BY <1>1, <1>2, <1>4, <2>2 DEF OrderInv
<1>6. CASE EndCopy(p) \/ EndCopyOrdered(p)
  <2>1. job[p].todo = <<>> /\ UNCHANGED <<cut, short>> /\ pc'[p] # "copy"
    BY <1>6, EndCopySteps DEF EndCopy, EndCopyOrdered
  <2>2. CopyTurn(p)'
    BY <2>1 DEF CopyTurn
  <2>3. ASSUME Fine(k) PROVE copies[k] = Trees[t]
    <3>1. Prefix(copies[k], Trees[t]) /\ Turn(Trees[t], Len(copies[k]), <<>>)
      BY <1>1, <2>1, <2>3 DEF OrderInv, CopyTurn
    <3>2. Trees[t] \in Seq(Row) /\ Listing(Trees[t]) /\ copies[k] \in Seq(Row)
      BY <1>2, JobOf, TreesListed DEF JobRow, Types, Versions
    <3>3. Len(copies[k]) = Len(Trees[t])
      BY <3>1, <3>2, TurnEnds
    <3> HIDE DEF Turn
    <3> QED BY <3>1, <3>2, <3>3 DEF Prefix
  <2>4. CopyIsTree(k)'
    BY <1>1, <1>2, <2>1, <2>3 DEF CopyIsTree, Fine
  <2> QED BY <1>1, <1>2, <1>4, <2>2, <2>4 DEF OrderInv
<1> QED BY <1>5, <1>6

(* A version that is destroyed is cut; nothing else changes one.           *)
LEMMA OutsideOrder ==
  ASSUME Types, CopyInv, OrderInv,
         \/ \E p \in Processes, v \in 1..Len(copies) : Destroy(p, v)
         \/ \E t \in LdapTrees : Change(t)
         \/ \E t \in GwTrees : Order(t)
         \/ UNCHANGED vars
  PROVE  OrderInv'
<1> USE DEF history
<1>1. UNCHANGED <<pc, job, origin, short>> /\ cut \subseteq cut'
  BY DEF Destroy, Change, Order, vars
<1>2. Len(copies') = Len(copies) /\ \A v \in 1..Len(copies) : v \notin cut' => copies'[v] = copies[v]
  <2>1. ASSUME NEW p \in Processes, NEW v \in 1..Len(copies), Destroy(p, v)
        PROVE  Len(copies') = Len(copies) /\ \A w \in 1..Len(copies) : w \notin cut' => copies'[w] = copies[w]
    BY <2>1 DEF Destroy, Types, Versions
  <2> QED BY <2>1 DEF Change, Order, vars
<1>3. \A v : (Copied(v)' <=> Copied(v)) /\ (Fine(v)' => Fine(v) /\ v \notin cut')
  BY <1>1 DEF Copied, Fine
<1>4. ASSUME NEW v \in 1..Len(copies) PROVE CopyIsTree(v)'
  BY <1>1, <1>2, <1>3 DEF OrderInv, CopyIsTree
<1>5. ASSUME NEW q \in Processes PROVE CopyTurn(q)'
  <2>1. pc[q] = "copy" => job[q].ver \in 1..Len(copies)
    BY DEF CopyInv, OneCopier, Types, Versions, JobRows, JobRow
  <2> QED BY <1>1, <1>2, <1>3, <2>1 DEF OrderInv, CopyTurn
<1> QED BY <1>2, <1>4, <1>5 DEF OrderInv

(* The initial states, without versions.                                   *)
LEMMA OrderInit == Init => OrderInv
<1> SUFFICES ASSUME Init PROVE OrderInv
  OBVIOUS
<1>1. copies = <<>> /\ Len(<<>>) = 0 /\ \A p \in Processes : pc[p] = "idle"
  BY DEF Init
<1>2. 1..Len(copies) = {}
  BY <1>1
<1> QED BY <1>1, <1>2 DEF OrderInv, CopyTurn

(* Every step keeps the order of the copies.                               *)
LEMMA OrderNext == Types /\ CopyInv /\ OrderInv /\ [Next]_vars => OrderInv'
<1> SUFFICES ASSUME Types, CopyInv, OrderInv, [Next]_vars PROVE OrderInv'
  OBVIOUS
<1>0. cut \subseteq cut' /\ short \subseteq short'
  BY HistoryGrows
<1>1. ASSUME NEW p \in Processes, Run(p) \/ Create(p) \/ Check(p) PROVE OrderInv'
  <2>1. \E then, order : \E tree \in DOMAIN Trees : BeginCopy(p, then, tree, order)
    <3>1. dir \in DOMAIN Trees /\ \A i \in 1..Len(orders) : orders[i].tree \in DOMAIN Trees
      <4>1. dir \in DOMAIN Trees /\ orders \in Seq(OrderRow)
        BY DEF Types, Versions
      <4>2. \A i \in 1..Len(orders) : orders[i] \in OrderRow
        BY <4>1
      <4> QED BY <4>1, <4>2 DEF OrderRow
    <3> QED BY <1>1, <3>1 DEF Run, Create, Check
  <2> QED BY <2>1, BeginOrder
<1>2. ASSUME NEW p \in Processes,
             \/ Backup(p) \/ BackupFails(p) \/ Reset(p) \/ SaveGroup(p) \/ SaveUser(p) \/ NextGroups(p)
             \/ SaveRefused(p) \/ EndWalk(p) \/ EndUsers(p) \/ DestroyUser(p) \/ DestroyGroup(p) \/ EndSync(p)
      PROVE  OrderInv'
  <2>1. UNCHANGED <<copies, origin>> /\ Alone(p) /\ pc[p] # "copy" /\ pc'[p] # "copy"
    BY <1>2, BehindCopy
  <2> QED BY <1>0, <2>1, QuietOrder
<1>3. ASSUME NEW p \in Processes, CopyRow(p) \/ CopyRefused(p) \/ EndCopy(p) \/ EndCopyOrdered(p)
      PROVE  OrderInv'
  BY <1>3, CopyRowOrder, EndCopyOrder
<1>4. ASSUME NEW p \in Processes, Kill(p) PROVE OrderInv'
  <2>1. Alone(p) /\ pc'[p] = "idle" /\ UNCHANGED <<copies, origin>>
    BY <1>4, EndSteps DEF Kill
  <2> QED BY <1>0, <1>4, <2>1, EndCopyOrder, QuietOrder
<1>5. ASSUME NEW p \in Processes,
             (\E v \in 1..Len(copies) : Synchronize(p, v)) \/ (\E t \in GwTrees : Screen(p, t))
      PROVE  OrderInv'
  <2>1. Alone(p) /\ pc[p] = "idle" /\ pc'[p] = "sync"
    BY <1>5, MeetSteps
  <2>2. UNCHANGED <<copies, origin>>
    BY <1>5 DEF Synchronize, Screen, history
  <2> QED BY <1>0, <2>1, <2>2, QuietOrder
<1>6. ASSUME \/ \E p \in Processes, v \in 1..Len(copies) : Destroy(p, v)
             \/ \E t \in LdapTrees : Change(t)
             \/ \E t \in GwTrees : Order(t)
             \/ UNCHANGED vars
      PROVE  OrderInv'
  BY <1>6, OutsideOrder
<1> QED BY <1>1, <1>2, <1>3, <1>4, <1>5, <1>6 DEF Next, Copying, Walking, Sweeping

(* An order that a process is at has begun and not ended, and no other     *)
(* process is at it; an order has a version.                               *)
Held(p) == job[p].order # 0 =>
             /\ job[p].order \in 1..Len(orders) /\ job[p].ver # 0
             /\ orders[job[p].order].state \in {"temp", "back", "sync"}
             /\ \A q \in Processes \ {p} : job[q].order # job[p].order
HeldInv == \A p \in Processes : Held(p)

(* What SetOrder does.                                                     *)
LEMMA SetOrderSteps ==
  ASSUME Types, NEW p \in Processes, NEW state, SetOrder(p, state)
  PROVE  /\ Len(orders') = Len(orders)
         /\ \A i \in 1..Len(orders) : i # job[p].order => orders'[i] = orders[i]
         /\ job[p].order \in 1..Len(orders) => orders'[job[p].order].state = state
<1> SUFFICES ASSUME NEW k, k = job[p].order
             PROVE  /\ Len(orders') = Len(orders)
                    /\ \A i \in 1..Len(orders) : i # k => orders'[i] = orders[i]
                    /\ k \in 1..Len(orders) => orders'[k].state = state
  OBVIOUS
<1>1. orders \in Seq(OrderRow) /\ DOMAIN orders = 1..Len(orders)
  BY DEF Types, Versions
<1>2. \A i \in 1..Len(orders) : DOMAIN orders[i] = {"tree", "state"} /\ i # 0
  <2>1. \A i \in 1..Len(orders) : orders[i] \in OrderRow
    BY <1>1
  <2> QED BY <2>1 DEF OrderRow
<1>3. CASE k = 0
  BY <1>2, <1>3 DEF SetOrder
<1>4. CASE k # 0
  <2> DEFINE x == [orders[k] EXCEPT !.state = state]
  <2>1. orders' = [orders EXCEPT ![k] = x]
    BY <1>4 DEF SetOrder
  <2>2. k \in 1..Len(orders) => x.state = state
    BY <1>2
  <2> HIDE DEF x
  <2> QED BY <1>1, <2>1, <2>2
<1> QED BY <1>3, <1>4

(* A step of p touches no order that another process is at.                *)
LEMMA HeldStep ==
  ASSUME Types, HeldInv, NEW p \in Processes, Alone(p), NEW i,
         i = job[p].order \/ (i \in 1..Len(orders) /\ orders[i].state = "start"),
         Len(orders') = Len(orders),
         \A m \in 1..Len(orders) : m # i => orders'[m] = orders[m],
         job'[p].order # 0 => /\ job'[p].order = i /\ job'[p].ver # 0 /\ i \in 1..Len(orders)
                              /\ orders'[i].state \in {"temp", "back", "sync"}
  PROVE  HeldInv'
<1>1. \A q \in Processes \ {p} : job'[q] = job[q]
  BY DEF Alone
<1>2. \A q \in Processes \ {p} : job[q].order # 0 => job[q].order # i
  BY DEF HeldInv, Held
<1>3. Held(p)'
  BY <1>1, <1>2 DEF Held
<1>4. ASSUME NEW q \in Processes \ {p} PROVE Held(q)'
  <2>1. SUFFICES ASSUME NEW k, k = job[q].order, k # 0 PROVE Held(q)'
    BY <1>1 DEF Held
  <2>2. /\ k \in 1..Len(orders) /\ job[q].ver # 0 /\ orders[k].state \in {"temp", "back", "sync"}
        /\ \A s \in Processes \ {q} : job[s].order # k
    BY <2>1 DEF HeldInv, Held
  <2>3. k # i /\ orders'[k] = orders[k]
    BY <1>2, <2>1, <2>2
  <2>4. \A s \in Processes \ {q} : job'[s].order # k
    BY <1>1, <2>1, <2>2, <2>3
  <2> QED BY <1>1, <2>1, <2>2, <2>3, <2>4 DEF Held
<1> QED BY <1>3, <1>4 DEF HeldInv

(* A step in which p goes on with its job and leaves its order alone, or   *)
(* leaves its job.                                                         *)
LEMMA HeldStays ==
  ASSUME Types, HeldInv, NEW p \in Processes, Alone(p), UNCHANGED orders, SameJob(p) \/ job'[p].order = 0
  PROVE  HeldInv'
<1>1. Held(p)
  BY DEF HeldInv
<1>2. job'[p].order # 0 => /\ job'[p].order = job[p].order /\ job'[p].ver # 0 /\ job[p].order \in 1..Len(orders)
                           /\ orders'[job[p].order].state \in {"temp", "back", "sync"}
  BY <1>1 DEF Held, SameJob
<1> QED BY <1>2, HeldStep

(* A step in which p leaves its job and its order, or sets its order.      *)
LEMMA HeldSet ==
  ASSUME Types, HeldInv, NEW p \in Processes, Alone(p), NEW state, SetOrder(p, state),
         job'[p].order = 0 \/ (SameJob(p) /\ state \in {"back", "sync"})
  PROVE  HeldInv'
<1>1. Held(p)
  BY DEF HeldInv
<1>2. /\ Len(orders') = Len(orders)
      /\ \A i \in 1..Len(orders) : i # job[p].order => orders'[i] = orders[i]
      /\ job[p].order \in 1..Len(orders) => orders'[job[p].order].state = state
  BY SetOrderSteps
<1>3. job'[p].order # 0 => /\ job'[p].order = job[p].order /\ job'[p].ver # 0 /\ job[p].order \in 1..Len(orders)
                           /\ orders'[job[p].order].state \in {"temp", "back", "sync"}
  BY <1>1, <1>2 DEF Held, SameJob
<1> QED BY <1>2, <1>3, HeldStep

(* The initial states, without orders.                                     *)
LEMMA HeldInit == Init => HeldInv
<1>1. NoJob.order = 0
  BY DEF NoJob
<1> QED BY <1>1 DEF Init, HeldInv, Held

(* A job that is finished holds no order.                                  *)
LEMMA FinishHolds ==
  ASSUME Types, NEW p \in Processes, Finish(p)
  PROVE  Alone(p) /\ pc'[p] = "idle" /\ job'[p].order = 0
<1>1. pc' = [pc EXCEPT ![p] = "idle"] /\ job' = [job EXCEPT ![p] = NoJob] /\ NoJob.order = 0
  BY DEF Finish, Goto, NoJob
<1> QED BY <1>1, NoJobDoomed DEF Types, JobRows, Alone

(* Check takes an order that is in state "start".                          *)
LEMMA BeginHolds ==
  ASSUME Types, HeldInv, NEW p \in Processes, Run(p) \/ Create(p) \/ Check(p)
  PROVE  HeldInv'
<1>1. Alone(p)
  BY BeginSteps
<1>2. ASSUME NEW then, NEW tree, NEW order, BeginCopy(p, then, tree, order)
      PROVE  job'[p].order = order /\ job'[p].ver # 0
  <2> DEFINE j == [NoJob EXCEPT !.ver = Len(copies) + 1, !.tree = tree, !.order = order, !.then = then,
                                !.todo = Below(Trees[tree], "group", Root)]
  <2>1. j.order = order /\ j.ver = Len(copies) + 1
    BY DEF NoJob
  <2>2. job' = [job EXCEPT ![p] = j]
    BY <1>2 DEF BeginCopy
  <2> HIDE DEF j
  <2>3. job'[p] = j /\ Len(copies) \in Nat
    BY <2>2 DEF Types, JobRows, Versions
  <2> QED BY <2>1, <2>3
<1>3. CASE Run(p) \/ Create(p)
  <2>1. (BeginCopy(p, "sync", dir, 0) \/ BeginCopy(p, "stop", dir, 0)) /\ UNCHANGED orders
    BY <1>3 DEF Run, Create
  <2>2. job'[p].order = 0
    BY <1>2, <2>1
  <2> QED BY <1>1, <2>1, <2>2, HeldStays
<1>4. CASE Check(p)
  <2>1. PICK i \in 1..Len(orders) : /\ orders[i].state = "start"
                                    /\ BeginCopy(p, "backup", orders[i].tree, i)
                                    /\ orders' = [orders EXCEPT ![i].state = "temp"]
    BY <1>4 DEF Check
  <2>2. job'[p].order = i /\ job'[p].ver # 0
    BY <1>2, <2>1
  <2> DEFINE x == [orders[i] EXCEPT !.state = "temp"]
  <2>3. orders' = [orders EXCEPT ![i] = x]
    BY <2>1
  <2>4. orders \in Seq(OrderRow) /\ DOMAIN orders = 1..Len(orders)
    BY DEF Types, Versions
  <2>5. x.state = "temp"
    <3>1. orders[i] \in OrderRow
      BY <2>4
    <3> QED BY <3>1 DEF OrderRow
  <2> HIDE DEF x
  <2>6. /\ Len(orders') = Len(orders) /\ orders'[i] = x
        /\ \A m \in 1..Len(orders) : m # i => orders'[m] = orders[m]
    BY <2>3, <2>4
  <2>7. orders'[i].state \in {"temp", "back", "sync"}
    BY <2>5, <2>6
  <2> QED BY <1>1, <2>1, <2>2, <2>6, <2>7, HeldStep
<1> QED BY <1>3, <1>4

(* Every step keeps the orders with their processes.                       *)
LEMMA HeldNext == Types /\ HeldInv /\ [Next]_vars => HeldInv'
<1> SUFFICES ASSUME Types, HeldInv, [Next]_vars PROVE HeldInv'
  OBVIOUS
<1> USE DEF history, count
<1>1. ASSUME NEW p \in Processes, Run(p) \/ Create(p) \/ Check(p) PROVE HeldInv'
  BY <1>1, BeginHolds
<1>2. ASSUME NEW p \in Processes,
             \/ Reset(p) \/ SaveGroup(p) \/ SaveUser(p) \/ NextGroups(p)
             \/ SaveRefused(p) \/ EndWalk(p) \/ EndUsers(p) \/ DestroyUser(p) \/ DestroyGroup(p)
      PROVE  HeldInv'
  <2>1. Alone(p) /\ SameJob(p)
    BY <1>2, ResetSteps, SaveGroupSteps, SaveUserSteps, WalkOnSteps, SweepSteps, DestroyUserSteps, DestroyGroupSteps
  <2>2. UNCHANGED orders
    BY <1>2 DEF Reset, SaveGroup, SaveUser, NextGroups, SaveRefused, EndWalk, EndUsers, DestroyUser, DestroyGroup
  <2> QED BY <2>1, <2>2, HeldStays
<1>3. ASSUME NEW p \in Processes, CopyRow(p) \/ CopyRefused(p) PROVE HeldInv'
  <2>1. Alone(p) /\ UNCHANGED orders
    BY <1>3, TypesCopy DEF CopyRow, CopyRefused
  <2>2. SameJob(p)
    <3>1. \E x, y : job' \in {[job EXCEPT ![p].todo = x, ![p].got = y], [job EXCEPT ![p].todo = x, ![p].bad = y]}
      BY <1>3 DEF CopyRow, CopyRefused
    <3> QED BY <3>1 DEF Types, JobRows, JobRow, JobFields, SameJob
  <2> QED BY <2>1, <2>2, HeldStays
<1>4. ASSUME NEW p \in Processes, Finish(p),
             \/ UNCHANGED orders
             \/ SetOrder(p, "failure") \/ SetOrder(p, "success")
      PROVE  HeldInv'
  BY <1>4, FinishHolds, HeldStays, HeldSet
<1>5. ASSUME NEW p \in Processes, BackupFails(p) \/ EndSync(p) \/ Kill(p) PROVE HeldInv'
  <2>1. Finish(p) /\ (UNCHANGED orders \/ SetOrder(p, "failure") \/ SetOrder(p, "success"))
    BY <1>5 DEF BackupFails, EndSync, Kill
  <2> QED BY <1>4, <2>1
<1>6. ASSUME NEW p \in Processes, EndCopy(p) PROVE HeldInv'
  <2>1. UNCHANGED orders /\ Alone(p)
    BY <1>6, TypesCopy DEF EndCopy
  <2>2. CASE Finish(p)
    BY <1>4, <2>1, <2>2
  <2>3. CASE ~Finish(p)
    <3>1. job' = [job EXCEPT ![p].bad = FALSE]
      BY <1>6, <2>3 DEF EndCopy
    <3>2. SameJob(p)
      BY <3>1 DEF Types, JobRows, JobRow, JobFields, SameJob
    <3> QED BY <2>1, <3>2, HeldStays
  <2> QED BY <2>2, <2>3
<1>7. ASSUME NEW p \in Processes, EndCopyOrdered(p) \/ Backup(p) PROVE HeldInv'
  <2>1. Alone(p)
    BY <1>7, TypesCopy
  <2>2. CASE Finish(p) /\ SetOrder(p, "failure")
    BY <1>4, <2>2
  <2>3. CASE UNCHANGED job /\ (SetOrder(p, "back") \/ SetOrder(p, "sync"))
    BY <2>1, <2>3, HeldSet DEF SameJob
  <2> QED BY <1>7, <2>2, <2>3 DEF EndCopyOrdered, Backup
<1>8. ASSUME NEW p \in Processes,
             (\E v \in 1..Len(copies) : Synchronize(p, v)) \/ (\E t \in GwTrees : Screen(p, t))
      PROVE  HeldInv'
  <2>1. Alone(p) /\ job'[p].order = 0
    BY <1>8, MeetSteps
  <2>2. UNCHANGED orders
    BY <1>8 DEF Synchronize, Screen
  <2> QED BY <2>1, <2>2, HeldStays
<1>9. ASSUME \/ \E p \in Processes, v \in 1..Len(copies) : Destroy(p, v)
             \/ \E t \in LdapTrees : Change(t)
             \/ \E t \in GwTrees : Order(t)
             \/ UNCHANGED vars
      PROVE  HeldInv'
  <2>1. UNCHANGED job
    BY <1>9, OutsideSteps
  <2>2. Len(orders) \in Nat /\ Len(orders) <= Len(orders') /\ \A i \in 1..Len(orders) : orders'[i] = orders[i]
    <3>0. orders \in Seq(OrderRow)
      BY DEF Types, Versions
    <3>1. CASE UNCHANGED orders
      BY <3>0, <3>1
    <3>2. CASE \E t \in GwTrees : Order(t)
      <4>1. PICK x : orders' = Append(orders, x)
        BY <3>2 DEF Order
      <4>2. Len(orders') = Len(orders) + 1 /\ \A i \in 1..Len(orders) : orders'[i] = orders[i]
        BY <3>0, <4>1
      <4> QED BY <3>0, <4>2
    <3> QED BY <1>9, <3>1, <3>2 DEF Destroy, Change, vars
  <2>3. 1..Len(orders) \subseteq 1..Len(orders')
    <3>1. Len(orders') \in Nat \/ Len(orders') = Len(orders)
      BY <1>9, OutsideSteps DEF Types, Versions
    <3> QED BY <2>2, <3>1
  <2> QED BY <2>1, <2>2, <2>3 DEF HeldInv, Held
<1> QED BY <1>1, <1>2, <1>3, <1>5, <1>6, <1>7, <1>8, <1>9 DEF Next, Copying, Walking, Sweeping

(* The last of the first n rows of T for a user or a group is there.       *)
LastOf(T, n, kind, code, above) ==
  \E i \in 1..n : /\ T[i].kind = kind /\ T[i].code = code /\ T[i].above = above
                  /\ \A j \in (i + 1)..n : T[j].kind # kind \/ T[j].code # code
(* The users, but those in rest, are as in the first n rows of T; ...      *)
UsersAs(T, n, rest) ==
  /\ \A i \in 1..n : T[i].kind = "user" => T[i].code \in DOMAIN users
  /\ \A u \in DOMAIN users \ rest : users[u].ldap =>
       \E g \in Groups : users[u].in = {g} /\ LastOf(T, n, "user", u, g)
(* ... and the groups.                                                     *)
GroupsAs(T, n, rest) ==
  /\ \A i \in 1..n : T[i].kind = "group" => T[i].code \in DOMAIN groups /\ groups[T[i].code].ldap
  /\ \A g \in DOMAIN groups \ rest : groups[g].ldap => LastOf(T, n, "group", g, groups[g].parent)
(* An order that SuccessMirrors is about.                                  *)
Pure(p) == /\ p \notin mixed /\ job[p].order # 0 /\ ~job[p].bad /\ job[p].ver \notin cut
           /\ Apart(job[p].tree) = {}
Mirroring(p) ==
  LET T == Trees[job[p].tree] IN
  Pure(p) =>
    /\ pc[p] = "walk" => \E n \in 0..Len(T) : /\ Turn(T, n, job[p].todo)
                                              /\ UsersAs(T, n, Outdated(users))
                                              /\ GroupsAs(T, n, Outdated(groups))
    /\ pc[p] = "users" => UsersAs(T, Len(T), job[p].doomed) /\ GroupsAs(T, Len(T), Outdated(groups))
    /\ pc[p] = "groups" => UsersAs(T, Len(T), {}) /\ GroupsAs(T, Len(T), job[p].doomed)
Flags == \A u \in DOMAIN users : users[u].ldap \in BOOLEAN
MirrorInv == Flags /\ \A p \in Processes : Mirroring(p)

(* One row more: it is the last one for its code, ...                      *)
LEMMA LastHere ==
  ASSUME NEW T, NEW n \in Nat
  PROVE  LastOf(T, n + 1, T[n + 1].kind, T[n + 1].code, T[n + 1].above)
<1>1. n + 1 \in 1..(n + 1) /\ ((n + 1) + 1)..(n + 1) = {}
  OBVIOUS
<1> QED BY <1>1 DEF LastOf

(* ... and for others nothing changes.                                     *)
LEMMA LastStays ==
  ASSUME NEW T, NEW n \in Nat, NEW kind, NEW code, NEW above, LastOf(T, n, kind, code, above),
         T[n + 1].kind # kind \/ T[n + 1].code # code
  PROVE  LastOf(T, n + 1, kind, code, above)
<1>1. PICK i \in 1..n : /\ T[i].kind = kind /\ T[i].code = code /\ T[i].above = above
                        /\ \A j \in (i + 1)..n : T[j].kind # kind \/ T[j].code # code
  BY DEF LastOf
<1>2. i \in 1..(n + 1) /\ \A j \in (i + 1)..(n + 1) : j \in (i + 1)..n \/ j = n + 1
  OBVIOUS
<1> QED BY <1>1, <1>2 DEF LastOf

(* What there is the last of is in the tree.                               *)
LEMMA LastListed ==
  ASSUME NEW t \in DOMAIN Trees, NEW n \in 0..Len(Trees[t]), NEW kind, NEW code, NEW above,
         LastOf(Trees[t], n, kind, code, above)
  PROVE  /\ code \in Listed(kind, t)
         /\ \E r \in Rows(t) : r.kind = kind /\ r.code = code /\ r.above = above
<1> DEFINE T == Trees[t]
<1>1. T \in Seq(Row) /\ Len(T) \in Nat /\ DOMAIN T = 1..Len(T)
  BY TreesListed
<1>2. PICK i \in 1..n : T[i].kind = kind /\ T[i].code = code /\ T[i].above = above
  BY DEF LastOf
<1>3. i \in DOMAIN T
  BY <1>1
<1>4. T[i] \in Rows(t)
  BY <1>3 DEF Rows, Range
<1> QED BY <1>2, <1>4 DEF Listed, Rows

(* Who is pure after going on with its job was so before.                  *)
LEMMA WasPure ==
  ASSUME [Next]_vars, NEW p, p \in mixed => p \in mixed',
         job'[p].ver = job[p].ver, job'[p].order = job[p].order, job'[p].tree = job[p].tree,
         job[p].bad => job'[p].bad, Pure(p)'
  PROVE  Pure(p)
  BY HistoryGrows DEF Pure, Apart

(* A pure order walks over its tree, in its order.                         *)
LEMMA PureSource ==
  ASSUME Types, CopyInv, OrderInv, HeldInv, NEW p \in Processes, pc[p] \notin {"idle", "copy"}, Pure(p)
  PROVE  /\ WalkSource(p) = Trees[job[p].tree] /\ job[p].tree \in DOMAIN Trees /\ job[p].ver # 0
         /\ Clean(p)
<1>1. job[p].ver # 0 /\ job[p].ver \in 0..Len(copies) /\ job[p].tree \in DOMAIN Trees
  BY JobOf DEF Pure, HeldInv, Held, JobRow
<1>2. job[p].ver \in 1..Len(copies) /\ job[p].tree = origin[job[p].ver]
  BY <1>1 DEF CopyInv, JobTrees, Types, Versions
<1>3. Fine(job[p].ver) /\ Copied(job[p].ver)
  BY <1>1 DEF CopyInv, PastCopy, Pure, Fine
<1>4. copies[job[p].ver] = Trees[origin[job[p].ver]]
  BY <1>2, <1>3 DEF OrderInv, CopyIsTree
<1> QED BY <1>1, <1>2, <1>4 DEF WalkSource, Pure, Clean

(* Reset: the rows of the directory are all outdated, ...                  *)
LEMMA ResetFlags ==
  ASSUME Types, NEW p \in Processes, Reset(p)
  PROVE  DOMAIN users' = DOMAIN users
         /\ \A u \in DOMAIN users' : users'[u].current = FALSE /\ users'[u].ldap = users[u].ldap
  BY DEF Types, FullUserRows, RowFields, Reset

(* ... and no row of the tree has been come to.                            *)
LEMMA ResetMirrors ==
  ASSUME Types, CopyInv, OrderInv, HeldInv, [Next]_vars, NEW p \in Processes, Reset(p)
  PROVE  Mirroring(p)'
<1>1. /\ SameJob(p) /\ pc[p] = "sync" /\ pc'[p] = "walk" /\ UNCHANGED mixed
      /\ job'[p].todo = Below(WalkSource(p), "group", Root)
      /\ \A g \in DOMAIN groups' : groups'[g].current = FALSE
  BY ResetSteps
<1>2. SUFFICES ASSUME NEW t, t = job[p].tree, NEW T, T = Trees[t], Pure(p)'
               PROVE  \E n \in 0..Len(T) : /\ Turn(T, n, job'[p].todo)
                                           /\ UsersAs(T, n, Outdated(users))'
                                           /\ GroupsAs(T, n, Outdated(groups))'
  BY <1>1 DEF Mirroring, SameJob
<1>3. Pure(p)
  BY <1>1, <1>2, WasPure, StaysBad DEF SameJob, Walking
<1>4. WalkSource(p) = T /\ T \in Seq(Row) /\ Listing(T)
  BY <1>1, <1>2, <1>3, PureSource, TreesListed
<1>5. Turn(T, 0, job'[p].todo)
  BY <1>1, <1>4, TurnBegins
<1>6. 1..0 = {} /\ 0 \in 0..Len(T)
  BY <1>4
<1>7. UsersAs(T, 0, Outdated(users))'
  <2>1. \A u \in DOMAIN users' : users'[u].current = FALSE
    BY ResetFlags
  <2> QED BY <1>6, <2>1 DEF UsersAs, Outdated
<1>8. GroupsAs(T, 0, Outdated(groups))'
  BY <1>1, <1>6 DEF GroupsAs, Outdated
<1> QED BY <1>5, <1>6, <1>7, <1>8

(* The row of the tree that a group or a user is saved from.               *)
LEMMA RowTurn ==
  ASSUME NEW T \in Seq(Row), Listing(T), NEW todo \in Seq(Item), todo # <<>>, NEW n, Turn(T, n, todo),
         NEW r, r = Head(todo), r.kind # "next"
  PROVE  /\ n \in Nat /\ n + 1 \in 0..Len(T) /\ n + 1 \in DOMAIN T /\ T[n + 1] = r /\ r \in Row
         /\ 1..(n + 1) = 1..n \cup {n + 1}
         /\ r.above = Root \/ \E h \in 1..n : T[h].kind = "group" /\ T[h].code = r.above
<1>1. n \in Nat /\ n + 1 \in DOMAIN T /\ T[n + 1] = r
  BY TurnHead
<1>2. DOMAIN T = 1..Len(T) /\ Len(T) \in Nat /\ r \in Row
  BY <1>1
<1>3. 1..((n + 1) - 1) = 1..n /\ 1..(n + 1) = 1..n \cup {n + 1} /\ n + 1 \in 0..Len(T)
  BY <1>1, <1>2
<1>4. r.above = Root \/ \E h \in 1..n : T[h].kind = "group" /\ T[h].code = r.above
  BY <1>1, <1>3 DEF Listing
<1> QED BY <1>1, <1>2, <1>3, <1>4

(* SaveGroup: the group is below the group its row says.                   *)
LEMMA SaveGroupPlace ==
  ASSUME Types, NEW p \in Processes, SaveGroup(p), NEW r, r = Head(job[p].todo)
  PROVE  \/ r.code \in DOMAIN groups /\ ~groups[r.code].ldap
         \/ r.above \in DOMAIN groups \cup {Root} => groups'[r.code].parent = r.above
<1> DEFINE old == IF r.code \in DOMAIN groups THEN groups[r.code].ldap ELSE TRUE
           row == [parent |-> IF r.above \in DOMAIN groups \cup {Root} THEN r.above ELSE Lost,
                   ldap |-> TRUE, current |-> TRUE]
<1>1. groups' = IF ~old THEN groups ELSE Save(groups, r.code, row)
  BY DEF SaveGroup
<1>2. r.above \in DOMAIN groups \cup {Root} => row.parent = r.above
  OBVIOUS
<1>3. ~old => r.code \in DOMAIN groups /\ ~groups[r.code].ldap
  OBVIOUS
<1> HIDE DEF old, row
<1>4. old => groups'[r.code] = row
  BY <1>1 DEF Save
<1> QED BY <1>2, <1>3, <1>4

(* SaveGroup: the tables are as the tree with one row more.                *)
LEMMA SaveGroupMirrors ==
  ASSUME Types, CopyInv, OrderInv, HeldInv, LocalStay, [Next]_vars, NEW p \in Processes, Mirroring(p), SaveGroup(p)
  PROVE  Mirroring(p)'
<1> SUFFICES ASSUME NEW t, t = job[p].tree, NEW T, T = Trees[t], NEW r, r = Head(job[p].todo)
             PROVE  Mirroring(p)'
  OBVIOUS
<1>1. /\ SameJob(p) /\ pc[p] = "walk" /\ pc'[p] = "walk" /\ UNCHANGED <<mixed, users>>
      /\ job[p].todo # <<>> /\ r.kind = "group"
      /\ job'[p].todo = Onwards(p, WalkSource(p))
      /\ \/ groups' = groups /\ r.code \in DOMAIN groups /\ ~groups[r.code].ldap
         \/ /\ DOMAIN groups' = DOMAIN groups \cup {r.code}
            /\ \A g \in DOMAIN groups \ {r.code} : groups'[g] = groups[g]
            /\ groups'[r.code].ldap /\ groups'[r.code].current
            /\ groups'[r.code].parent \in {r.above, Lost}
  BY SaveGroupSteps
<1>2. SUFFICES ASSUME Pure(p)'
               PROVE  \E n \in 0..Len(T) : /\ Turn(T, n, job'[p].todo)
                                           /\ UsersAs(T, n, Outdated(users))'
                                           /\ GroupsAs(T, n, Outdated(groups))'
  BY <1>1 DEF Mirroring, SameJob
<1>3. Pure(p)
  BY <1>1, <1>2, WasPure, StaysBad DEF SameJob, Walking
<1>4. /\ WalkSource(p) = T /\ T \in Seq(Row) /\ Listing(T) /\ t \in DOMAIN Trees
      /\ job[p].todo \in Seq(Item)
  BY <1>1, <1>3, PureSource, JobOf, TreesListed
<1>5. PICK n \in 0..Len(T) : /\ Turn(T, n, job[p].todo)
                             /\ UsersAs(T, n, Outdated(users)) /\ GroupsAs(T, n, Outdated(groups))
  BY <1>1, <1>3 DEF Mirroring
<1>6. /\ n \in Nat /\ n + 1 \in 0..Len(T) /\ n + 1 \in DOMAIN T /\ T[n + 1] = r /\ r \in Row
      /\ 1..(n + 1) = 1..n \cup {n + 1}
      /\ r.above = Root \/ \E h \in 1..n : T[h].kind = "group" /\ T[h].code = r.above
  <2>1. r.kind # "next" /\ Turn(T, n, job[p].todo) /\ r = Head(job[p].todo)
    BY <1>1, <1>5
  <2>2. T \in Seq(Row) /\ Listing(T) /\ job[p].todo \in Seq(Item) /\ job[p].todo # <<>>
    BY <1>1, <1>4
  <2> QED BY ONLY <2>1, <2>2, RowTurn
<1>7. Turn(T, n + 1, job'[p].todo)
  <2>1. Turn(T, n + 1, (Below(T, "user", r.code) \o <<Mark(r)>>) \o Tail(job[p].todo))
    BY <1>1, <1>4, <1>5, TurnGroup
  <2> QED BY <1>1, <1>4, <2>1 DEF Onwards, Expand, Mark
<1>8. /\ ~(r.code \in DOMAIN groups /\ ~groups[r.code].ldap)
      /\ DOMAIN groups' = DOMAIN groups \cup {r.code}
      /\ \A g \in DOMAIN groups \ {r.code} : groups'[g] = groups[g]
      /\ groups'[r.code].ldap /\ groups'[r.code].current
  <2>1. r.code \in Listed("group", t)
    <3>1. r \in Range(T)
      BY <1>6 DEF Range
    <3> QED BY <1>1, <3>1 DEF Listed
  <2>2. r.code \notin Own(groups, FALSE)
    BY <1>3, <2>1 DEF Pure, Apart, LocalStay
  <2>3. r.code \in DOMAIN groups => groups[r.code].ldap
    BY <2>2 DEF Own, Types, GroupRows
  <2> QED BY <1>1, <2>3
<1>9. groups'[r.code].parent = r.above
  <2>1. r.above \in DOMAIN groups \cup {Root}
    BY <1>5, <1>6 DEF GroupsAs
  <2> QED BY <1>8, <2>1, SaveGroupPlace
<1>10. UsersAs(T, n + 1, Outdated(users))'
  <2>1. \A u, g : LastOf(T, n, "user", u, g) => LastOf(T, n + 1, "user", u, g)
    BY <1>1, <1>6, LastStays
  <2> QED BY <1>1, <1>5, <1>6, <2>1 DEF UsersAs, Outdated
<1>11. GroupsAs(T, n + 1, Outdated(groups))'
  <2>1. \A g, a : g # r.code /\ LastOf(T, n, "group", g, a) => LastOf(T, n + 1, "group", g, a)
    BY <1>6, LastStays
  <2>2. LastOf(T, n + 1, "group", r.code, r.above)
    BY <1>1, <1>6, LastHere
  <2>3. \A g \in DOMAIN groups' : g = r.code \/ (g \in DOMAIN groups /\ groups'[g] = groups[g])
    BY <1>8
  <2>4. ASSUME NEW i \in 1..(n + 1), T[i].kind = "group"
        PROVE  T[i].code \in DOMAIN groups' /\ groups'[T[i].code].ldap
    <3>1. CASE i \in 1..n
      <4>1. T[i].code \in DOMAIN groups /\ groups[T[i].code].ldap
        BY <1>5, <2>4, <3>1 DEF GroupsAs
      <4> QED BY <1>8, <4>1
    <3>2. CASE i = n + 1
      BY <1>6, <1>8, <3>2
    <3> QED BY <1>6, <3>1, <3>2
  <2>5. ASSUME NEW g \in DOMAIN groups' \ Outdated(groups'), groups'[g].ldap
        PROVE  LastOf(T, n + 1, "group", g, groups'[g].parent)
    <3>1. CASE g = r.code
      BY <1>9, <2>2, <3>1
    <3>2. CASE g # r.code
      <4>1. g \in DOMAIN groups \ Outdated(groups) /\ groups'[g] = groups[g]
        BY <2>3, <2>5, <3>2 DEF Outdated
      <4> QED BY <1>5, <2>1, <2>5, <3>2, <4>1 DEF GroupsAs
    <3> QED BY <3>1, <3>2
  <2> QED BY <2>4, <2>5 DEF GroupsAs
<1> QED BY <1>6, <1>7, <1>10, <1>11

(* SaveUser: the user is in the group of its row and in no other, unless   *)
(* it is one of the program's own.                                         *)
LEMMA SaveUserPlace ==
  ASSUME Types, Flags, NEW p \in Processes, SaveUser(p), NEW r, r = Head(job[p].todo)
  PROVE  \/ users' = users /\ r.code \in DOMAIN users /\ ~users[r.code].ldap
         \/ /\ DOMAIN users' = DOMAIN users \cup {r.code}
            /\ \A u \in DOMAIN users \ {r.code} : users'[u] = users[u]
            /\ users'[r.code].in = {r.above} \cap DOMAIN groups /\ users'[r.code].ldap = TRUE
<1> DEFINE new == [state |-> "enabled", ldap |-> TRUE, current |-> FALSE, in |-> {}, left |-> {}]
           old == IF r.code \in DOMAIN users THEN users[r.code] ELSE new
           home == {r.above} \cap DOMAIN groups
           row == [old EXCEPT !.current = TRUE, !.in = home, !.left = {r.above} \ DOMAIN groups]
<1>1. users' = IF ~old.ldap THEN users ELSE Save(users, r.code, row)
  BY DEF SaveUser
<1>2. RowFields \subseteq DOMAIN old /\ old.ldap \in BOOLEAN
      /\ (~old.ldap => r.code \in DOMAIN users /\ ~users[r.code].ldap)
  <2>1. RowFields \subseteq DOMAIN new /\ new.ldap = TRUE
    BY DEF RowFields
  <2> HIDE DEF new
  <2> QED BY <2>1 DEF Types, FullUserRows, Flags
<1> HIDE DEF old, home
<1>3. row.in = home /\ row.ldap = old.ldap
  BY <1>2 DEF RowFields
<1> HIDE DEF row
<1>4. CASE ~old.ldap
  BY <1>1, <1>2, <1>4
<1>5. CASE old.ldap = TRUE
  BY <1>1, <1>3, <1>5 DEF Save, home
<1> QED BY <1>2, <1>4, <1>5

(* SaveUser: the tables are as the tree with one row more.                 *)
LEMMA SaveUserMirrors ==
  ASSUME Types, CopyInv, OrderInv, HeldInv, Flags, [Next]_vars, NEW p \in Processes, Mirroring(p), SaveUser(p)
  PROVE  Mirroring(p)'
<1> SUFFICES ASSUME NEW t, t = job[p].tree, NEW T, T = Trees[t], NEW r, r = Head(job[p].todo)
             PROVE  Mirroring(p)'
  OBVIOUS
<1>1. /\ SameJob(p) /\ pc[p] = "walk" /\ pc'[p] = "walk" /\ UNCHANGED <<mixed, groups>>
      /\ job[p].todo # <<>> /\ r.kind = "user" /\ job'[p].todo = Tail(job[p].todo)
      /\ r.code \notin Outdated(users')
      /\ \A u \in Outdated(users') : u \in Outdated(users) /\ users'[u] = users[u]
  BY SaveUserSteps
<1>2. SUFFICES ASSUME Pure(p)'
               PROVE  \E n \in 0..Len(T) : /\ Turn(T, n, job'[p].todo)
                                           /\ UsersAs(T, n, Outdated(users))'
                                           /\ GroupsAs(T, n, Outdated(groups))'
  BY <1>1 DEF Mirroring, SameJob
<1>3. Pure(p)
  BY <1>1, <1>2, WasPure, StaysBad DEF SameJob, Walking
<1>4. /\ T \in Seq(Row) /\ Listing(T) /\ t \in DOMAIN Trees /\ job[p].todo \in Seq(Item)
  BY <1>1, <1>3, PureSource, JobOf, TreesListed
<1>5. PICK n \in 0..Len(T) : /\ Turn(T, n, job[p].todo)
                             /\ UsersAs(T, n, Outdated(users)) /\ GroupsAs(T, n, Outdated(groups))
  BY <1>1, <1>3 DEF Mirroring
<1>6. /\ n \in Nat /\ n + 1 \in 0..Len(T) /\ n + 1 \in DOMAIN T /\ T[n + 1] = r /\ r \in Row
      /\ 1..(n + 1) = 1..n \cup {n + 1}
      /\ r.above = Root \/ \E h \in 1..n : T[h].kind = "group" /\ T[h].code = r.above
  <2>1. r.kind # "next" /\ Turn(T, n, job[p].todo) /\ r = Head(job[p].todo)
    BY <1>1, <1>5
  <2>2. T \in Seq(Row) /\ Listing(T) /\ job[p].todo \in Seq(Item) /\ job[p].todo # <<>>
    BY <1>1, <1>4
  <2> QED BY ONLY <2>1, <2>2, RowTurn
<1>7. Turn(T, n + 1, job'[p].todo)
  BY <1>1, <1>4, <1>5, TurnUser
<1>8. r.above \in Groups /\ {r.above} \cap DOMAIN groups = {r.above}
  <2>1. r.above \in Groups /\ r.above # Root
    BY <1>1, <1>6, SynchroAssumption DEF Row
  <2>2. r.above \in DOMAIN groups
    BY <1>5, <1>6, <2>1 DEF GroupsAs
  <2> QED BY <2>1, <2>2
<1>9. \/ users' = users /\ r.code \in DOMAIN users /\ ~users[r.code].ldap
      \/ /\ DOMAIN users' = DOMAIN users \cup {r.code}
         /\ \A u \in DOMAIN users \ {r.code} : users'[u] = users[u]
         /\ users'[r.code].in = {r.above}
  BY <1>8, SaveUserPlace
<1>10. UsersAs(T, n + 1, Outdated(users))'
  <2>1. \A u, g : u # r.code /\ LastOf(T, n, "user", u, g) => LastOf(T, n + 1, "user", u, g)
    BY <1>6, LastStays
  <2>2. LastOf(T, n + 1, "user", r.code, r.above)
    BY <1>1, <1>6, LastHere
  <2>3. /\ DOMAIN users \cup {r.code} = DOMAIN users'
        /\ \A u \in DOMAIN users' : u = r.code \/ (u \in DOMAIN users /\ users'[u] = users[u])
    BY <1>9
  <2>4. ASSUME NEW i \in 1..(n + 1), T[i].kind = "user" PROVE T[i].code \in DOMAIN users'
    <3>1. i \in 1..n => T[i].code \in DOMAIN users
      BY <1>5, <2>4 DEF UsersAs
    <3> QED BY <1>6, <2>3, <3>1
  <2>5. ASSUME NEW u \in DOMAIN users' \ Outdated(users'), users'[u].ldap
        PROVE  \E g \in Groups : users'[u].in = {g} /\ LastOf(T, n + 1, "user", u, g)
    <3>1. CASE u = r.code
      <4>1. users'[r.code].in = {r.above}
        BY <1>9, <2>5, <3>1
      <4> QED BY <1>8, <2>2, <3>1, <4>1
    <3>2. CASE u # r.code
      <4>1. u \in DOMAIN users \ Outdated(users) /\ users'[u] = users[u]
        BY <2>3, <2>5, <3>2 DEF Outdated
      <4>2. \E g \in Groups : users[u].in = {g} /\ LastOf(T, n, "user", u, g)
        BY <1>5, <2>5, <4>1 DEF UsersAs
      <4> QED BY <2>1, <3>2, <4>1, <4>2
    <3> QED BY <3>1, <3>2
  <2> QED BY <2>4, <2>5 DEF UsersAs
<1>11. GroupsAs(T, n + 1, Outdated(groups))'
  <2>1. \A g, a : LastOf(T, n, "group", g, a) => LastOf(T, n + 1, "group", g, a)
    BY <1>1, <1>6, LastStays
  <2> QED BY <1>1, <1>5, <1>6, <2>1 DEF GroupsAs, Outdated
<1> QED BY <1>6, <1>7, <1>10, <1>11

(* The steps of the walk that save nothing, and its end.                   *)
LEMMA WalkMirrors ==
  ASSUME Types, CopyInv, OrderInv, HeldInv, [Next]_vars, NEW p \in Processes, Mirroring(p),
         NextGroups(p) \/ SaveRefused(p) \/ EndWalk(p)
  PROVE  Mirroring(p)'
<1> SUFFICES ASSUME NEW t, t = job[p].tree, NEW T, T = Trees[t], NEW r, r = Head(job[p].todo)
             PROVE  Mirroring(p)'
  OBVIOUS
<1>1. /\ SameJob(p) /\ pc[p] = "walk" /\ UNCHANGED <<mixed, tables>> /\ (SaveRefused(p) => job'[p].bad)
  BY WalkOnSteps, SweepSteps DEF EndWalk
<1>2. SUFFICES ASSUME Pure(p)' PROVE Mirroring(p)'
  BY DEF Mirroring
<1>3. Pure(p)
  BY <1>1, <1>2, WasPure, StaysBad DEF SameJob, Walking
<1>4. /\ WalkSource(p) = T /\ T \in Seq(Row) /\ Listing(T) /\ t \in DOMAIN Trees
      /\ job[p].todo \in Seq(Item) /\ job'[p].tree = t
  BY <1>1, <1>3, PureSource, JobOf, TreesListed DEF SameJob
<1>5. PICK n \in 0..Len(T) : /\ Turn(T, n, job[p].todo)
                             /\ UsersAs(T, n, Outdated(users)) /\ GroupsAs(T, n, Outdated(groups))
  BY <1>1, <1>3 DEF Mirroring
<1>6. CASE NextGroups(p)
  <2>1. r.kind = "next" /\ job[p].todo # <<>> /\ pc'[p] = "walk" /\ job'[p].todo = Onwards(p, WalkSource(p))
    BY <1>6, JobOf, WalkOnSteps DEF NextGroups, Types, JobRows, JobRow, JobFields
  <2>2. Turn(T, n, Below(T, "group", r.code) \o Tail(job[p].todo))
    BY <1>4, <1>5, <2>1, TurnMark
  <2>3. Turn(T, n, job'[p].todo)
    BY <1>4, <2>1, <2>2 DEF Onwards, Expand
  <2>4. UsersAs(T, n, Outdated(users))' /\ GroupsAs(T, n, Outdated(groups))'
    BY <1>1, <1>5 DEF UsersAs, GroupsAs, Outdated, tables
  <2> QED BY <1>4, <2>1, <2>3, <2>4 DEF Mirroring
<1>7. CASE SaveRefused(p)
  BY <1>1, <1>2, <1>7 DEF Pure
<1>8. CASE EndWalk(p)
  <2>1. job[p].todo = <<>> /\ pc'[p] = "users" /\ job'[p].doomed = Outdated(users)
    BY <1>1, <1>8, SweepSteps DEF EndWalk
  <2>2. n = Len(T)
    BY <1>4, <1>5, <2>1, TurnEnds
  <2>3. UsersAs(T, Len(T), Outdated(users))' /\ GroupsAs(T, Len(T), Outdated(groups))'
    BY <1>1, <1>5, <2>2 DEF UsersAs, GroupsAs, Outdated, tables
  <2>4. Outdated(users)' = job'[p].doomed
    BY <1>1, <2>1 DEF Outdated, tables
  <2>5. UsersAs(T, Len(T), job[p].doomed)'
    BY <2>3, <2>4 DEF UsersAs
  <2> QED BY <1>4, <2>1, <2>3, <2>5 DEF Mirroring
<1> QED BY <1>6, <1>7, <1>8

(* The sweep destroys what is outdated, and that is nothing of the tree.   *)
LEMMA SweepUsersMirrors ==
  ASSUME Types, CopyInv, OrderInv, HeldInv, [Next]_vars, NEW p \in Processes, Mirroring(p), Sparing(p),
         DestroyUser(p) \/ EndUsers(p)
  PROVE  Mirroring(p)'
<1> SUFFICES ASSUME NEW t, t = job[p].tree, NEW T, T = Trees[t] PROVE Mirroring(p)'
  OBVIOUS
<1>1. SameJob(p) /\ pc[p] = "users" /\ UNCHANGED <<mixed, groups>>
  BY DestroyUserSteps, SweepSteps DEF EndUsers, tables
<1>2. SUFFICES ASSUME Pure(p)' PROVE Mirroring(p)'
  BY DEF Mirroring
<1>3. Pure(p)
  BY <1>1, <1>2, WasPure, StaysBad DEF SameJob
<1>4. T \in Seq(Row) /\ t \in DOMAIN Trees /\ job'[p].tree = t /\ job[p].ver # 0 /\ Clean(p)
  BY <1>1, <1>3, PureSource, TreesListed DEF SameJob
<1>5. UsersAs(T, Len(T), job[p].doomed) /\ GroupsAs(T, Len(T), Outdated(groups))
  BY <1>1, <1>3 DEF Mirroring
<1>6. GroupsAs(T, Len(T), Outdated(groups))'
  BY <1>1, <1>5 DEF GroupsAs, Outdated
<1>7. CASE DestroyUser(p)
  <2>1. PICK u \in job[p].doomed : DOMAIN users' = DOMAIN users \ {u} /\ job'[p].doomed = job[p].doomed \ {u}
    BY <1>7, DestroyUserSteps
  <2>2. pc'[p] = "users" /\ \A v \in DOMAIN users' : users'[v] = users[v]
    BY <1>7, DestroyUserSteps
  <2>3. u \notin Listed("user", t)
    BY <1>1, <1>4, <2>1 DEF Sparing
  <2>4. \A i \in 1..Len(T) : T[i].kind = "user" => T[i].code # u
    <3>1. \A i \in 1..Len(T) : T[i] \in Range(T)
      BY <1>4 DEF Range
    <3> QED BY <2>3, <3>1 DEF Listed
  <2>5. UsersAs(T, Len(T), job[p].doomed)'
    BY <1>5, <2>1, <2>2, <2>4 DEF UsersAs
  <2> QED BY <1>4, <1>6, <2>2, <2>5 DEF Mirroring
<1>8. CASE EndUsers(p)
  <2>1. job[p].doomed = {} /\ UNCHANGED users /\ pc'[p] = "groups"
    BY <1>1, <1>8, SweepSteps DEF EndUsers, tables
  <2>2. job'[p].doomed = Outdated(groups)
    BY <1>4, <1>8 DEF EndUsers, Types, JobRows, JobRow, JobFields
  <2>3. UsersAs(T, Len(T), {})'
    BY <1>5, <2>1 DEF UsersAs
  <2>4. Outdated(groups)' = job'[p].doomed
    BY <1>1, <2>2 DEF Outdated
  <2>5. GroupsAs(T, Len(T), job[p].doomed)'
    BY <1>6, <2>4 DEF GroupsAs
  <2> QED BY <1>4, <2>1, <2>3, <2>5 DEF Mirroring
<1> QED BY <1>7, <1>8

(* What DestroyGroup leaves of the users.                                  *)
LEMMA LeaveSteps ==
  ASSUME Types, NEW S, NEW off, users' = Leave(S, off)
  PROVE  /\ DOMAIN users' = DOMAIN users
         /\ \A u \in DOMAIN users : users'[u].ldap = users[u].ldap /\ users'[u].in = users[u].in \ S
  BY DEF Leave, Types, FullUserRows, RowFields

(* DestroyGroup: what is taken along is outside the tree.                  *)
LEMMA SweepGroupsMirrors ==
  ASSUME Types, CopyInv, OrderInv, HeldInv, LocalStay, [Next]_vars, NEW p \in Processes, Mirroring(p), Sparing(p),
         DestroyGroup(p)
  PROVE  Mirroring(p)'
<1> SUFFICES ASSUME NEW t, t = job[p].tree, NEW T, T = Trees[t] PROVE Mirroring(p)'
  OBVIOUS
<1>1. /\ SameJob(p) /\ pc[p] = "groups" /\ pc'[p] = "groups" /\ UNCHANGED mixed
      /\ \A h \in DOMAIN groups' : groups'[h] = groups[h]
  BY DestroyGroupSteps
<1>2. SUFFICES ASSUME Pure(p)' PROVE Mirroring(p)'
  BY DEF Mirroring
<1>3. Pure(p)
  BY <1>1, <1>2, WasPure, StaysBad DEF SameJob
<1>4. T \in Seq(Row) /\ t \in DOMAIN Trees /\ job'[p].tree = t /\ Clean(p) /\ Len(T) \in 0..Len(T)
  <2>1. T \in Seq(Row) /\ t \in DOMAIN Trees /\ job'[p].tree = t /\ Clean(p)
    BY <1>1, <1>3, PureSource, TreesListed DEF SameJob
  <2> QED BY <2>1
<1>5. UsersAs(T, Len(T), {}) /\ GroupsAs(T, Len(T), job[p].doomed)
  BY <1>1, <1>3 DEF Mirroring
<1>6. PICK g \in job[p].doomed : /\ \E off : users' = Leave(Subtree(g), off)
                                 /\ groups' = Restrict(groups, DOMAIN groups \ Subtree(g))
                                 /\ job' = [job EXCEPT ![p].doomed = @ \ {g}]
  BY DEF DestroyGroup
<1>7. DOMAIN groups' = DOMAIN groups \ Subtree(g) /\ job'[p].doomed = job[p].doomed \ {g}
  BY <1>6 DEF Restrict, Types, JobRows, JobRow, JobFields
<1>8. Subtree(g) \cap Listed("group", t) = {}
  <2>1. g \notin Listed("group", t) /\ Hung(Rows(t), t) /\ Apart(t) = {}
    BY <1>1, <1>3, <1>4, <1>6 DEF Sparing, Pure
  <2> QED BY <1>4, <2>1, SubtreeSpared DEF Types
<1>9. UsersAs(T, Len(T), {})'
  <2>1. /\ DOMAIN users' = DOMAIN users
        /\ \A u \in DOMAIN users : users'[u].ldap = users[u].ldap /\ users'[u].in = users[u].in \ Subtree(g)
    BY <1>6, LeaveSteps
  <2>2. ASSUME NEW u \in DOMAIN users, NEW a \in Groups, LastOf(T, Len(T), "user", u, a) PROVE a \notin Subtree(g)
    <3>1. PICK r \in Rows(t) : r.above = a
      BY <1>4, <2>2, LastListed
    <3>2. a \in Listed("group", t)
      BY <1>4, <3>1, RowsHang, SynchroAssumption
    <3> QED BY <1>8, <3>2
  <2>3. ASSUME NEW u \in DOMAIN users', users'[u].ldap
        PROVE  \E a \in Groups : users'[u].in = {a} /\ LastOf(T, Len(T), "user", u, a)
    <3>1. u \in DOMAIN users \ {} /\ users[u].ldap
      BY <2>1, <2>3
    <3>2. PICK a \in Groups : users[u].in = {a} /\ LastOf(T, Len(T), "user", u, a)
      BY <1>5, <3>1 DEF UsersAs
    <3>3. users'[u].in = {a}
      BY <2>1, <2>2, <3>1, <3>2
    <3> QED BY <3>2, <3>3
  <2> QED BY <1>5, <2>1, <2>3 DEF UsersAs
<1>10. GroupsAs(T, Len(T), job[p].doomed)'
  <2>1. ASSUME NEW i \in 1..Len(T), T[i].kind = "group" PROVE T[i].code \in DOMAIN groups' /\ groups'[T[i].code].ldap
    <3>1. T[i] \in Range(T)
      BY <1>4 DEF Range
    <3>2. T[i].code \in Listed("group", t)
      BY <2>1, <3>1 DEF Listed
    <3> QED BY <1>1, <1>5, <1>7, <1>8, <2>1, <3>2 DEF GroupsAs
  <2>2. \A h \in DOMAIN groups' \ job'[p].doomed : h \in DOMAIN groups \ job[p].doomed
    <3>1. g \in DOMAIN groups => g \in Subtree(g)
      BY SubtreeClosed
    <3> QED BY <1>7, <3>1
  <2>3. \A h \in DOMAIN groups' \ job'[p].doomed : groups'[h].ldap => LastOf(T, Len(T), "group", h, groups'[h].parent)
    BY <1>1, <1>5, <2>2 DEF GroupsAs
  <2> QED BY <2>1, <2>3 DEF GroupsAs
<1> QED BY <1>1, <1>4, <1>9, <1>10 DEF Mirroring

(* A row of a user is of the directory or of the program.                  *)
LEMMA FlagsNext ==
  ASSUME Types, Flags, [Next]_vars
  PROVE  Flags'
<1>1. CASE UNCHANGED tables
  BY <1>1 DEF Flags, tables
<1>2. CASE ~UNCHANGED tables
  <2>1. PICK q \in AtTables : Reset(q) \/ SaveGroup(q) \/ SaveUser(q) \/ DestroyUser(q) \/ DestroyGroup(q)
    BY <1>2, TablesStep
  <2>2. q \in Processes
    BY DEF AtTables, Busy
  <2>3. CASE Reset(q)
    BY <2>2, <2>3, ResetFlags DEF Flags
  <2>4. CASE SaveGroup(q)
    BY <2>4 DEF SaveGroup, Flags
  <2>5. CASE SaveUser(q)
    <3>1. \/ users' = users
          \/ \E u : /\ DOMAIN users' = DOMAIN users \cup {u} /\ users'[u].ldap = TRUE
                    /\ \A v \in DOMAIN users \ {u} : users'[v] = users[v]
      BY <2>2, <2>5, SaveUserPlace
    <3> QED BY <3>1 DEF Flags
  <2>6. CASE DestroyUser(q)
    BY <2>2, <2>6, DestroyUserSteps DEF Flags
  <2>7. CASE DestroyGroup(q)
    <3>1. \E S, off : users' = Leave(S, off)
      BY <2>7 DEF DestroyGroup
    <3> QED BY <3>1, LeaveSteps DEF Flags
  <2> QED BY <2>1, <2>3, <2>4, <2>5, <2>6, <2>7
<1> QED BY <1>1, <1>2

(* A process that is not between the walk and the end of the sweep.        *)
LEMMA NoMirror ==
  ASSUME NEW p, pc'[p] \notin {"walk", "users", "groups"}
  PROVE  Mirroring(p)'
  BY DEF Mirroring

(* What is mirrored is in the tables and in p's own job.                   *)
LEMMA MirrorStays ==
  ASSUME [Next]_vars, NEW q \in Processes, UNCHANGED tables, pc'[q] = pc[q], job'[q] = job[q],
         q \in mixed => q \in mixed', Mirroring(q)
  PROVE  Mirroring(q)'
<1>1. SUFFICES ASSUME Pure(q)' PROVE Mirroring(q)'
  BY DEF Mirroring
<1>2. Pure(q)
  BY <1>1, WasPure
<1>3. \A T, n, D : /\ UsersAs(T, n, D) => UsersAs(T, n, D)'
                   /\ GroupsAs(T, n, D) => GroupsAs(T, n, D)'
  BY DEF UsersAs, GroupsAs, tables
<1>4. Outdated(users') = Outdated(users) /\ Outdated(groups') = Outdated(groups)
  BY DEF tables
<1> QED BY <1>2, <1>3, <1>4 DEF Mirroring, UsersAs, GroupsAs, tables

(* Another process while p makes a step: if its order is pure, p is not at *)
(* the tables, and leaves them alone.                                      *)
LEMMA MirrorOthers ==
  ASSUME Types, Sharing, NEW p \in Processes, [Next]_vars, Alone(p),
         \/ mixed' = mixed /\ (p \in AtTables' => p \in AtTables)
         \/ Meet(p) /\ p \notin AtTables,
         p \notin AtTables => UNCHANGED tables,
         NEW q \in Processes \ {p}, Mirroring(q)
  PROVE  Mirroring(q)'
<1>1. pc'[q] = pc[q] /\ job'[q] = job[q] /\ (q \in mixed => q \in mixed')
  BY SharingStep DEF Alone
<1>2. SUFFICES ASSUME Pure(q)' PROVE Mirroring(q)'
  BY DEF Mirroring
<1>3. q \notin mixed
  BY <1>1, <1>2 DEF Pure
<1>4. CASE UNCHANGED tables
  BY <1>1, <1>4, MirrorStays
<1>5. CASE p \in AtTables
  <2>1. q \notin AtTables
    BY <1>3, <1>5 DEF Sharing
  <2>2. pc'[q] \in {"idle", "copy"}
    BY <1>1, <2>1 DEF AtTables, Busy
  <2> QED BY <2>2, NoMirror
<1> QED BY <1>4, <1>5

(* A step of p that leaves p mirroring its tree.                           *)
LEMMA MirrorStep ==
  ASSUME Types, Sharing, MirrorInv, NEW p \in Processes, [Next]_vars, Alone(p),
         \/ mixed' = mixed /\ (p \in AtTables' => p \in AtTables)
         \/ Meet(p) /\ p \notin AtTables,
         p \notin AtTables => UNCHANGED tables,
         Mirroring(p)'
  PROVE  MirrorInv'
<1>1. \A q \in Processes \ {p} : Mirroring(q)'
  BY MirrorOthers DEF MirrorInv
<1> QED BY <1>1, FlagsNext DEF MirrorInv

(* The initial states: nobody walks.                                       *)
LEMMA MirrorInit == Init => MirrorInv
<1> SUFFICES ASSUME Init PROVE MirrorInv
  OBVIOUS
<1>1. users = FirstUsers /\ \A p \in Processes : pc[p] = "idle"
  BY DEF Init
<1>2. Flags
  BY <1>1, SynchroAssumption DEF Flags
<1> QED BY <1>1, <1>2 DEF MirrorInv, Mirroring

(* What the steps of a mirroring process rely on.                          *)
MirrorFacts == BackInv /\ CopyInv /\ SpareInv /\ OrderInv /\ HeldInv

(* Every step keeps the tables as the tree so far.                         *)
LEMMA MirrorNext == MirrorFacts /\ MirrorInv /\ [Next]_vars => MirrorInv'
<1> SUFFICES ASSUME MirrorFacts, MirrorInv, [Next]_vars PROVE MirrorInv'
  OBVIOUS
<1>0. /\ Types /\ Sharing /\ CopyInv /\ OrderInv /\ HeldInv /\ LocalStay /\ Flags
      /\ \A p \in Processes : Sparing(p) /\ Mirroring(p)
  BY DEF MirrorFacts, BackInv, SpareInv, MirrorInv
<1>1. ASSUME NEW p \in Processes, Run(p) \/ Create(p) \/ Check(p) PROVE MirrorInv'
  <2>1. Alone(p) /\ pc'[p] = "copy" /\ UNCHANGED <<tables, mixed>>
    BY <1>0, <1>1, BeginSteps
  <2> QED BY <1>0, <2>1, AtTablesStep, NoMirror, MirrorStep
<1>2. ASSUME NEW p \in Processes,
             (\E v \in 1..Len(copies) : Synchronize(p, v)) \/ (\E t \in GwTrees : Screen(p, t))
      PROVE  MirrorInv'
  <2>1. Alone(p) /\ pc[p] = "idle" /\ pc'[p] = "sync" /\ UNCHANGED tables /\ Meet(p)
    BY <1>0, <1>2, MeetSteps
  <2> QED BY <1>0, <2>1, NoMirror, AtTablesStep, MirrorStep
<1>3. ASSUME NEW p \in Processes, CopyRow(p) \/ CopyRefused(p) PROVE MirrorInv'
  <2>1. Alone(p)
    BY <1>0, <1>3, TypesCopy
  <2>2. pc[p] = "copy" /\ UNCHANGED <<tables, mixed, pc>>
    BY <1>3 DEF CopyRow, CopyRefused
  <2> QED BY <1>0, <2>1, <2>2, AtTablesStep, NoMirror, MirrorStep
<1>4. ASSUME NEW p \in Processes, EndCopy(p) \/ EndCopyOrdered(p) PROVE MirrorInv'
  <2>1. Alone(p)
    BY <1>0, <1>4, TypesCopy
  <2>2. /\ UNCHANGED tables /\ pc[p] = "copy"
        /\ \/ pc'[p] = "idle" /\ UNCHANGED mixed
           \/ pc'[p] \in {"sync", "backup"} /\ Meet(p)
    BY <1>0, <1>4, EndCopySteps
  <2> QED BY <1>0, <2>1, <2>2, NoMirror, AtTablesStep, MirrorStep
<1>5. ASSUME NEW p \in Processes, Backup(p) \/ BackupFails(p) PROVE MirrorInv'
  <2>1. Alone(p)
    BY <1>0, <1>5, TypesCopy
  <2>2. /\ pc[p] = "backup" /\ UNCHANGED <<mixed, tables>>
        /\ \E l \in {"sync", "idle"} : pc' = [pc EXCEPT ![p] = l]
    BY <1>5 DEF Backup, BackupFails, Finish, Goto
  <2>3. pc'[p] \in {"sync", "idle"}
    BY <1>0, <2>2, GotoAlone
  <2> QED BY <1>0, <2>1, <2>2, <2>3, NoMirror, AtTablesStep, MirrorStep
<1>6. ASSUME NEW p \in Processes, Alone(p), UNCHANGED mixed, pc[p] \notin {"idle", "copy"}, Mirroring(p)'
      PROVE  MirrorInv'
  BY <1>0, <1>6, AtTablesStep, MirrorStep
<1>7. ASSUME NEW p \in Processes, Reset(p) PROVE MirrorInv'
  <2>1. Alone(p) /\ pc[p] = "sync" /\ UNCHANGED mixed
    BY <1>0, <1>7, ResetSteps
  <2> QED BY <1>0, <1>6, <1>7, <2>1, ResetMirrors
<1>8. ASSUME NEW p \in Processes, SaveGroup(p) PROVE MirrorInv'
  <2>1. Alone(p) /\ pc[p] = "walk" /\ UNCHANGED mixed
    BY <1>0, <1>8, SaveGroupSteps
  <2> QED BY <1>0, <1>6, <1>8, <2>1, SaveGroupMirrors
<1>9. ASSUME NEW p \in Processes, SaveUser(p) PROVE MirrorInv'
  <2>1. Alone(p) /\ pc[p] = "walk" /\ UNCHANGED mixed
    BY <1>0, <1>9, SaveUserSteps
  <2> QED BY <1>0, <1>6, <1>9, <2>1, SaveUserMirrors
<1>10. ASSUME NEW p \in Processes, NextGroups(p) \/ SaveRefused(p) \/ EndWalk(p) PROVE MirrorInv'
  <2>1. Alone(p) /\ pc[p] = "walk" /\ UNCHANGED mixed
    BY <1>0, <1>10, WalkOnSteps, SweepSteps DEF EndWalk
  <2> QED BY <1>0, <1>6, <1>10, <2>1, WalkMirrors
<1>11. ASSUME NEW p \in Processes, DestroyUser(p) \/ EndUsers(p) PROVE MirrorInv'
  <2>1. Alone(p) /\ pc[p] = "users" /\ UNCHANGED mixed
    BY <1>0, <1>11, SweepSteps, DestroyUserSteps DEF EndUsers
  <2> QED BY <1>0, <1>6, <1>11, <2>1, SweepUsersMirrors
<1>12. ASSUME NEW p \in Processes, DestroyGroup(p) PROVE MirrorInv'
  <2>1. Alone(p) /\ pc[p] = "groups" /\ UNCHANGED mixed
    BY <1>0, <1>12, DestroyGroupSteps
  <2> QED BY <1>0, <1>6, <1>12, <2>1, SweepGroupsMirrors
<1>13. ASSUME NEW p \in Processes, EndSync(p) \/ Kill(p) PROVE MirrorInv'
  <2>1. Alone(p) /\ pc'[p] = "idle" /\ UNCHANGED <<tables, mixed>>
    BY <1>0, <1>13, EndSteps
  <2> QED BY <1>0, <2>1, NoMirror, AtTablesStep, MirrorStep
<1>14. ASSUME \/ \E p \in Processes, v \in 1..Len(copies) : Destroy(p, v)
              \/ \E t \in LdapTrees : Change(t)
              \/ \E t \in GwTrees : Order(t)
              \/ UNCHANGED vars
       PROVE  MirrorInv'
  <2>1. UNCHANGED <<tables, mixed, pc, job>>
    BY <1>0, <1>14, OutsideSteps
  <2>2. ASSUME NEW q \in Processes PROVE Mirroring(q)'
    BY <1>0, <2>1, MirrorStays
  <2> QED BY <1>0, <2>2, FlagsNext DEF MirrorInv
<1> QED
  BY <1>1, <1>2, <1>3, <1>4, <1>5, <1>7, <1>8, <1>9, <1>10, <1>11, <1>12, <1>13, <1>14
  DEF Next, Copying, Walking, Sweeping

(* What SuccessMirrors says of the steps of one process.                   *)
SuccessStep(p) ==
  (job[p].order # 0 /\ pc[p] = "groups" /\ pc'[p] = "idle"
     /\ orders'[job[p].order].state = "success" /\ p \notin mixed
     /\ job[p].ver \notin cut /\ Apart(job[p].tree) = {}) =>
       LET t == job[p].tree IN
         /\ Own(groups, TRUE) = Listed("group", t)
         /\ Own(users, TRUE) = Listed("user", t) \ Own(users, FALSE)
         /\ \A g \in Own(groups, TRUE) : PlacedAs(t, "group", g, groups[g].parent)
         /\ \A u \in Own(users, TRUE) :
              \E g \in Groups : users[u].in = {g} /\ PlacedAs(t, "user", u, g)

(* Only EndSync ends the sweep of an order with success, when nothing was  *)
(* refused and nothing is left to be destroyed.                            *)
LEMMA SuccessEnds ==
  ASSUME Types, HeldInv, [Next]_vars, NEW p \in Processes, pc[p] = "groups", pc'[p] = "idle",
         job[p].order # 0, orders'[job[p].order].state = "success"
  PROVE  job[p].doomed = {} /\ ~job[p].bad
<1>1. /\ job[p].order \in 1..Len(orders) /\ orders[job[p].order].state # "success"
  BY DEF HeldInv, Held
<1>2. ~UNCHANGED orders /\ pc'[p] # pc[p]
  BY <1>1
<1>3. ASSUME NEW q \in Processes, Alone(q) PROVE q = p
  BY <1>2, <1>3 DEF Alone
<1>4. ASSUME NEW q \in Processes, Run(q) \/ Create(q) \/ Check(q) PROVE FALSE
  BY <1>3, <1>4, BeginSteps
<1>5. ASSUME NEW q \in Processes,
             (\E v \in 1..Len(copies) : Synchronize(q, v)) \/ (\E t \in GwTrees : Screen(q, t))
      PROVE  FALSE
  BY <1>3, <1>5, MeetSteps
<1>6. ASSUME NEW q \in Processes,
             \/ CopyRow(q) \/ CopyRefused(q) \/ EndCopy(q) \/ EndCopyOrdered(q) \/ Backup(q) \/ BackupFails(q)
      PROVE  FALSE
  <2>1. q = p
    BY <1>3, <1>6, TypesCopy
  <2> QED BY <1>6, <2>1 DEF CopyRow, CopyRefused, EndCopy, EndCopyOrdered, Backup, BackupFails
<1>7. ASSUME NEW q \in Processes, Reset(q) \/ SaveGroup(q) \/ SaveUser(q) PROVE FALSE
  <2>1. q = p
    BY <1>3, <1>7, ResetSteps, SaveGroupSteps, SaveUserSteps
  <2> QED BY <1>7, <2>1 DEF Reset, SaveGroup, SaveUser
<1>8. ASSUME NEW q \in Processes, NextGroups(q) \/ SaveRefused(q) \/ EndWalk(q) \/ EndUsers(q) PROVE FALSE
  BY <1>3, <1>8, WalkOnSteps, SweepSteps
<1>9. ASSUME NEW q \in Processes, DestroyUser(q) \/ DestroyGroup(q) PROVE FALSE
  BY <1>3, <1>9, DestroyUserSteps, DestroyGroupSteps
<1>10. ASSUME NEW q \in Processes, Kill(q) PROVE FALSE
  BY <1>2, <1>10 DEF Kill
<1>11. ASSUME \/ \E q \in Processes, v \in 1..Len(copies) : Destroy(q, v)
              \/ \E t \in LdapTrees : Change(t)
              \/ \E t \in GwTrees : Order(t)
              \/ UNCHANGED vars
       PROVE  FALSE
  BY <1>2, <1>11, OutsideSteps
<1>12. \E q \in Processes : EndSync(q)
  BY <1>4, <1>5, <1>6, <1>7, <1>8, <1>9, <1>10, <1>11 DEF Next, Copying, Walking, Sweeping
<1>13. EndSync(p)
  BY <1>3, <1>12, EndSteps
<1>14. job[p].doomed = {} /\ SetOrder(p, IF job[p].bad THEN "failure" ELSE "success")
  BY <1>13 DEF EndSync
<1>15. ASSUME job[p].bad PROVE FALSE
  <2>1. SetOrder(p, "failure")
    BY <1>14, <1>15
  <2>2. orders'[job[p].order].state = "failure"
    BY <1>1, <2>1, SetOrderSteps
  <2> QED BY <2>2
<1> QED BY <1>14, <1>15

(* The last row for a user or a group is its place in the tree.            *)
LEMMA LastPlaced ==
  ASSUME NEW t \in DOMAIN Trees, NEW kind, NEW code, NEW above,
         LastOf(Trees[t], Len(Trees[t]), kind, code, above)
  PROVE  PlacedAs(t, kind, code, above)
<1> DEFINE T == Trees[t]
<1>1. T \in Seq(Row) /\ Len(T) \in Nat /\ DOMAIN T = 1..Len(T)
  BY SynchroAssumption
<1>2. PICK i \in 1..Len(T) : /\ T[i].kind = kind /\ T[i].code = code /\ T[i].above = above
                             /\ \A j \in (i + 1)..Len(T) : T[j].kind # kind \/ T[j].code # code
  BY DEF LastOf
<1>3. T[i] = [kind |-> kind, code |-> code, above |-> above]
  <2>1. T[i] \in Row
    BY <1>1
  <2> QED BY <1>2, <2>1 DEF Row
<1>4. \A j \in DOMAIN T : j > i => T[j].kind # kind \/ T[j].code # code
  <2>1. \A j \in DOMAIN T : j > i => j \in (i + 1)..Len(T)
    BY <1>1
  <2> QED BY <1>2, <2>1
<1> QED BY <1>1, <1>3, <1>4 DEF PlacedAs

(* An order that ends in success leaves the tables as its tree.            *)
LEMMA SuccessMirror ==
  ASSUME MirrorFacts, MirrorInv, [Next]_vars, NEW p \in Processes
  PROVE  SuccessStep(p)
<1> SUFFICES ASSUME job[p].order # 0, pc[p] = "groups", pc'[p] = "idle",
                    orders'[job[p].order].state = "success", p \notin mixed,
                    job[p].ver \notin cut, Apart(job[p].tree) = {},
                    NEW t, t = job[p].tree, NEW T, T = Trees[t]
             PROVE  /\ Own(groups, TRUE) = Listed("group", t)
                    /\ Own(users, TRUE) = Listed("user", t) \ Own(users, FALSE)
                    /\ \A g \in Own(groups, TRUE) : PlacedAs(t, "group", g, groups[g].parent)
                    /\ \A u \in Own(users, TRUE) :
                         \E g \in Groups : users[u].in = {g} /\ PlacedAs(t, "user", u, g)
  BY DEF SuccessStep
<1>1. Types /\ HeldInv /\ Mirroring(p) /\ Flags /\ GroupRows /\ t \in DOMAIN Trees
  BY JobOf DEF MirrorFacts, BackInv, MirrorInv, Types, JobRow
<1>2. job[p].doomed = {} /\ ~job[p].bad
  BY <1>1, SuccessEnds
<1>3. Pure(p)
  BY <1>2 DEF Pure
<1>4. UsersAs(T, Len(T), {}) /\ GroupsAs(T, Len(T), {})
  BY <1>1, <1>2, <1>3 DEF Mirroring
<1>5. T \in Seq(Row) /\ Len(T) \in 0..Len(T) /\ DOMAIN T = 1..Len(T)
  BY <1>1, SynchroAssumption
<1>6. \A kind, code, above : LastOf(T, Len(T), kind, code, above) =>
        code \in Listed(kind, t) /\ PlacedAs(t, kind, code, above)
  BY <1>1, <1>5, LastListed, LastPlaced
<1>7. \A kind : \A code \in Listed(kind, t) : \E i \in 1..Len(T) : T[i].kind = kind /\ T[i].code = code
  BY <1>5 DEF Listed, Range
<1>8. ASSUME NEW g \in Own(groups, TRUE)
      PROVE  g \in Listed("group", t) /\ PlacedAs(t, "group", g, groups[g].parent)
  BY <1>4, <1>6 DEF Own, GroupsAs
<1>9. ASSUME NEW g \in Listed("group", t) PROVE g \in Own(groups, TRUE)
  <2>1. g \in DOMAIN groups /\ groups[g].ldap
    BY <1>4, <1>7 DEF GroupsAs
  <2> QED BY <1>1, <2>1 DEF GroupRows, Own
<1>10. ASSUME NEW u \in Own(users, TRUE)
       PROVE  /\ u \in Listed("user", t) \ Own(users, FALSE)
              /\ \E g \in Groups : users[u].in = {g} /\ PlacedAs(t, "user", u, g)
  <2>1. u \in DOMAIN users \ {} /\ users[u].ldap = TRUE
    BY DEF Own
  <2>2. PICK g \in Groups : users[u].in = {g} /\ LastOf(T, Len(T), "user", u, g)
    BY <1>4, <2>1 DEF UsersAs
  <2> QED BY <1>6, <2>1, <2>2 DEF Own
<1>11. ASSUME NEW u \in Listed("user", t), u \notin Own(users, FALSE) PROVE u \in Own(users, TRUE)
  <2>1. u \in DOMAIN users
    BY <1>4, <1>7 DEF UsersAs
  <2> QED BY <1>1, <1>11, <2>1 DEF Flags, Own
<1> QED BY <1>8, <1>9, <1>10, <1>11

(* After an order that had the tables for itself ends in success, the      *)
(* users and groups of the directory are those of its tree, each group     *)
(* below its parent and each user in its last group and no other, also     *)
(* after attempts that were killed halfway (SuccessMirrors).               *)
THEOREM SuccessIsMirror == Spec => SuccessMirrors
<1>1. MirrorFacts /\ MirrorInv /\ [Next]_vars => \A p \in Processes : SuccessStep(p)
  BY SuccessMirror
<1>2. MirrorFacts /\ MirrorInv /\ [Next]_vars => [\A p \in Processes : SuccessStep(p)]_vars
  BY <1>1
<1>3. BackInv => Types
  BY DEF BackInv
<1>4. Spec => []BackInv
  BY BackInit, BackNext, PTL DEF Spec
<1>5. Spec => []CopyInv
  BY <1>3, <1>4, CopyInit, CopyNext, PTL DEF Spec
<1>6. Spec => []SpareInv
  BY <1>4, <1>5, SpareInit, SpareNext, PTL DEF Spec
<1>7. Spec => []OrderInv
  BY <1>3, <1>4, <1>5, OrderInit, OrderNext, PTL DEF Spec
<1>8. Spec => []HeldInv
  BY <1>3, <1>4, HeldInit, HeldNext, PTL DEF Spec
<1>9. Spec => []MirrorFacts
  BY <1>4, <1>5, <1>6, <1>7, <1>8, PTL DEF MirrorFacts
<1>10. Spec => []MirrorInv
  BY <1>9, MirrorInit, MirrorNext, PTL DEF Spec
<1>11. Spec => [][\A p \in Processes : SuccessStep(p)]_vars
  BY <1>2, <1>9, <1>10, PTL DEF Spec
<1> QED BY <1>11 DEF SuccessMirrors, SuccessStep
=============================================================================
