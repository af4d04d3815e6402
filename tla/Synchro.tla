----------------------------- MODULE Synchro -----------------------------
(***************************************************************************)
(* Synchronising users and groups with a directory                         *)
(* (app/models/sys/ldap_synchro.rb with its screen                         *)
(* app/controllers/sys/admin/ldap_synchros_controller.rb and the task      *)
(* sys:ldap_synchro:run; app/models/system/product_synchro.rb, run by the  *)
(* task system:product_synchro:check; and the screen                       *)
(* app/controllers/sys/admin/product_synchros_controller.rb).              *)
(*                                                                         *)
(* All of them walk over a tree of groups and users, save each row on its  *)
(* own, mark it with a version, and then destroy the rows of the directory *)
(* that bear none; no transaction and no lock is around it.  A row is      *)
(* known by its code, so that a group made again under the code of one     *)
(* that was destroyed is taken for it; of a version only whether it is nil *)
(* is looked at.                                                           *)
(***************************************************************************)
EXTENDS Naturals, Sequences, FiniteSets, Functions

CONSTANTS Groups, Users,
          Root,        \* the group with parent_id 0
          Lost,        \* parent_id of a group that is no more
          Trees,       \* [names -> Seq([kind, code, above])], in the order of sort_no
          FirstTree,   \* what the LDAP server holds at the start
          LdapTrees,   \* those the LDAP server may hold
          GwTrees,     \* those Joruri Gw has made versions of
          FirstGroups, FirstUsers, \* the tables at the start
          Processes,
          Commands,    \* [Processes -> SUBSET {"run", "create", "synchronize", "destroy", "check", "screen"}]
          MaxBegun,    \* bound: copies and synchronisations begun but by Check
          MaxOrders,   \* bound: synchronisations Joruri Gw asks for
          MaxChanges,  \* bound: changes of the LDAP server
          MaxFaults    \* bound: rows refused, backups that fail, processes killed

Row == [kind : {"group"}, code : Groups, above : Groups \cup {Root}]
       \cup [kind : {"user"}, code : Users, above : Groups]

ASSUME SynchroAssumption ==
  /\ {Root, Lost} \cap Groups = {} /\ Root # Lost
  /\ FirstTree \in LdapTrees /\ LdapTrees \cup GwTrees \subseteq DOMAIN Trees
  /\ \A t \in DOMAIN Trees : Trees[t] \in Seq(Row)
  /\ DOMAIN FirstGroups \subseteq Groups /\ DOMAIN FirstUsers \subseteq Users
  /\ \A g \in DOMAIN FirstGroups :
       FirstGroups[g] \in [parent : Groups \cup {Root, Lost}, ldap : BOOLEAN, current : BOOLEAN]
  /\ \A u \in DOMAIN FirstUsers :
       /\ FirstUsers[u] \in [state : {"enabled", "disabled"}, ldap : BOOLEAN, current : BOOLEAN,
                             in : SUBSET DOMAIN FirstGroups, left : {{}}]
       /\ FirstUsers[u].in = {} => FirstUsers[u].state = "disabled"
  /\ {MaxBegun, MaxOrders, MaxChanges, MaxFaults} \subseteq Nat

(* A tree is one: all its rows are below the root, so that the rows right  *)
(* below it, and all rows below those, are the whole tree.                 *)
ASSUME TreesAssumption ==
  \A t \in DOMAIN Trees : \A S \in SUBSET Range(Trees[t]) :
    /\ \A r \in Range(Trees[t]) : r.kind = "group" /\ r.above = Root => r \in S
    /\ \A g \in S, r \in Range(Trees[t]) : g.kind = "group" /\ r.above = g.code => r \in S
    => S = Range(Trees[t])

(* How a tree is listed otherwise decides nothing: it is listed in the     *)
(* order of the walk, every row after that of its group, users before      *)
(* groups, all that is below a group in one piece.  No row is there twice, *)
(* and a group has one place.                                              *)
ASSUME OrderAssumption ==
  \A t \in DOMAIN Trees : LET T == Trees[t] IN
    /\ \A i, j \in DOMAIN T :
         T[i] = T[j] \/ (T[i].kind = "group" /\ T[j].kind = "group" /\ T[i].code = T[j].code) => i = j
    /\ \A i \in DOMAIN T :
         T[i].above = Root \/ \E h \in 1..(i - 1) : T[h].kind = "group" /\ T[h].code = T[i].above
    /\ \A i, j \in DOMAIN T :
         T[i].kind = "user" /\ T[j].kind = "group" /\ T[i].above = T[j].above => i < j
    /\ \A h, i, j \in DOMAIN T :
         T[h].kind = "group" /\ T[j].above = T[h].code /\ h < i /\ i < j =>
           \E g \in h..(i - 1) : T[g].kind = "group" /\ T[g].code = T[i].above

VARIABLES
  groups,  \* sys_groups but the root: [codes -> [parent, ldap, current]]
  users,   \* sys_users: [accounts -> [state, ldap, current, in, left]], with the rows of
           \* sys_users_groups: in, the groups that are there, and left, those that are gone
  twice,   \* history: groups that a sweep has destroyed when they were gone already
  unsaved, \* history: users who lost their last group, but were not saved as disabled
  copies,  \* sys_ldap_synchros: of each version its rows
  backup,  \* sys_users_backups, sys_groups_backups
  orders,  \* system_product_synchros, in the order of created_at: [tree, state]
  dir,     \* the tree the LDAP server holds
  pc, job, \* what each process is at
  origin,  \* history: of each version the tree it was copied from
  short,   \* history: versions that lack rows that were refused
  cut,     \* history: versions destroyed, or not complete when they were used
  mixed,   \* history: processes that did not have the tables or the tree for themselves
  killed,  \* history: orders whose process was killed
  begun, changes, faults \* history: how often the bounded events happened

sweeps  == <<twice, unsaved>>
tables  == <<groups, users, sweeps>>
history == <<origin, short, cut>>
count   == <<begun, changes, faults>>
vars    == <<tables, copies, backup, orders, dir, pc, job, history, mixed, killed, count>>

NoJob == [ver |-> 0, tree |-> FirstTree, order |-> 0, then |-> "stop", todo |-> <<>>,
          doomed |-> {}, got |-> {}, bad |-> FALSE]

Init ==
  /\ groups = FirstGroups /\ users = FirstUsers /\ twice = {} /\ unsaved = {}
  /\ copies = <<>> /\ origin = <<>> /\ short = {} /\ cut = {} /\ mixed = {} /\ killed = {}
  /\ backup = [users |-> FirstUsers, groups |-> FirstGroups]
  /\ orders = <<>> /\ dir = FirstTree
  /\ pc = [p \in Processes |-> "idle"] /\ job = [p \in Processes |-> NoJob]
  /\ begun = 0 /\ changes = 0 /\ faults = 0

Goto(p, label) == pc' = [pc EXCEPT ![p] = label]
Busy == {p \in Processes : pc[p] # "idle"}
AtTables == {p \in Busy : pc[p] # "copy"}
Copiers(v) == {p \in Busy : pc[p] = "copy" /\ job[p].ver = v}
Fault == faults < MaxFaults /\ faults' = faults + 1 /\ UNCHANGED <<begun, changes>>
Begin == begun < MaxBegun /\ begun' = begun + 1 /\ UNCHANGED <<changes, faults>>
(* Who comes while others are at the tables shares the tables with them.   *)
Meet(p) == mixed' = IF AtTables = {} THEN mixed \ {p} ELSE mixed \cup AtTables \cup {p}
Finish(p) == Goto(p, "idle") /\ job' = [job EXCEPT ![p] = NoJob]
SetOrder(p, state) == orders' = IF job[p].order = 0 THEN orders
                                ELSE [orders EXCEPT ![job[p].order].state = state]

(* A row is updated, or inserted if there is none with the code.           *)
Save(table, code, row) == [k \in DOMAIN table \cup {code} |-> IF k = code THEN row ELSE table[k]]

(* children and users of a row: the rows right below it, in their order.   *)
Below(rows, kind, code) ==
  LET places == {i \in DOMAIN rows : rows[i].kind = kind /\ rows[i].above = code}
      Place(n) == CHOOSE i \in places : Cardinality({j \in places : j <= i}) = n
  IN [n \in 1..Cardinality(places) |-> rows[Place(n)]]
(* Both walks go over the users of a group, then over the groups below it; *)
(* each list is read when it is come to ("next" stands for the second).    *)
Expand(rows, r) ==
  CASE r.kind = "group" -> Below(rows, "user", r.code) \o <<[r EXCEPT !.kind = "next"]>>
    [] r.kind = "next"  -> Below(rows, "group", r.code)
    [] OTHER            -> <<>>
Onwards(p, rows) == Expand(rows, Head(job[p].todo)) \o Tail(job[p].todo)
---------------------------------------------------------------------------
(* The copy: create_synchros from the LDAP server, copy_ldap_temporaries   *)
(* from the rows of Joruri Gw                                              *)

BeginCopy(p, then, tree, order) ==
  /\ pc[p] = "idle"
  /\ copies' = Append(copies, <<>>) /\ origin' = Append(origin, tree)
  /\ job' = [job EXCEPT ![p] = [NoJob EXCEPT !.ver = Len(copies) + 1, !.tree = tree,
                                  !.order = order, !.then = then,
                                  !.todo = Below(Trees[tree], "group", Root)]]
  /\ Goto(p, "copy")
  /\ UNCHANGED <<tables, backup, dir, short, cut, mixed, killed>>

(* LdapSynchro.run; LdapSynchrosController#create                          *)
Run(p)    == "run" \in Commands[p] /\ Begin /\ BeginCopy(p, "sync", dir, 0) /\ UNCHANGED orders
Create(p) == "create" \in Commands[p] /\ Begin /\ BeginCopy(p, "stop", dir, 0) /\ UNCHANGED orders

(* ProductSynchro.check: the oldest order in state "start", then execute.  *)
Check(p) ==
  /\ "check" \in Commands[p]
  /\ \E i \in 1..Len(orders) :
       /\ orders[i].state = "start" /\ \A j \in 1..(i - 1) : orders[j].state # "start"
       /\ BeginCopy(p, "backup", orders[i].tree, i)
       /\ orders' = [orders EXCEPT ![i].state = "temp"]
  /\ UNCHANGED count

CopySource(p) == Trees[IF job[p].order = 0 THEN dir ELSE job[p].tree]

CopyRow(p) ==
  /\ pc[p] = "copy" /\ job[p].todo # <<>>
  /\ LET r == Head(job[p].todo) IN
       /\ copies' = IF r.kind = "next" THEN copies ELSE [copies EXCEPT ![job[p].ver] = Append(@, r)]
       /\ job' = [job EXCEPT ![p].todo = Onwards(p, CopySource(p)), ![p].got = @ \cup {r.kind}]
  /\ UNCHANGED <<tables, backup, orders, dir, pc, history, mixed, killed, count>>

(* A row that is not saved is left out, a group with all that is below it. *)
CopyRefused(p) ==
  /\ pc[p] = "copy" /\ job[p].todo # <<>> /\ Head(job[p].todo).kind # "next"
  /\ job' = [job EXCEPT ![p].todo = Tail(@), ![p].bad = TRUE]
  /\ short' = short \cup {job[p].ver} /\ Fault
  /\ UNCHANGED <<tables, copies, backup, orders, dir, pc, origin, cut, mixed, killed>>

(* create shows the counts; run stops when no group or no user was copied, *)
(* whatever has been refused.                                              *)
EndCopy(p) ==
  /\ pc[p] = "copy" /\ job[p].todo = <<>> /\ job[p].then # "backup"
  /\ IF job[p].then = "sync" /\ {"group", "user"} \subseteq job[p].got
     THEN Goto(p, "sync") /\ Meet(p) /\ job' = [job EXCEPT ![p].bad = FALSE]
     ELSE Finish(p) /\ UNCHANGED mixed
  /\ UNCHANGED <<tables, copies, backup, orders, dir, history, killed, count>>

(* Faulty variant of EndCopyOrdered: the backup is made whatever was refused. *)
EndCopyOrderedAnyway(p) ==
  /\ pc[p] = "copy" /\ job[p].todo = <<>> /\ job[p].then = "backup"
  /\ SetOrder(p, "back") /\ Goto(p, "backup") /\ Meet(p) /\ job' = [job EXCEPT ![p].bad = FALSE]
  /\ UNCHANGED <<tables, copies, backup, dir, history, killed, count>>

(* Faulty variant of EndCopyOrdered: the failure is not recorded.          *)
EndCopyOrderedSilently(p) ==
  /\ pc[p] = "copy" /\ job[p].todo = <<>> /\ job[p].then = "backup"
  /\ IF job[p].bad THEN Finish(p) /\ UNCHANGED <<orders, mixed>>
     ELSE SetOrder(p, "back") /\ Goto(p, "backup") /\ Meet(p) /\ UNCHANGED job
  /\ UNCHANGED <<tables, copies, backup, dir, history, killed, count>>

(* copy_ldap_temporary stops the synchronisation after any refused row.    *)
EndCopyOrdered(p) ==
  /\ pc[p] = "copy" /\ job[p].todo = <<>> /\ job[p].then = "backup"
  /\ IF job[p].bad THEN SetOrder(p, "failure") /\ Finish(p) /\ UNCHANGED mixed
     ELSE SetOrder(p, "back") /\ Goto(p, "backup") /\ Meet(p) /\ UNCHANGED job
  /\ UNCHANGED <<tables, copies, backup, dir, history, killed, count>>

(* backup_table: the three tables are copied one after the other; an error *)
(* leaves the others copied and stops the synchronisation.                 *)
Backup(p) ==
  /\ pc[p] = "backup"
  /\ backup' = [users |-> users, groups |-> groups]
  /\ Goto(p, "sync") /\ SetOrder(p, "sync")
  /\ UNCHANGED <<tables, copies, dir, job, history, mixed, killed, count>>

(* Faulty variant of BackupFails: what backup_table returns is not looked at. *)
BackupFailsUnnoticed(p) ==
  /\ pc[p] = "backup" /\ Fault
  /\ backup' \in {[backup EXCEPT !.users = users], [backup EXCEPT !.groups = groups], backup}
  /\ Goto(p, "sync") /\ SetOrder(p, "sync")
  /\ UNCHANGED <<tables, copies, dir, job, history, mixed, killed>>

BackupFails(p) ==
  /\ pc[p] = "backup" /\ Fault
  /\ backup' \in {[backup EXCEPT !.users = users], [backup EXCEPT !.groups = groups], backup}
  /\ SetOrder(p, "failure") /\ Finish(p)
  /\ UNCHANGED <<tables, copies, dir, history, mixed, killed>>

(* LdapSynchrosController#destroy                                          *)
Destroy(p, v) ==
  /\ "destroy" \in Commands[p] /\ pc[p] = "idle" /\ copies[v] # <<>>
  /\ copies' = [copies EXCEPT ![v] = <<>>]
  /\ cut' = cut \cup {v}
  /\ UNCHANGED <<tables, backup, orders, dir, pc, job, origin, short, mixed, killed, count>>
---------------------------------------------------------------------------
(* The walk: synchronize and do_synchro                                    *)

(* LdapSynchrosController#synchronize: any version, also one that is being *)
(* copied, that was copied in part or that has been destroyed since.       *)
Synchronize(p, v) ==
  /\ "synchronize" \in Commands[p] /\ pc[p] = "idle" /\ Begin
  /\ job' = [job EXCEPT ![p] = [NoJob EXCEPT !.ver = v, !.tree = origin[v]]]
  /\ cut' = IF Copiers(v) = {} THEN cut ELSE cut \cup {v}
  /\ Goto(p, "sync") /\ Meet(p)
  /\ UNCHANGED <<tables, copies, backup, orders, dir, origin, short, killed>>

(* ProductSynchrosController#synchronize: from the rows of Joruri Gw.      *)
Screen(p, tree) ==
  /\ "screen" \in Commands[p] /\ pc[p] = "idle" /\ Begin
  /\ job' = [job EXCEPT ![p] = [NoJob EXCEPT !.tree = tree]]
  /\ Goto(p, "sync") /\ Meet(p)
  /\ UNCHANGED <<tables, copies, backup, orders, dir, history, killed>>

WalkSource(p) == IF job[p].ver = 0 THEN Trees[job[p].tree] ELSE copies[job[p].ver]

(* Faulty variant of Reset: the versions of the last time are left.        *)
ResetNothing(p) ==
  /\ pc[p] = "sync"
  /\ job' = [job EXCEPT ![p].todo = Below(WalkSource(p), "group", Root)]
  /\ Goto(p, "walk")
  /\ UNCHANGED <<tables, copies, backup, orders, dir, history, mixed, killed, count>>

Reset(p) ==
  /\ pc[p] = "sync"
  /\ groups' = [g \in DOMAIN groups |-> [groups[g] EXCEPT !.current = FALSE]]
  /\ users' = [u \in DOMAIN users |-> [users[u] EXCEPT !.current = FALSE]]
  /\ job' = [job EXCEPT ![p].todo = Below(WalkSource(p), "group", Root)]
  /\ Goto(p, "walk")
  /\ UNCHANGED <<sweeps, copies, backup, orders, dir, history, mixed, killed, count>>

(* A group the synchronisation must leave alone is not saved, but what is  *)
(* below it in the directory is walked over.                               *)
SaveGroup(p) ==
  /\ pc[p] = "walk" /\ job[p].todo # <<>>
  /\ LET r == Head(job[p].todo)
         old == IF r.code \in DOMAIN groups THEN groups[r.code].ldap ELSE TRUE IN
       /\ r.kind = "group"
       /\ groups' = IF ~old THEN groups
                    ELSE Save(groups, r.code,
                              [parent |-> IF r.above \in DOMAIN groups \cup {Root}
                                          THEN r.above ELSE Lost,
                               ldap |-> TRUE, current |-> TRUE])
       /\ job' = [job EXCEPT ![p].todo = Onwards(p, WalkSource(p))]
  /\ UNCHANGED <<users, sweeps, copies, backup, orders, dir, pc, history, mixed, killed, count>>

(* The user ends in the group of the row, and in no other (save_group); a  *)
(* disabled user stays disabled.                                           *)
SaveUser(p) ==
  /\ pc[p] = "walk" /\ job[p].todo # <<>>
  /\ LET r == Head(job[p].todo)
         old == IF r.code \in DOMAIN users THEN users[r.code]
                ELSE [state |-> "enabled", ldap |-> TRUE, current |-> FALSE, in |-> {}, left |-> {}] IN
       /\ r.kind = "user"
       /\ users' = IF ~old.ldap THEN users
                   ELSE Save(users, r.code, [old EXCEPT !.current = TRUE,
                                                        !.in = {r.above} \cap DOMAIN groups,
                                                        !.left = {r.above} \ DOMAIN groups])
       /\ job' = [job EXCEPT ![p].todo = Tail(@)]
  /\ UNCHANGED <<groups, sweeps, copies, backup, orders, dir, pc, history, mixed, killed, count>>

NextGroups(p) ==
  /\ pc[p] = "walk" /\ job[p].todo # <<>> /\ Head(job[p].todo).kind = "next"
  /\ job' = [job EXCEPT ![p].todo = Onwards(p, WalkSource(p))]
  /\ UNCHANGED <<tables, copies, backup, orders, dir, pc, history, mixed, killed, count>>

(* A row that is not saved keeps the version nil; below such a group the   *)
(* walk does not go.                                                       *)
SaveRefused(p) ==
  /\ pc[p] = "walk" /\ job[p].todo # <<>>
  /\ LET r == Head(job[p].todo) IN
       \/ r.kind = "user"  /\ ~(r.code \in DOMAIN users /\ ~users[r.code].ldap)
       \/ r.kind = "group" /\ ~(r.code \in DOMAIN groups /\ ~groups[r.code].ldap)
  /\ job' = [job EXCEPT ![p].todo = Tail(@), ![p].bad = TRUE]
  /\ Fault
  /\ UNCHANGED <<tables, copies, backup, orders, dir, pc, history, mixed, killed>>
---------------------------------------------------------------------------
(* The sweep: destroy_all reads the rows, then destroys one after another  *)

Outdated(table) == {k \in DOMAIN table : table[k].ldap /\ ~table[k].current}

EndWalk(p) ==
  /\ pc[p] = "walk" /\ job[p].todo = <<>>
  /\ job' = [job EXCEPT ![p].doomed = Outdated(users)] /\ Goto(p, "users")
  /\ UNCHANGED <<tables, copies, backup, orders, dir, history, mixed, killed, count>>

DestroyUser(p) ==
  /\ pc[p] = "users"
  /\ \E u \in job[p].doomed : /\ users' = Restrict(users, DOMAIN users \ {u})
                              /\ job' = [job EXCEPT ![p].doomed = @ \ {u}]
  /\ UNCHANGED <<groups, sweeps, copies, backup, orders, dir, pc, history, mixed, killed, count>>

(* where.not(parent_id: 0) only leaves out the root; the screen of Joruri  *)
(* Gw has where(parent_id: 0), which no group of the directory meets.      *)
EndUsers(p) ==
  /\ pc[p] = "users" /\ job[p].doomed = {}
  /\ job' = [job EXCEPT ![p].doomed = IF job[p].ver = 0 THEN {} ELSE Outdated(groups)]
  /\ Goto(p, "groups")
  /\ UNCHANGED <<tables, copies, backup, orders, dir, history, mixed, killed, count>>

(* dependent: :destroy: a group goes with all the groups below it, the     *)
(* least set that holds its children and those of its members.             *)
Nested == {h \in DOMAIN groups : groups[h].parent \in DOMAIN groups}
Subtree(g) ==
  LET sets == {S \in SUBSET Nested : \A h \in Nested : groups[h].parent \in S \cup {g} => h \in S}
  IN ({g} \cap DOMAIN groups) \cup {h \in Nested : \A S \in sets : h \in S}

(* Who has a group, but none that stays when the groups S go.              *)
Last(S) == {u \in DOMAIN users : users[u].in # {} /\ users[u].in \subseteq S}

(* The rows of sys_users_groups are not deleted with a group.  When the    *)
(* sweep comes to a group that went with one above it, it is destroyed     *)
(* again, and the users it had are counted again by the groups they have.  *)
Again(g) == {u \in DOMAIN users : /\ g \in users[u].left \ DOMAIN groups
                                  /\ \E h \in Groups : users[u].in = {h}}

(* Faulty variant of Leave: whoever loses a group is disabled.             *)
LeaveAny(S, off) ==
  [u \in DOMAIN users |-> [users[u] EXCEPT
     !.in = @ \ S, !.left = @ \cup (users[u].in \cap S),
     !.state = IF users[u].in \cap S # {} THEN "disabled" ELSE @]]

(* The groups S go, and with them these users are disabled.                *)
Leave(S, off) ==
  [u \in DOMAIN users |-> [users[u] EXCEPT
     !.in = @ \ S, !.left = @ \cup (users[u].in \cap S),
     !.state = IF u \in off THEN "disabled" ELSE @]]

(* disable_users: who is in no other group is disabled; what save answers  *)
(* is not looked at (refused).                                             *)
DestroyGroup(p) ==
  /\ pc[p] = "groups"
  /\ \E g \in job[p].doomed : LET S == Subtree(g) IN
       \E refused \in SUBSET (Last(S) \cup Again(g)) :
         /\ users' = Leave(S, (Last(S) \cup Again(g)) \ refused)
         /\ groups' = Restrict(groups, DOMAIN groups \ S)
         /\ twice' = twice \cup ({g} \ DOMAIN groups)
         /\ unsaved' = unsaved \cup (refused \cap Last(S))
         /\ IF refused = {} THEN UNCHANGED count ELSE Fault
         /\ job' = [job EXCEPT ![p].doomed = @ \ {g}]
  /\ UNCHANGED <<copies, backup, orders, dir, pc, history, mixed, killed>>

EndSync(p) ==
  /\ pc[p] = "groups" /\ job[p].doomed = {}
  /\ SetOrder(p, IF job[p].bad THEN "failure" ELSE "success") /\ Finish(p)
  /\ UNCHANGED <<tables, copies, backup, dir, history, mixed, killed, count>>
---------------------------------------------------------------------------
(* The process is killed, or an exception ends it: the rest is not done,   *)
(* and an order stays in the state it was in.                              *)
Kill(p) ==
  /\ p \in Busy /\ Fault /\ Finish(p)
  /\ cut' = IF p \in Copiers(job[p].ver) THEN cut \cup {job[p].ver} ELSE cut
  /\ killed' = IF job[p].order = 0 THEN killed ELSE killed \cup {job[p].order}
  /\ UNCHANGED <<tables, copies, backup, orders, dir, origin, short, mixed>>

(* Outside: the LDAP server's tree changes, also under a copy; Joruri Gw   *)
(* asks for a synchronisation.                                             *)
Change(tree) ==
  /\ changes < MaxChanges /\ changes' = changes + 1 /\ tree # dir /\ dir' = tree
  /\ cut' = cut \cup {v \in 1..Len(copies) : \E p \in Copiers(v) : job[p].order = 0}
  /\ UNCHANGED <<tables, copies, backup, orders, pc, job, origin, short, mixed, killed, begun, faults>>

Order(tree) ==
  /\ Len(orders) < MaxOrders
  /\ orders' = Append(orders, [tree |-> tree, state |-> "start"])
  /\ UNCHANGED <<tables, copies, backup, dir, pc, job, history, mixed, killed, count>>

Copying(p) == CopyRow(p) \/ EndCopy(p) \/ EndCopyOrdered(p) \/ Backup(p)
Walking(p) == Reset(p) \/ SaveGroup(p) \/ SaveUser(p) \/ NextGroups(p) \/ EndWalk(p)
Sweeping(p) == DestroyUser(p) \/ EndUsers(p) \/ DestroyGroup(p) \/ EndSync(p)

Next ==
  \/ \E p \in Processes :
       \/ Run(p) \/ Create(p) \/ Check(p)
       \/ \E v \in 1..Len(copies) : Synchronize(p, v) \/ Destroy(p, v)
       \/ \E t \in GwTrees : Screen(p, t)
       \/ Copying(p) \/ Walking(p) \/ Sweeping(p)
       \/ CopyRefused(p) \/ BackupFails(p) \/ SaveRefused(p) \/ Kill(p)
  \/ \E t \in LdapTrees : Change(t)
  \/ \E t \in GwTrees : Order(t)

Spec == Init /\ [][Next]_vars

(* cron runs the check over and over, and a check that runs goes on.       *)
FairSpec == Spec /\ \A p \in {q \in Processes : "check" \in Commands[q]} :
                      WF_vars(Check(p) \/ Copying(p) \/ Walking(p) \/ Sweeping(p))
---------------------------------------------------------------------------
(* Properties                                                              *)

Listed(kind, tree) == {r.code : r \in {r \in Range(Trees[tree]) : r.kind = kind}}
Own(table, d) == {k \in DOMAIN table : table[k].ldap = d}
(* What p may be excused for: it shared the tables, rows of its version    *)
(* are missing (an order is stopped when they were refused), or a row was  *)
(* refused in its own walk.                                                *)
Clean(p) == /\ p \notin mixed /\ ~job[p].bad /\ job[p].ver \notin cut
            /\ job[p].ver \notin short \/ job[p].order # 0
(* The groups of the tree that the synchronisation does not save: the      *)
(* program has had them of its own, if they have not been destroyed since  *)
(* along with a group above them.                                          *)
Apart(tree) == Listed("group", tree) \cap Own(FirstGroups, FALSE)

(* The sweep of a synchronisation that nothing disturbed destroys no user  *)
(* and no group of the tree it was given, in whatever group they were and  *)
(* whatever earlier synchronisations have left behind (lines 44-58).       *)
ListedAreSpared ==
  [][\A p \in Processes :
       (pc[p] \in {"users", "groups"} /\ job[p].doomed # job'[p].doomed /\ Clean(p)) =>
          /\ Listed("user", job[p].tree) \cap DOMAIN users \subseteq DOMAIN users'
          /\ Apart(job[p].tree) = {} =>
                Listed("group", job[p].tree) \cap DOMAIN groups \subseteq DOMAIN groups']_vars

(* ProductSynchro destroys nothing that is not in the backups as it was    *)
(* before the synchronisation, when it has the tables for itself; but a    *)
(* group of the program's own that the tree names too may go with a group  *)
(* above it, and with it groups that were saved below it in this walk.     *)
BackedUp ==
  [][\A p \in Processes :
       (pc[p] \in {"users", "groups"} /\ job[p].order # 0 /\ p \notin mixed) =>
          /\ \A u \in DOMAIN users \ DOMAIN users' :
               u \in DOMAIN backup.users /\ backup.users[u].in = users[u].in
          /\ \A g \in DOMAIN groups \ DOMAIN groups' :
               \/ g \in DOMAIN backup.groups
               \/ \E h \in Own(groups, FALSE) \ DOMAIN groups' : g \in Subtree(h)]_vars

(* The place of a group, and the last one of a user, in the walk.          *)
PlacedAs(tree, kind, code, above) ==
  \E i \in DOMAIN Trees[tree] :
    /\ Trees[tree][i] = [kind |-> kind, code |-> code, above |-> above]
    /\ \A j \in DOMAIN Trees[tree] :
         (j > i => Trees[tree][j].kind # kind \/ Trees[tree][j].code # code)

(* An order that ends in "success" leaves sys_groups and sys_users as the  *)
(* tree of Joruri Gw, also after attempts that were killed halfway: the    *)
(* rows of the directory are those of the tree, each group below its       *)
(* parent, each user in its last group and in no other.                    *)
SuccessMirrors ==
  [][\A p \in Processes :
       (job[p].order # 0 /\ pc[p] = "groups" /\ pc'[p] = "idle"
          /\ orders'[job[p].order].state = "success" /\ p \notin mixed
          /\ job[p].ver \notin cut /\ Apart(job[p].tree) = {}) =>
            LET t == job[p].tree IN
              /\ Own(groups, TRUE) = Listed("group", t)
              /\ Own(users, TRUE) = Listed("user", t) \ Own(users, FALSE)
              /\ \A g \in Own(groups, TRUE) : PlacedAs(t, "group", g, groups[g].parent)
              /\ \A u \in Own(users, TRUE) :
                   \E g \in Groups : users[u].in = {g} /\ PlacedAs(t, "user", u, g)]_vars

(* Users of the program's own are never destroyed.  Such a user is         *)
(* disabled when the last of its groups is destroyed, by itself or along   *)
(* with a group above it, unless its row could not be saved; and it is not *)
(* disabled before, unless a group it was in was destroyed a second time,  *)
(* after it had gone with one above it (group.rb:16, 26, 104-113,          *)
(* ldap_synchro.rb:58).                                                    *)
LocalUsersKept ==
  \A u \in Own(FirstUsers, FALSE) :
    /\ u \in Own(users, FALSE)
    /\ users[u].in = {} => users[u].state = "disabled" \/ u \in unsaved
    /\ users[u].state = "disabled" =>
         \/ users[u].in = {} \/ FirstUsers[u].state = "disabled"
         \/ users[u].left \cap twice # {}

(* Every order of Joruri Gw ends in success or failure, whatever is        *)
(* refused, unless its process was killed: then nobody takes it up again.  *)
OrdersEnd ==
  \A i \in 1..MaxOrders :
    (i <= Len(orders)) ~>
      (i \in killed \/ (i <= Len(orders) /\ orders[i].state \in {"success", "failure"}))

(* doc/CHANGES.txt:29 says of version 2.1.1 that the fault that groups are *)
(* not deleted by the synchronisation is repaired: a synchronisation that  *)
(* nothing disturbed leaves no group of the directory that the tree it was *)
(* given does not hold.                                                    *)
VanishedGroupsGo ==
  [][\A p \in Processes :
       (pc[p] = "groups" /\ pc'[p] = "idle" /\ Clean(p) /\ faults' = faults) =>
          Own(groups, TRUE) \subseteq Listed("group", job[p].tree)]_vars
=============================================================================
