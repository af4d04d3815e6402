---------------------------- MODULE ImapStore ----------------------------
(***************************************************************************)
(* The IMAP server as the webmail uses it (external: the server is not     *)
(* part of the repository).  A message is a copy of a mail held in a       *)
(* mailbox under a UID; the server hands out UIDs in ascending order and   *)
(* never reuses one.  The operators are the effects of the commands that   *)
(* app/models/concerns/webmail/mails/imap.rb issues: UID MOVE, UID COPY,   *)
(* UID STORE +FLAGS (\Deleted), EXPUNGE.                                   *)
(***************************************************************************)
EXTENDS Naturals, FiniteSets

CONSTANTS Mails,    \* the mails that may be delivered
          Boxes,    \* the mailboxes of the account
          Inbox     \* the mailbox new mails arrive in

ASSUME InboxAssumption == Inbox \in Boxes

Message == [box : Boxes, uid : Nat \ {0}, mail : Mails, seen : BOOLEAN, deleted : BOOLEAN]

(* The messages of mailbox b named by a UID set; UIDs that no longer exist *)
(* are silently ignored by every UID command.                              *)
Named(store, b, uids) == {r \in store : r.box = b /\ r.uid \in uids}

UidsOf(S) == {r.uid : r \in S}

(* The UID the server gives to r when the messages S enter a mailbox whose *)
(* UIDNEXT is next.                                                        *)
NewUid(r, S, next) == next + Cardinality({q \in S : q.uid < r.uid})

(* What the messages S become in mailbox dest: flags travel with the mail. *)
Arrivals(S, dest, next) ==
  {[r EXCEPT !.box = dest, !.uid = NewUid(r, S, next)] : r \in S}

(* UID STORE +FLAGS (\Deleted). *)
MarkDeleted(store, b, uids) ==
  (store \ Named(store, b, uids))
    \cup {[r EXCEPT !.deleted = TRUE] : r \in Named(store, b, uids)}

(* A plain EXPUNGE removes every message of the mailbox that carries       *)
(* \Deleted, whoever set the flag.                                         *)
Expunge(store, b) == {r \in store : ~(r.box = b /\ r.deleted)}
===========================================================================
