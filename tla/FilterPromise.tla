-------------------------- MODULE FilterPromise --------------------------
(***************************************************************************)
(* What the mail filters promise, without requests, jobs, UIDs or IMAP     *)
(* commands: a mail is at one place at a time, and out of the inbox it     *)
(* goes only by the user's hand, to a mailbox he files in, or by a filter  *)
(* that matches it, to that filter's target.                               *)
(***************************************************************************)
EXTENDS FilterRules

CONSTANTS UserBoxes, \* the mailboxes the user files mails in by hand
          Outside    \* where a mail is before it is delivered

VARIABLE place

Init == place = [m \in Mails |-> Outside]

Deliver(m) ==
  /\ place[m] = Outside
  /\ place' = [place EXCEPT ![m] = Inbox]

(* A filter files some of the mails of the inbox it matches. *)
File(f, S) ==
  /\ S # {}
  /\ \A m \in S : place[m] = Inbox /\ Match(f, m)
  /\ place' = [m \in Mails |-> IF m \in S THEN Target[f] ELSE place[m]]

Refile(m, b) ==
  /\ \/ place[m] = Inbox /\ b \in UserBoxes
     \/ place[m] # Outside /\ b = Inbox
  /\ place' = [place EXCEPT ![m] = b]

Next ==
  \/ \E m \in Mails : Deliver(m)
  \/ \E f \in Filters, S \in SUBSET Mails : File(f, S)
  \/ \E m \in Mails, b \in Boxes : Refile(m, b)

Spec == Init /\ [][Next]_place
===========================================================================
