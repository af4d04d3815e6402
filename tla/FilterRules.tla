--------------------------- MODULE FilterRules ---------------------------
(***************************************************************************)
(* The decision part of app/models/webmail/filter.rb: when a filter        *)
(* matches, which of several filters takes a mail, how a list of UIDs is   *)
(* cut into the part handled at once and the part left to a job, and into  *)
(* slices.  Filters are named by their rank in the order (sort_no, id) the *)
(* code loads them in.                                                     *)
(***************************************************************************)
EXTENDS ImapStore

CONSTANTS Filters,    \* ranks of the user's filters, a finite set of numbers
          Chain,      \* conditions_chain of each filter: "and" or "or"
          Conditions, \* the conditions of each filter, each the set of mails it hits
          Target,     \* where the filter's action puts a mail: mailbox_name of a
                      \* 'move' filter, the Trash mailbox of a 'delete' filter
          SliceSize,  \* NUMBER_OF_SLICE_UIDS
          MaxAtOnce   \* webmail.filter_max_mail_count_at_once

ASSUME RulesAssumption ==
  /\ Filters \subseteq Nat /\ IsFiniteSet(Filters)
  /\ Chain \in [Filters -> {"and", "or"}]
  /\ Conditions \in [Filters -> SUBSET (SUBSET Mails)]
  /\ Target \in [Filters -> Boxes]
  /\ SliceSize \in Nat \ {0}
  /\ MaxAtOnce \in Nat

(* Filter#match? *)
Match(f, m) ==
  \/ Chain[f] = "or"  /\ \E c \in Conditions[f] : m \in c
  \/ Chain[f] = "and" /\ \A c \in Conditions[f] : m \in c

(* Faulty variant of Takes: no break. *)
TakesToo(f, fs, m) == f \in fs /\ Match(f, m)

(* The loop over the filters stops (break) at the first that matches. *)
Takes(f, fs, m) == f \in fs /\ Match(f, m) /\ \A g \in fs : g < f => ~Match(g, m)

(* The n largest UIDs: every list of UIDs the code schedules is in         *)
(* descending order, so a cut after n elements keeps these.                *)
Newest(n, uids) == {u \in uids : Cardinality({v \in uids : v > u}) < n}

(* Filter.schedule_mail_uids for one mailbox *)
AtOnce(uids)  == Newest(MaxAtOnce, uids)
Delayed(uids) == uids \ AtOnce(uids)

(* each_slice(NUMBER_OF_SLICE_UIDS): the next slice of what is left *)
NextSlice(uids) == Newest(SliceSize, uids)
===========================================================================
