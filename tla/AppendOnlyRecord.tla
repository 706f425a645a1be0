--------------------------- MODULE AppendOnlyRecord ---------------------------
(***************************************************************************)
(* What the system of record promises about one stream, with no sessions,  *)
(* locks or hashes: a log that only grows, a block of events at a time,    *)
(* and a status beside each event that changes only in the step that logs  *)
(* the change.                                                             *)
(***************************************************************************)
EXTENDS Integers, Sequences

CONSTANTS NoKey, StatusOf(_), ReviewKind

VARIABLES
  log,      \* the events, in seq order
  status    \* status[i]: the cached status of log[i]

vars == <<log, status>>

Init == log = <<>> /\ status = <<>>

New == (Len(log) + 1)..Len(log')

\* A block of events is appended to an unchanged log. A keyed event is new to
\* the log, and a review is of an event already in it.
Grows ==
  /\ Len(log') > Len(log)
  /\ SubSeq(log', 1, Len(log)) = log
  /\ \A i \in New, j \in 1..Len(log') :
       i # j /\ log'[i].key # NoKey => log'[i].key # log'[j].key
  /\ \A i \in New :
       log'[i].kind \in ReviewKind => log'[i].target \in 1..Len(log)

\* An old event keeps its status unless a review in the block changes it.
StatusFollows ==
  /\ Len(status') = Len(log')
  /\ \A i \in 1..Len(log) :
       status'[i] # status[i] =>
         \E j \in New : /\ log'[j].kind \in ReviewKind
                        /\ log'[j].target = i
                        /\ status'[i] = StatusOf(log'[j].kind)

AppendBlock == Grows /\ StatusFollows

Spec == Init /\ [][AppendBlock]_vars
=============================================================================
