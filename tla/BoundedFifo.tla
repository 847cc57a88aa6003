---------------------------- MODULE BoundedFifo ----------------------------
(***************************************************************************)
(* What the GUI parameter queue promises, seen from outside: a first-in    *)
(* first-out queue of at most Limit events with one producer and one       *)
(* consumer, neither of which ever waits for the other.                    *)
(*                                                                         *)
(* The one subtlety is when a push may be refused.  The producer learns    *)
(* that events were taken only when it next looks, so it works from its    *)
(* own count of the occupied slots, which may be too high but is never too *)
(* low.  A refusal therefore means "full, as far as the producer can       *)
(* know", and a queue that is full is never pushed into.                   *)
(***************************************************************************)
EXTENDS Naturals, Sequences

CONSTANTS Events,   \* what can be queued
          Blank,    \* what a pop that never succeeded leaves behind
          Limit     \* how many events fit

ASSUME LimitAssumption == Limit \in Nat \ {0}

VARIABLES queue,     \* the events accepted and not yet taken, oldest first
          occupied,  \* how many of them the producer believes are still there
          verdict,   \* what the last push returned
          taken      \* the event the last successful pop handed out

fifoVars == <<queue, occupied, verdict, taken>>

FifoInit ==
  /\ queue = <<>>
  /\ occupied = 0
  /\ verdict = TRUE
  /\ taken = Blank

\* The producer finds out about (some of) the events taken since it last looked.
Learn ==
  /\ occupied' \in Len(queue) .. occupied
  /\ UNCHANGED <<queue, verdict, taken>>

Accept(e) ==
  /\ occupied < Limit
  /\ queue' = Append(queue, e)
  /\ occupied' = occupied + 1
  /\ verdict' = TRUE
  /\ UNCHANGED taken

Refuse ==
  /\ occupied = Limit
  /\ verdict' = FALSE
  /\ UNCHANGED <<queue, occupied, taken>>

Take ==
  /\ queue # <<>>
  /\ taken' = Head(queue)
  /\ queue' = Tail(queue)
  /\ UNCHANGED <<occupied, verdict>>

FifoNext == Learn \/ (\E e \in Events : Accept(e)) \/ Refuse \/ Take

FifoSpec == FifoInit /\ [][FifoNext]_fifoVars
=============================================================================
