--------------------------- MODULE GuiParamQueue ---------------------------
(***************************************************************************)
(* Plugin::GuiParamQueue: the lock-free ring that carries GUI gestures and *)
(* values from the UI thread (push) to whichever thread drains it (pop, in *)
(* process() or params.flush()).                                           *)
(*                                                                         *)
(* Each atomic load or store and each copy of a slot is one action, so TLC *)
(* interleaves the two threads as the machine may.  The slots themselves   *)
(* are plain memory: two unordered accesses to one of them would be a data *)
(* race (RaceFree).  The loads of the other thread's index are acquire     *)
(* loads and may return a value that is out of date: each may return any   *)
(* value between the one this thread saw last and the current one, which   *)
(* is all the C++ memory model promises (read-read coherence).             *)
(***************************************************************************)
EXTENDS Naturals, Sequences

CONSTANTS Capacity,  \* the number of slots (256 in the code)
          Events,    \* the GUI parameter events
          Blank      \* a default-constructed GuiParamEvent

ASSUME CapacityAssumption == Capacity \in Nat /\ Capacity >= 2

VARIABLES events,    \* the slots
          head,      \* index of the next slot to write; stored by the producer
          tail,      \* index of the next slot to read; stored by the consumer
          ppc,       \* where the producer is in push()
          item,      \* push()'s argument
          tailSeen,  \* the value of tail_ the producer loaded last
          pushed,    \* what the last push() returned
          cpc,       \* where the consumer is in pop()
          headSeen,  \* the value of head_ the consumer loaded last
          taking,    \* the copy of the slot that pop() is making
          popped     \* the event the last successful pop() returned

producerVars == <<ppc, item, tailSeen, pushed>>
consumerVars == <<cpc, headSeen, taking, popped>>
vars == <<events, head, tail, ppc, item, tailSeen, pushed,
          cpc, headSeen, taking, popped>>

Index == 0 .. Capacity - 1

Init ==
  /\ events = [i \in Index |-> Blank]
  /\ head = 0
  /\ tail = 0
  /\ ppc = "idle" /\ item = Blank /\ tailSeen = 0 /\ pushed = TRUE
  /\ cpc = "idle" /\ headSeen = 0 /\ taking = Blank /\ popped = Blank

\* Faulty variant: the index is stepped without wrapping round.
StepWithoutWrap(i) == i + 1

\* The index after i: (i + 1) % capacity.
Step(i) == (i + 1) % Capacity

\* How many slots lie from index a up to, not including, index b.
Span(a, b) == IF b >= a THEN b - a ELSE b + Capacity - a

\* What a load may return when the loading thread last saw `seen` and the
\* variable holds `now`: any value it held from then on.
Visible(seen, now) == {i \in Index : Span(seen, i) <= Span(seen, now)}
-----------------------------------------------------------------------------
(* The producer: push(event). *)

PushCall(e) ==
  /\ ppc = "idle"
  /\ ppc' = "check"
  /\ item' = e
  /\ UNCHANGED <<events, head, tail, tailSeen, pushed, consumerVars>>

\* Faulty variant: push() writes without asking whether the ring is full.
PushCheckNoFullTest ==
  /\ ppc = "check"
  /\ tailSeen' \in Visible(tailSeen, tail)
  /\ ppc' = "store"
  /\ UNCHANGED <<events, head, tail, item, pushed, consumerVars>>

\* Load tail_ and compare: one slot is always left free.
PushCheck ==
  /\ ppc = "check"
  /\ tailSeen' \in Visible(tailSeen, tail)
  /\ \/ /\ Step(head) = tailSeen'
        /\ pushed' = FALSE
        /\ ppc' = "idle"
     \/ /\ Step(head) # tailSeen'
        /\ ppc' = "store"
        /\ UNCHANGED pushed
  /\ UNCHANGED <<events, head, tail, item, consumerVars>>

\* events_[head] = event.
PushStore ==
  /\ ppc = "store"
  /\ events' = [events EXCEPT ![head] = item]
  /\ ppc' = "publish"
  /\ UNCHANGED <<head, tail, item, tailSeen, pushed, consumerVars>>

\* head_.store(next, release).
PushPublish ==
  /\ ppc = "publish"
  /\ head' = Step(head)
  /\ pushed' = TRUE
  /\ ppc' = "idle"
  /\ UNCHANGED <<events, tail, item, tailSeen, consumerVars>>
-----------------------------------------------------------------------------
(* The consumer: pop(event). *)

PopCall ==
  /\ cpc = "idle"
  /\ cpc' = "check"
  /\ UNCHANGED <<events, head, tail, headSeen, taking, popped, producerVars>>

\* Faulty variant: emptiness is tested one slot too early, so the newest event
\* waits for the next one.
PopCheckOneEarly ==
  /\ cpc = "check"
  /\ headSeen' \in Visible(headSeen, head)
  /\ cpc' = IF headSeen' \in {tail, Step(tail)} THEN "idle" ELSE "copy"
  /\ UNCHANGED <<events, head, tail, taking, popped, producerVars>>

\* Faulty variant: the index is compared with one slot further on, so pop()
\* takes a slot that was never published.
PopCheckUnpublished ==
  /\ cpc = "check"
  /\ headSeen' \in Visible(headSeen, head)
  /\ cpc' = IF Step(headSeen') = tail THEN "idle" ELSE "copy"
  /\ UNCHANGED <<events, head, tail, taking, popped, producerVars>>

\* Load head_ and compare: nothing to take when it equals tail_.
PopCheck ==
  /\ cpc = "check"
  /\ headSeen' \in Visible(headSeen, head)
  /\ cpc' = IF headSeen' = tail THEN "idle" ELSE "copy"
  /\ UNCHANGED <<events, head, tail, taking, popped, producerVars>>

\* event = events_[tail].
PopCopy ==
  /\ cpc = "copy"
  /\ taking' = events[tail]
  /\ cpc' = "advance"
  /\ UNCHANGED <<events, head, tail, headSeen, popped, producerVars>>

\* tail_.store(tail + 1, release): from here the producer may reuse the slot.
PopAdvance ==
  /\ cpc = "advance"
  /\ tail' = Step(tail)
  /\ popped' = taking
  /\ cpc' = "idle"
  /\ UNCHANGED <<events, head, headSeen, taking, producerVars>>
-----------------------------------------------------------------------------
Producer == (\E e \in Events : PushCall(e)) \/ PushCheck \/ PushStore \/ PushPublish
Consumer == PopCall \/ PopCheck \/ PopCopy \/ PopAdvance

Next == Producer \/ Consumer

Spec == Init /\ [][Next]_vars

(* The consumer is called again and again (every audio block, or a flush    *)
(* after each request), a call that has begun goes on, and a store becomes  *)
(* visible to the other thread's loads after a finite time.                 *)
PopCheckFresh == PopCheck /\ headSeen' = head
Fairness ==
  /\ WF_vars(Consumer)
  /\ SF_vars(PopCheckFresh)

FairSpec == Spec /\ Fairness
-----------------------------------------------------------------------------
(* Properties. *)

TypeOK ==
  /\ events \in [Index -> Events \cup {Blank}]
  /\ head \in Index /\ tail \in Index
  /\ ppc \in {"idle", "check", "store", "publish"}
  /\ item \in Events \cup {Blank}
  /\ tailSeen \in Index
  /\ pushed \in BOOLEAN
  /\ cpc \in {"idle", "check", "copy", "advance"}
  /\ headSeen \in Index
  /\ taking \in Events \cup {Blank}
  /\ popped \in Events \cup {Blank}

(* Read round the ring, the four indices keep the order tailSeen, tail,     *)
(* headSeen, head: what either thread last saw of the other is behind it    *)
(* and never a full turn behind.                                            *)
IndexOrder ==
  /\ Span(tailSeen, tail) + Span(tail, head) = Span(tailSeen, head)
  /\ Span(tail, headSeen) + Span(headSeen, head) = Span(tail, head)

(* A push past its check has a free slot, and keeps it until it publishes.  *)
ProducerHasRoom ==
  ppc \in {"store", "publish"} => Span(tailSeen, head) < Capacity - 1

(* A push under way pushes an event, never a blank.                         *)
PushingEvent == ppc # "idle" => item \in Events

(* A slot about to be published holds the event of the push publishing it.  *)
ProducerWrote == ppc = "publish" => events[head] = item

(* A pop past its check has a published event, and keeps it until it        *)
(* advances.                                                                *)
ConsumerHasEvent == cpc \in {"copy", "advance"} => Span(tail, headSeen) > 0

(* The slot a pop has copied has not changed since.                         *)
ConsumerCopied == cpc = "advance" => taking = events[tail]

(* The inductive invariant of the queue: the order of the indices, and what *)
(* each thread holds between the steps of a call.                           *)
QueueInv ==
  /\ TypeOK
  /\ IndexOrder
  /\ PushingEvent
  /\ ProducerHasRoom
  /\ ProducerWrote
  /\ ConsumerHasEvent
  /\ ConsumerCopied

(* The write of a slot in push() and the copy of a slot in pop(), both      *)
(* plain memory accesses, are never about to touch the same slot: the       *)
(* acquire/release pairs on head_ and tail_ order them.                     *)
RaceFree == ~(ppc = "store" /\ cpc = "copy" /\ head = tail)

(* The slot i - 1 places after index a, round the ring.                     *)
Nth(a, i) == IF a + i - 1 < Capacity THEN a + i - 1 ELSE a + i - 1 - Capacity

(* The events a reader of the ring would find from tail up to head.         *)
Contents == [i \in 1 .. Span(tail, head) |-> events[Nth(tail, i)]]

Fifo == INSTANCE BoundedFifo
          WITH Limit <- Capacity - 1,
               queue <- Contents,
               occupied <- Span(tailSeen, head),
               verdict <- pushed,
               taken <- popped

(* Push and pop implement a bounded first-in first-out queue of             *)
(* Capacity - 1 events: nothing is lost, repeated, reordered or torn, and   *)
(* push refuses only when the queue is full as far as it can know.          *)
FifoRefinement == Fifo!FifoSpec

(* An event that is in the ring does not stay there for ever: as long as    *)
(* the consumer keeps polling, the slot at tail is taken.                   *)
NoEventStranded == \A i \in Index : (tail = i /\ head # i) ~> (tail # i)
=============================================================================
