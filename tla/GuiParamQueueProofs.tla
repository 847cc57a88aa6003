------------------------ MODULE GuiParamQueueProofs ------------------------
(***************************************************************************)
(* Proofs about GuiParamQueue, for every capacity of two slots or more and *)
(* every set of events: the inductive invariant, freedom from data races   *)
(* on the slots, and refinement of the bounded FIFO.                       *)
(***************************************************************************)
EXTENDS GuiParamQueue, SequenceTheorems, TLAPS

USE CapacityAssumption

-----------------------------------------------------------------------------
(* Arithmetic on the ring. *)

LEMMA StepWraps ==
  ASSUME NEW i \in Index
  PROVE  /\ Step(i) \in Index
         /\ Step(i) = IF i = Capacity - 1 THEN 0 ELSE i + 1
<1>1. CASE i = Capacity - 1
  BY <1>1 DEF Step, Index
<1>2. CASE i # Capacity - 1
  BY <1>2 DEF Step, Index
<1> QED BY <1>1, <1>2

LEMMA SpanBounds ==
  ASSUME NEW a \in Index, NEW b \in Index
  PROVE  /\ Span(a, b) \in 0 .. Capacity - 1
         /\ Span(a, b) = 0 <=> a = b
BY DEF Span, Index

(* Storing the next index lengthens the span up to it by one. *)
LEMMA SpanToStep ==
  ASSUME NEW a \in Index, NEW b \in Index, Span(a, b) < Capacity - 1
  PROVE  Span(a, Step(b)) = Span(a, b) + 1
BY StepWraps DEF Span, Index

(* ... and shortens the span from it by one. *)
LEMMA SpanFromStep ==
  ASSUME NEW a \in Index, NEW b \in Index, Span(a, b) > 0
  PROVE  Span(Step(a), b) = Span(a, b) - 1
BY StepWraps DEF Span, Index

(* The ring is full for an observer of a exactly when stepping b reaches a. *)
LEMMA FullIsNextToTail ==
  ASSUME NEW a \in Index, NEW b \in Index
  PROVE  Step(b) = a <=> Span(a, b) = Capacity - 1
BY StepWraps DEF Span, Index

(* An index loaded from between a and b splits the span from a to c, for    *)
(* any c that b does not overshoot.                                         *)
LEMMA VisibleBetween ==
  ASSUME NEW a \in Index, NEW b \in Index, NEW c \in Index,
         Span(a, b) + Span(b, c) = Span(a, c), NEW i \in Visible(a, b)
  PROVE  /\ i \in Index
         /\ Span(i, b) + Span(b, c) = Span(i, c)
         /\ Span(b, c) <= Span(i, c) /\ Span(i, c) <= Span(a, c)
BY DEF Visible, Span, Index

LEMMA VisibleSplits ==
  ASSUME NEW a \in Index, NEW b \in Index, NEW c \in Index,
         Span(a, b) + Span(b, c) = Span(a, c), NEW i \in Visible(b, c)
  PROVE  /\ i \in Index
         /\ Span(a, i) + Span(i, c) = Span(a, c)
         /\ Span(a, b) <= Span(a, i)
BY DEF Visible, Span, Index
-----------------------------------------------------------------------------
(* The invariant. *)

LEMMA InitInv == Init => QueueInv
<1> SUFFICES ASSUME Init PROVE QueueInv
  OBVIOUS
<1>1. TypeOK
  BY DEF Init, TypeOK, Index
<1>2. Span(0, 0) = 0
  BY DEF Span
<1> QED
  BY <1>1, <1>2 DEF Init, QueueInv, IndexOrder, PushingEvent, ProducerHasRoom, ProducerWrote,
     ConsumerHasEvent, ConsumerCopied

(* One step of either thread keeps the invariant.                           *)
LEMMA NextInv == QueueInv /\ [Next]_vars => QueueInv'
<1> SUFFICES ASSUME QueueInv, [Next]_vars PROVE QueueInv'
  OBVIOUS
<1> USE DEF QueueInv
<1>1. ASSUME NEW e \in Events, PushCall(e) PROVE QueueInv'
  BY <1>1 DEF PushCall, consumerVars, TypeOK, IndexOrder, PushingEvent, ProducerHasRoom,
     ProducerWrote, ConsumerHasEvent, ConsumerCopied
<1>2. CASE PushCheck
  <2>1. tail \in Index /\ head \in Index /\ tailSeen \in Index
    BY DEF TypeOK
  <2>2. tailSeen' \in Visible(tailSeen, tail)
    BY <1>2 DEF PushCheck
  <2>3. /\ tailSeen' \in Index
        /\ Span(tailSeen', tail) + Span(tail, head) = Span(tailSeen', head)
    BY <2>1, <2>2, VisibleBetween DEF IndexOrder
  <2>4. ppc' = "store" => Step(head) # tailSeen'
    BY <1>2 DEF PushCheck
  <2>5. ppc' = "store" => Span(tailSeen', head) < Capacity - 1
    BY <2>1, <2>3, <2>4, FullIsNextToTail, SpanBounds
  <2>6. TypeOK'
    BY <1>2, <2>3 DEF PushCheck, consumerVars, TypeOK
  <2> QED
    BY <1>2, <2>3, <2>5, <2>6 DEF PushCheck, consumerVars, IndexOrder,
       PushingEvent, ProducerHasRoom, ProducerWrote, ConsumerHasEvent, ConsumerCopied
<1>3. CASE PushStore
  <2>1. TypeOK'
    BY <1>3 DEF PushStore, consumerVars, TypeOK
  <2>2. ProducerWrote'
    BY <1>3 DEF PushStore, TypeOK, ProducerWrote
  \* The slot written is not the one the consumer has copied.
  <2>3. cpc = "advance" => head # tail
    BY SpanBounds DEF TypeOK, ConsumerHasEvent, IndexOrder
  <2>4. ConsumerCopied'
    BY <1>3, <2>3 DEF PushStore, consumerVars, TypeOK, ConsumerCopied
  <2> QED
    BY <1>3, <2>1, <2>2, <2>4 DEF PushStore, consumerVars, IndexOrder,
       PushingEvent, ProducerHasRoom, ConsumerHasEvent
<1>4. CASE PushPublish
  <2>1. /\ tail \in Index /\ head \in Index
        /\ tailSeen \in Index /\ headSeen \in Index
    BY DEF TypeOK
  <2>2. Span(tailSeen, head) < Capacity - 1
    BY <1>4 DEF PushPublish, ProducerHasRoom
  <2>3. Span(tail, head) < Capacity - 1 /\ Span(headSeen, head) < Capacity - 1
    BY <2>1, <2>2, SpanBounds DEF IndexOrder
  <2>4. /\ Span(tailSeen, Step(head)) = Span(tailSeen, head) + 1
        /\ Span(tail, Step(head)) = Span(tail, head) + 1
        /\ Span(headSeen, Step(head)) = Span(headSeen, head) + 1
    BY <2>1, <2>2, <2>3, SpanToStep
  <2>5. Step(head) \in Index
    BY <2>1, StepWraps
  <2>6. TypeOK'
    BY <1>4, <2>5 DEF PushPublish, consumerVars, TypeOK
  <2>7. IndexOrder'
    BY <1>4, <2>1, <2>4, SpanBounds DEF PushPublish, consumerVars, IndexOrder
  <2> QED
    BY <1>4, <2>6, <2>7 DEF PushPublish, consumerVars,
       PushingEvent, ProducerHasRoom, ProducerWrote, ConsumerHasEvent, ConsumerCopied
<1>5. CASE PopCall
  BY <1>5 DEF PopCall, producerVars, TypeOK, IndexOrder, PushingEvent, ProducerHasRoom,
     ProducerWrote, ConsumerHasEvent, ConsumerCopied
<1>6. CASE PopCheck
  <2>1. tail \in Index /\ head \in Index /\ headSeen \in Index
    BY DEF TypeOK
  <2>2. headSeen' \in Visible(headSeen, head)
    BY <1>6 DEF PopCheck
  <2>3. /\ headSeen' \in Index
        /\ Span(tail, headSeen') + Span(headSeen', head) = Span(tail, head)
    BY <2>1, <2>2, VisibleSplits DEF IndexOrder
  <2>4. cpc' = "copy" => headSeen' # tail
    BY <1>6 DEF PopCheck
  <2>5. cpc' = "copy" => Span(tail, headSeen') > 0
    BY <2>1, <2>3, <2>4, SpanBounds
  <2>6. TypeOK'
    BY <1>6, <2>3 DEF PopCheck, producerVars, TypeOK
  <2> QED
    BY <1>6, <2>3, <2>5, <2>6 DEF PopCheck, producerVars, IndexOrder,
       PushingEvent, ProducerHasRoom, ProducerWrote, ConsumerHasEvent, ConsumerCopied
<1>7. CASE PopCopy
  BY <1>7 DEF PopCopy, producerVars, TypeOK, IndexOrder, PushingEvent, ProducerHasRoom,
     ProducerWrote, ConsumerHasEvent, ConsumerCopied
<1>8. CASE PopAdvance
  <2>1. /\ tail \in Index /\ head \in Index
        /\ tailSeen \in Index /\ headSeen \in Index
    BY DEF TypeOK
  <2>2. Span(tail, headSeen) > 0 /\ Span(tail, head) > 0
    BY <1>8, <2>1, SpanBounds DEF PopAdvance, ConsumerHasEvent, IndexOrder
  <2>3. Span(tailSeen, tail) < Capacity - 1
    BY <2>1, <2>2, SpanBounds DEF IndexOrder
  <2>4. /\ Span(tailSeen, Step(tail)) = Span(tailSeen, tail) + 1
        /\ Span(Step(tail), head) = Span(tail, head) - 1
        /\ Span(Step(tail), headSeen) = Span(tail, headSeen) - 1
    BY <2>1, <2>2, <2>3, SpanToStep, SpanFromStep
  <2>5. Step(tail) \in Index
    BY <2>1, StepWraps
  <2>6. TypeOK'
    BY <1>8, <2>5 DEF PopAdvance, producerVars, TypeOK
  <2>7. IndexOrder'
    BY <1>8, <2>1, <2>4, SpanBounds DEF PopAdvance, producerVars, IndexOrder
  <2> QED
    BY <1>8, <2>6, <2>7 DEF PopAdvance, producerVars,
       PushingEvent, ProducerHasRoom, ProducerWrote, ConsumerHasEvent, ConsumerCopied
<1>9. CASE UNCHANGED vars
  BY <1>9 DEF vars, TypeOK, IndexOrder, PushingEvent, ProducerHasRoom,
     ProducerWrote, ConsumerHasEvent, ConsumerCopied
<1> QED
  BY <1>1, <1>2, <1>3, <1>4, <1>5, <1>6, <1>7, <1>8, <1>9
     DEF Next, Producer, Consumer

(* In every reachable state the indices are in order round the ring and     *)
(* each thread's hold on its slot is exclusive.                             *)
THEOREM QueueInvariant == Spec => []QueueInv
BY InitInv, NextInv, PTL DEF Spec

(* push() and pop() never touch the same slot at the same time.             *)
THEOREM NoDataRace == Spec => []RaceFree
<1>1. QueueInv => RaceFree
  BY SpanBounds DEF QueueInv, TypeOK, IndexOrder, ConsumerHasEvent, RaceFree
<1> QED
  BY <1>1, QueueInvariant, PTL
-----------------------------------------------------------------------------
(* Refinement of the bounded FIFO. *)

LEMMA SeqAsFunction ==
  ASSUME NEW S, NEW s \in Seq(S)
  PROVE  s = [i \in 1 .. Len(s) |-> s[i]]
<1>1. s \in [1 .. Len(s) -> S]
  BY LenProperties
<1> QED
  BY <1>1

LEMMA NthIsIndex ==
  ASSUME NEW a \in Index, NEW b \in Index, NEW i \in 1 .. Span(a, b)
  PROVE  Nth(a, i) \in Index /\ Nth(a, i) # b
BY DEF Nth, Span, Index

LEMMA NthFirst == ASSUME NEW a \in Index PROVE Nth(a, 1) = a
BY DEF Nth, Index

LEMMA NthLast ==
  ASSUME NEW a \in Index, NEW b \in Index PROVE Nth(a, Span(a, b) + 1) = b
BY DEF Nth, Span, Index

LEMMA NthFromStep ==
  ASSUME NEW a \in Index, NEW i \in 1 .. Capacity - 1
  PROVE  Nth(Step(a), i) = Nth(a, i + 1)
BY StepWraps DEF Nth, Index

LEMMA ContentsAreEvents ==
  ASSUME TypeOK
  PROVE  /\ Contents \in Seq(Events \cup {Blank})
         /\ Len(Contents) = Span(tail, head)
<1>1. head \in Index /\ tail \in Index /\ events \in [Index -> Events \cup {Blank}]
  BY DEF TypeOK
<1>2. Span(tail, head) \in Nat
  BY <1>1, SpanBounds
<1>3. \A i \in 1 .. Span(tail, head) : events[Nth(tail, i)] \in Events \cup {Blank}
  BY <1>1, NthIsIndex
<1> QED
  BY <1>2, <1>3 DEF Contents

(* Writing the free slot at head changes nothing a reader can see.          *)
LEMMA StoreIsInvisible ==
  ASSUME QueueInv, PushStore PROVE Contents' = Contents
<1>1. head \in Index /\ tail \in Index
  BY DEF QueueInv, TypeOK
<1>2. \A i \in 1 .. Span(tail, head) : events'[Nth(tail, i)] = events[Nth(tail, i)]
  BY <1>1, NthIsIndex DEF PushStore, QueueInv, TypeOK
<1> QED
  BY <1>2 DEF Contents, PushStore

(* Storing head_ is the moment the event enters the queue.                  *)
LEMMA PublishAppends ==
  ASSUME QueueInv, PushPublish PROVE Contents' = Append(Contents, item)
<1>1. /\ head \in Index /\ tail \in Index /\ tailSeen \in Index
      /\ events \in [Index -> Events \cup {Blank}]
  BY DEF QueueInv, TypeOK
<1>2. Span(tail, head) < Capacity - 1
  BY <1>1, SpanBounds DEF QueueInv, IndexOrder, ProducerHasRoom, PushPublish
<1>3. Span(tail, head') = Span(tail, head) + 1
  BY <1>1, <1>2, SpanToStep DEF PushPublish
<1>4. events[head] = item
  BY DEF QueueInv, ProducerWrote, PushPublish
<1>5. Span(tail, head) \in Nat
  BY <1>1, SpanBounds
<1>6. events[Nth(tail, Span(tail, head) + 1)] = item
  BY <1>1, <1>4, NthLast
<1>7. /\ Contents \in Seq(Events \cup {Blank})
      /\ Len(Contents) = Span(tail, head)
  BY ContentsAreEvents DEF QueueInv
<1>8. Contents' = [i \in 1 .. Span(tail, head) + 1 |-> events[Nth(tail, i)]]
  BY <1>3 DEF Contents, PushPublish
<1>9. \A i \in 1 .. Span(tail, head) : Contents[i] = events[Nth(tail, i)]
  BY DEF Contents
<1> DEFINE longer == Append(Contents, item)
<1>10. /\ longer \in Seq(Events \cup {Blank})
       /\ Len(longer) = Span(tail, head) + 1
       /\ \A i \in 1 .. Span(tail, head) : longer[i] = Contents[i]
       /\ longer[Span(tail, head) + 1] = item
  BY <1>5, <1>7, AppendProperties DEF QueueInv, TypeOK
<1> HIDE DEF longer
<1>11. longer = [i \in 1 .. Span(tail, head) + 1 |-> longer[i]]
  BY <1>10, SeqAsFunction
<1>12. \A i \in 1 .. Span(tail, head) + 1 : longer[i] = events[Nth(tail, i)]
  BY <1>5, <1>6, <1>9, <1>10
<1>13. [i \in 1 .. Span(tail, head) + 1 |-> longer[i]]
         = [i \in 1 .. Span(tail, head) + 1 |-> events[Nth(tail, i)]]
  BY <1>12
<1> QED
  BY <1>8, <1>11, <1>13 DEF longer

(* Storing tail_ is the moment the oldest event leaves it.                  *)
LEMMA AdvanceTakes ==
  ASSUME QueueInv, PopAdvance
  PROVE  Contents # <<>> /\ popped' = Head(Contents) /\ Contents' = Tail(Contents)
<1>1. /\ head \in Index /\ tail \in Index /\ headSeen \in Index
      /\ events \in [Index -> Events \cup {Blank}]
  BY DEF QueueInv, TypeOK
<1>2. Span(tail, head) > 0 /\ Span(tail, head) \in 1 .. Capacity - 1
  BY <1>1, SpanBounds DEF QueueInv, IndexOrder, ConsumerHasEvent, PopAdvance
<1>3. Span(tail', head) = Span(tail, head) - 1
  BY <1>1, <1>2, SpanFromStep DEF PopAdvance
<1>4. popped' = events[tail]
  BY DEF QueueInv, ConsumerCopied, PopAdvance
<1>5. /\ Contents \in Seq(Events \cup {Blank})
      /\ Len(Contents) = Span(tail, head)
  BY ContentsAreEvents DEF QueueInv
<1>6. Contents[1] = events[tail]
  BY <1>1, <1>2, NthFirst DEF Contents
<1>7. Contents' = [i \in 1 .. Span(tail, head) - 1 |-> events[Nth(tail, i + 1)]]
  <2>1. \A i \in 1 .. Span(tail, head) - 1 : Nth(tail', i) = Nth(tail, i + 1)
    BY <1>1, <1>2, NthFromStep DEF PopAdvance
  <2> QED
    BY <1>3, <2>1 DEF Contents, PopAdvance
<1>8. \A i \in 1 .. Span(tail, head) - 1 : Contents[i + 1] = events[Nth(tail, i + 1)]
  BY <1>2 DEF Contents
<1>9. Contents # <<>>
  BY <1>2, <1>5, EmptySeq
<1> DEFINE rest == Tail(Contents)
<1>10. /\ Head(Contents) = Contents[1]
       /\ rest \in Seq(Events \cup {Blank})
       /\ Len(rest) = Span(tail, head) - 1
       /\ \A i \in 1 .. Span(tail, head) - 1 : rest[i] = Contents[i + 1]
  BY <1>2, <1>5, <1>9, HeadTailProperties
<1> HIDE DEF rest
<1>11. rest = [i \in 1 .. Span(tail, head) - 1 |-> rest[i]]
  BY <1>10, SeqAsFunction
<1>12. [i \in 1 .. Span(tail, head) - 1 |-> rest[i]]
         = [i \in 1 .. Span(tail, head) - 1 |-> events[Nth(tail, i + 1)]]
  BY <1>8, <1>10
<1> QED
  BY <1>4, <1>6, <1>7, <1>9, <1>10, <1>11, <1>12 DEF rest

LEMMA InitRefines == Init => Fifo!FifoInit
BY DEF Init, Fifo!FifoInit, Contents, Span

LEMMA NextRefines ==
  QueueInv /\ [Next]_vars => [Fifo!FifoNext]_(Fifo!fifoVars)
<1> SUFFICES ASSUME QueueInv, [Next]_vars
             PROVE  [Fifo!FifoNext]_(Fifo!fifoVars)
  OBVIOUS
<1> USE DEF Fifo!fifoVars
<1>1. ASSUME NEW e \in Events, PushCall(e) PROVE UNCHANGED Fifo!fifoVars
  BY <1>1 DEF PushCall, consumerVars, Contents
<1>2. ASSUME PushCheck PROVE Fifo!Learn \/ Fifo!Refuse
  <2>1. tail \in Index /\ head \in Index /\ tailSeen \in Index
    BY DEF QueueInv, TypeOK
  <2>2. tailSeen' \in Visible(tailSeen, tail)
    BY <1>2 DEF PushCheck
  <2>3. /\ tailSeen' \in Index
        /\ Span(tail, head) <= Span(tailSeen', head)
        /\ Span(tailSeen', head) <= Span(tailSeen, head)
    BY <2>1, <2>2, VisibleBetween DEF QueueInv, IndexOrder
  <2>4. UNCHANGED <<Contents, popped>> /\ head' = head
    BY <1>2 DEF PushCheck, consumerVars, Contents
  <2>5. CASE Step(head) = tailSeen' /\ pushed' = FALSE
    <3>1. Span(tailSeen', head) = Capacity - 1 /\ Span(tailSeen, head) = Capacity - 1
      BY <2>1, <2>3, <2>5, FullIsNextToTail, SpanBounds
    <3> QED
      BY <2>4, <2>5, <3>1 DEF Fifo!Refuse
  <2>6. CASE UNCHANGED pushed
    <3>1. Len(Contents) = Span(tail, head)
      BY ContentsAreEvents DEF QueueInv
    <3>2. Span(tailSeen', head) \in Len(Contents) .. Span(tailSeen, head)
      BY <2>1, <2>3, <3>1, SpanBounds
    <3> QED
      BY <2>4, <2>6, <3>2 DEF Fifo!Learn
  <2> QED
    BY <1>2, <2>5, <2>6 DEF PushCheck
<1>3. ASSUME PushStore PROVE UNCHANGED Fifo!fifoVars
  BY <1>3, StoreIsInvisible DEF PushStore, consumerVars
<1>4. ASSUME PushPublish PROVE Fifo!Accept(item) /\ item \in Events
  <2>1. head \in Index /\ tailSeen \in Index /\ item \in Events
    BY <1>4 DEF QueueInv, TypeOK, PushingEvent, PushPublish
  <2>2. Span(tailSeen, head) < Capacity - 1
    BY <1>4 DEF QueueInv, ProducerHasRoom, PushPublish
  <2>3. Span(tailSeen', head') = Span(tailSeen, head) + 1
    BY <1>4, <2>1, <2>2, SpanToStep DEF PushPublish
  <2> QED
    BY <1>4, <2>1, <2>2, <2>3, PublishAppends
       DEF Fifo!Accept, PushPublish, consumerVars
<1>5. ASSUME PopCall PROVE UNCHANGED Fifo!fifoVars
  BY <1>5 DEF PopCall, producerVars, Contents
<1>6. ASSUME PopCheck PROVE UNCHANGED Fifo!fifoVars
  BY <1>6 DEF PopCheck, producerVars, Contents
<1>7. ASSUME PopCopy PROVE UNCHANGED Fifo!fifoVars
  BY <1>7 DEF PopCopy, producerVars, Contents
<1>8. ASSUME PopAdvance PROVE Fifo!Take
  BY <1>8, AdvanceTakes DEF Fifo!Take, PopAdvance, producerVars
<1>9. ASSUME UNCHANGED vars PROVE UNCHANGED Fifo!fifoVars
  BY <1>9 DEF vars, Contents
<1> QED
  BY <1>1, <1>2, <1>3, <1>4, <1>5, <1>6, <1>7, <1>8, <1>9
     DEF Next, Producer, Consumer, Fifo!FifoNext

(* The lock-free ring implements a bounded FIFO of Capacity - 1 events: no  *)
(* event is lost, repeated, reordered or torn, and a refused push means a   *)
(* queue that is full as far as the producer can know.                      *)
THEOREM QueueIsFifo == Spec => FifoRefinement
BY InitRefines, NextRefines, QueueInvariant, PTL
   DEF Spec, FifoRefinement, Fifo!FifoSpec
=============================================================================
