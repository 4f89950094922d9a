-------------------------- MODULE InterruptsProofs --------------------------
(***************************************************************************)
(* Proofs about Interrupts, HandlerCalls and Keyboard: for every capacity, *)
(* the ring buffer of interrupt.c is a bounded queue, and every handler    *)
(* that stays registered is called; no key is lost on its way from the     *)
(* controller to the shell, and the shell is given the keys in order.      *)
(***************************************************************************)
EXTENDS HandlerCalls, Keyboard, SequenceTheorems, FiniteSetTheorems, WellFoundedInduction, TLAPS

\* Remainders of the indices of the ring, which stay below twice its size.
LEMMA RemainderLow ==
  ASSUME NEW c \in Nat \ {0}, NEW a \in 0..(c - 1)
  PROVE  a % c = a
  BY SMT

LEMMA RemainderHigh ==
  ASSUME NEW c \in Nat \ {0}, NEW a \in c..(2 * c - 1)
  PROVE  a % c = a - c
<1> DEFINE q == a \div c
           r == a % c
<1>1. q \in Int /\ r \in 0..(c - 1) /\ a = c * q + r
  BY SMT
<1> HIDE DEF q, r
<1>2. q >= 1
  <2>1. ASSUME q <= 0 PROVE c * q <= 0
    BY <2>1, <1>1, SMT
  <2> QED BY <2>1, <1>1, SMT
<1>3. q <= 1
  <2>1. ASSUME q >= 2 PROVE c * q >= 2 * c
    BY <2>1, <1>1, SMT
  <2> QED BY <2>1, <1>1, SMT
<1>4. q = 1
  BY <1>1, <1>2, <1>3
<1> QED BY <1>1, <1>4 DEF r

\* An index behind the end of the ring goes on at its beginning.
LEMMA Wraps ==
  ASSUME NEW a \in 0..(FIFO_CAPACITY + FIFO_CAPACITY - 1)
  PROVE  Wrap(a) = IF a < FIFO_CAPACITY THEN a ELSE a - FIFO_CAPACITY
<1>1. FIFO_CAPACITY \in Nat \ {0}
  BY InterruptAssumption
<1>2. CASE a < FIFO_CAPACITY
  BY <1>1, <1>2, RemainderLow DEF Wrap
<1>3. CASE a >= FIFO_CAPACITY
  <2>1. a \in FIFO_CAPACITY..(2 * FIFO_CAPACITY - 1)
    BY <1>1, <1>3
  <2> QED BY <1>1, <1>3, <2>1, RemainderHigh DEF Wrap
<1> QED BY <1>1, <1>2, <1>3

-----------------------------------------------------------------------------
(* The ring.                                                               *)

Rings == [buf : [Slots -> Events], head : Slots, tail : Slots,
          count : 0..FIFO_CAPACITY]

RingOK(f) == f \in Rings /\ f.tail = Wrap(f.head + f.count)

\* What Contents is made of.
LEMMA ContentsSeq ==
  ASSUME NEW f, RingOK(f)
  PROVE  /\ Contents(f) \in Seq(Events)
         /\ Len(Contents(f)) = f.count
         /\ DOMAIN Contents(f) = 1..f.count
<1>1. /\ FIFO_CAPACITY \in Nat \ {0}
      /\ f.buf \in [Slots -> Events] /\ f.head \in 0..(FIFO_CAPACITY - 1)
      /\ f.count \in 0..FIFO_CAPACITY
  BY InterruptAssumption DEF RingOK, Rings, Slots
<1>2. ASSUME NEW k \in 1..f.count PROVE f.buf[Wrap(f.head + k - 1)] \in Events
  <2>1. f.head + k - 1 \in 0..(FIFO_CAPACITY + FIFO_CAPACITY - 1)
    BY <1>1
  <2>2. Wrap(f.head + k - 1) \in Slots
    BY <1>1, <2>1, Wraps DEF Slots
  <2> QED BY <1>1, <2>2
<1> QED BY <1>1, <1>2 DEF Contents

\* fifo_push keeps the ring well formed and appends, or drops when full.
LEMMA PushAppends ==
  ASSUME NEW f, RingOK(f), NEW e \in Events
  PROVE  /\ RingOK(fifo_push(f, e))
         /\ Contents(fifo_push(f, e)) =
              IF Len(Contents(f)) < FIFO_CAPACITY
              THEN Append(Contents(f), e) ELSE Contents(f)
<1> DEFINE g == fifo_push(f, e)
<1>1. /\ FIFO_CAPACITY \in Nat \ {0}
      /\ f.buf \in [Slots -> Events] /\ f.head \in 0..(FIFO_CAPACITY - 1)
      /\ f.tail \in 0..(FIFO_CAPACITY - 1) /\ f.count \in 0..FIFO_CAPACITY
      /\ f.tail = Wrap(f.head + f.count)
  BY InterruptAssumption DEF RingOK, Rings, Slots
<1>2. Contents(f) \in Seq(Events) /\ Len(Contents(f)) = f.count
  BY ContentsSeq
<1>3. CASE f.count >= FIFO_CAPACITY
  <2>1. g = f
    BY <1>3 DEF fifo_push, fifo_is_full
  <2>2. ~(Len(Contents(f)) < FIFO_CAPACITY)
    BY <1>1, <1>2, <1>3
  <2> QED BY <2>1, <2>2
<1>4. CASE f.count < FIFO_CAPACITY
  <2>1. g = [buf |-> [f.buf EXCEPT ![f.tail] = e], head |-> f.head,
             tail |-> Wrap(f.tail + 1), count |-> f.count + 1]
    BY <1>1, <1>4 DEF fifo_push, fifo_is_full
  <2> HIDE DEF g
  <2>2. f.head + f.count \in 0..(FIFO_CAPACITY + FIFO_CAPACITY - 1)
    BY <1>1, <1>4
  <2>3. f.tail = IF f.head + f.count < FIFO_CAPACITY THEN f.head + f.count
                 ELSE f.head + f.count - FIFO_CAPACITY
    BY <2>2, <1>1, Wraps
  <2>4. f.tail + 1 \in 0..(FIFO_CAPACITY + FIFO_CAPACITY - 1)
    BY <1>1
  <2>5. Wrap(f.tail + 1) = IF f.tail + 1 < FIFO_CAPACITY THEN f.tail + 1
                           ELSE f.tail + 1 - FIFO_CAPACITY
    BY <1>1, <2>4, Wraps
  <2>6. f.head + (f.count + 1) \in 0..(FIFO_CAPACITY + FIFO_CAPACITY - 1)
    BY <1>1, <1>4
  <2>7. Wrap(f.head + (f.count + 1)) =
          IF f.head + (f.count + 1) < FIFO_CAPACITY THEN f.head + (f.count + 1)
          ELSE f.head + (f.count + 1) - FIFO_CAPACITY
    BY <1>1, <2>6, Wraps
  <2>8. Wrap(f.tail + 1) = Wrap(f.head + (f.count + 1))
    BY <1>1, <1>4, <2>3, <2>5, <2>7
  <2>9. RingOK(g)
    <3>1. Wrap(f.tail + 1) \in Slots
      BY <1>1, <2>5 DEF Slots
    <3>2. f.count + 1 \in 0..FIFO_CAPACITY /\ f.head \in Slots
      BY <1>1, <1>4 DEF Slots
    <3>3. [f.buf EXCEPT ![f.tail] = e] \in [Slots -> Events]
      BY <1>1
    <3> QED BY <2>1, <2>8, <3>1, <3>2, <3>3 DEF RingOK, Rings
  <2>10. Contents(g) \in Seq(Events) /\ Len(Contents(g)) = f.count + 1
    BY <2>1, <2>9, ContentsSeq
  <2>11. ASSUME NEW k \in 1..(f.count + 1)
         PROVE  Contents(g)[k] = Append(Contents(f), e)[k]
    <3> DEFINE at == Wrap(f.head + k - 1)
    <3>1. Contents(g)[k] = [f.buf EXCEPT ![f.tail] = e][at]
      BY <2>1 DEF Contents
    <3>2. f.head + k - 1 \in 0..(FIFO_CAPACITY + FIFO_CAPACITY - 1)
      BY <1>1, <1>4
    <3>3. at = IF f.head + k - 1 < FIFO_CAPACITY THEN f.head + k - 1
               ELSE f.head + k - 1 - FIFO_CAPACITY
      BY <1>1, <3>2, Wraps
    <3>4. at \in Slots /\ f.tail \in Slots
      BY <1>1, <3>2, <3>3 DEF Slots
    <3>5. k <= f.count => Contents(f)[k] = f.buf[at]
      BY <1>1 DEF Contents
    <3> HIDE DEF at
    <3>6. CASE k <= f.count
      <4>1. Append(Contents(f), e)[k] = Contents(f)[k]
        BY <1>1, <1>2, <3>6
      <4>2. at # f.tail
        BY <1>1, <1>4, <2>3, <3>3, <3>6
      <4> QED BY <1>1, <3>1, <3>4, <3>5, <3>6, <4>1, <4>2
    <3>7. CASE k = f.count + 1
      <4>1. Append(Contents(f), e)[k] = e
        BY <1>1, <1>2, <3>7
      <4>2. at = f.tail
        BY <1>1, <1>4, <2>3, <3>3, <3>7
      <4> QED BY <1>1, <3>1, <3>4, <4>1, <4>2
    <3>8. k <= f.count \/ k = f.count + 1
      BY <1>1
    <3> QED BY <3>6, <3>7, <3>8
  <2>12. Contents(g) = Append(Contents(f), e)
    <3>1. /\ Append(Contents(f), e) \in Seq(Events)
          /\ Len(Append(Contents(f), e)) = f.count + 1
      BY <1>1, <1>2
    <3> QED BY <2>10, <2>11, <3>1, SeqEqual
  <2> QED BY <1>1, <1>2, <1>4, <2>9, <2>12 DEF g
<1> QED BY <1>1, <1>3, <1>4

\* The event in front is the one that is taken, and the others stay.
LEMMA PopTakes ==
  ASSUME NEW f, RingOK(f), ~fifo_is_empty(f)
  PROVE  /\ RingOK(fifo_popped(f))
         /\ Contents(f) # <<>>
         /\ f.buf[f.head] = Head(Contents(f))
         /\ f.buf[f.head] \in Events
         /\ Contents(fifo_popped(f)) = Tail(Contents(f))
<1> DEFINE g == fifo_popped(f)
<1>1. /\ FIFO_CAPACITY \in Nat \ {0}
      /\ f.buf \in [Slots -> Events] /\ f.head \in 0..(FIFO_CAPACITY - 1)
      /\ f.tail \in 0..(FIFO_CAPACITY - 1) /\ f.count \in 1..FIFO_CAPACITY
      /\ f.tail = Wrap(f.head + f.count)
      /\ f.tail \in Slots /\ f.head \in Slots
  BY InterruptAssumption DEF RingOK, Rings, Slots, fifo_is_empty
<1>2. Contents(f) \in Seq(Events) /\ Len(Contents(f)) = f.count
  BY ContentsSeq
<1>3. g = [buf |-> f.buf, head |-> Wrap(f.head + 1), tail |-> f.tail,
           count |-> f.count - 1]
  BY DEF fifo_popped
<1> HIDE DEF g
<1>4. f.head + f.count \in 0..(FIFO_CAPACITY + FIFO_CAPACITY - 1)
  BY <1>1
<1>5. f.tail = IF f.head + f.count < FIFO_CAPACITY THEN f.head + f.count
               ELSE f.head + f.count - FIFO_CAPACITY
  BY <1>4, <1>1, Wraps
<1>6. f.head + 1 \in 0..(FIFO_CAPACITY + FIFO_CAPACITY - 1)
  BY <1>1
<1>7. Wrap(f.head + 1) = IF f.head + 1 < FIFO_CAPACITY THEN f.head + 1
                         ELSE f.head + 1 - FIFO_CAPACITY
  BY <1>6, <1>1, Wraps
<1>8. Wrap(f.head + 1) \in Slots
  BY <1>1, <1>7 DEF Slots
<1>9. RingOK(g)
  <2>1. Wrap(f.head + 1) + (f.count - 1)
          \in 0..(FIFO_CAPACITY + FIFO_CAPACITY - 1)
    BY <1>1, <1>7
  <2>2. Wrap(Wrap(f.head + 1) + (f.count - 1)) =
          IF Wrap(f.head + 1) + (f.count - 1) < FIFO_CAPACITY
          THEN Wrap(f.head + 1) + (f.count - 1)
          ELSE Wrap(f.head + 1) + (f.count - 1) - FIFO_CAPACITY
    BY <2>1, <1>1, <1>7, Wraps
  <2>3. f.tail = Wrap(Wrap(f.head + 1) + (f.count - 1))
    BY <2>2, <1>1, <1>5, <1>7
  <2>4. f.count - 1 \in 0..FIFO_CAPACITY
    BY <1>1
  <2> QED BY <2>3, <2>4, <1>1, <1>3, <1>8 DEF RingOK, Rings
<1>10. f.buf[f.head] = Head(Contents(f)) /\ Contents(f) # <<>>
  <2>1. f.head + 1 - 1 \in 0..(FIFO_CAPACITY + FIFO_CAPACITY - 1)
    BY <1>1
  <2>2. Wrap(f.head + 1 - 1) = f.head
    BY <2>1, <1>1, Wraps
  <2>3. Contents(f)[1] = f.buf[Wrap(f.head + 1 - 1)]
    BY <1>1 DEF Contents
  <2>4. Contents(f) # <<>> /\ Head(Contents(f)) = Contents(f)[1]
    BY <1>1, <1>2
  <2> QED BY <2>2, <2>3, <2>4
<1>11. Contents(g) \in Seq(Events) /\ Len(Contents(g)) = f.count - 1
  BY <1>3, <1>9, ContentsSeq
<1>12. /\ Tail(Contents(f)) \in Seq(Events)
       /\ Len(Tail(Contents(f))) = f.count - 1
       /\ \A k \in 1..(f.count - 1) : Tail(Contents(f))[k] = Contents(f)[k + 1]
  BY <1>1, <1>2, <1>10
<1>13. ASSUME NEW k \in 1..(f.count - 1)
       PROVE  Contents(g)[k] = Tail(Contents(f))[k]
  <2>1. k \in 1..g.count /\ k + 1 \in 1..f.count
    BY <1>1, <1>3
  <2>2. Contents(g)[k] = f.buf[Wrap(Wrap(f.head + 1) + k - 1)]
    BY <2>1, <1>3 DEF Contents
  <2>3. Contents(f)[k + 1] = f.buf[Wrap(f.head + (k + 1) - 1)]
    BY <2>1 DEF Contents
  <2>4. /\ Wrap(f.head + 1) + k - 1 \in 0..(FIFO_CAPACITY + FIFO_CAPACITY - 1)
        /\ f.head + (k + 1) - 1 \in 0..(FIFO_CAPACITY + FIFO_CAPACITY - 1)
    BY <1>1, <1>7
  <2>5. Wrap(Wrap(f.head + 1) + k - 1) =
          IF Wrap(f.head + 1) + k - 1 < FIFO_CAPACITY
          THEN Wrap(f.head + 1) + k - 1
          ELSE Wrap(f.head + 1) + k - 1 - FIFO_CAPACITY
    BY <2>4, <1>1, <1>7, Wraps
  <2>6. Wrap(f.head + (k + 1) - 1) =
          IF f.head + (k + 1) - 1 < FIFO_CAPACITY THEN f.head + (k + 1) - 1
          ELSE f.head + (k + 1) - 1 - FIFO_CAPACITY
    BY <2>4, <1>1, Wraps
  <2>7. Wrap(Wrap(f.head + 1) + k - 1) = Wrap(f.head + (k + 1) - 1)
    BY <2>5, <2>6, <1>1, <1>7
  <2> QED BY <2>2, <2>3, <2>7, <1>12
<1>14. Contents(g) = Tail(Contents(f))
  BY <1>1, <1>11, <1>12, <1>13, SeqEqual
<1> QED BY <1>1, <1>9, <1>10, <1>14 DEF g

-----------------------------------------------------------------------------
(* The steps.                                                              *)

\* The part of TypeOK that is about the ring.
LEMMA RingOfType == TypeOK <=> /\ RingOK(irq_fifo)
                               /\ irq_table \in [Vectors -> Seq(Handlers)]
                               /\ evt \in Events \union {NoEvent}
                               /\ idx \in Nat
  BY DEF TypeOK, RingOK, Rings

LEMMA InitType == Init => TypeOK
<1> SUFFICES ASSUME Init PROVE TypeOK
  OBVIOUS
<1>1. FIFO_CAPACITY \in Nat \ {0} /\ 0 \in Slots
  BY InterruptAssumption DEF Slots
<1>2. Wrap(0) = 0
  BY <1>1, Wraps
<1>3. PICK e \in Events :
        irq_fifo = [buf |-> [i \in Slots |-> e], head |-> 0, tail |-> 0, count |-> 0]
  BY DEF Init
<1>4. RingOK(irq_fifo)
  BY <1>1, <1>2, <1>3 DEF RingOK, Rings
<1>5. irq_table \in [Vectors -> Seq(Handlers)]
  BY DEF Init
<1> QED BY <1>4, <1>5, RingOfType DEF Init

\* What a step does to the ring: nothing, a push or a pop.
LEMMA StepType ==
  ASSUME TypeOK, [Next]_vars
  PROVE  TypeOK'
<1>1. /\ RingOK(irq_fifo) /\ irq_table \in [Vectors -> Seq(Handlers)]
      /\ evt \in Events \union {NoEvent} /\ idx \in Nat
  BY RingOfType
<1>2. SUFFICES /\ RingOK(irq_fifo)' /\ irq_table' \in [Vectors -> Seq(Handlers)]
               /\ evt' \in Events \union {NoEvent} /\ idx' \in Nat
  BY DEF TypeOK, RingOK, Rings
<1>3. ASSUME NEW e \in Events, interrupt_raise(e) PROVE <1>2!1
  BY <1>1, <1>3, PushAppends DEF interrupt_raise, RingOK
<1>4. ASSUME NEW v \in Vectors, NEW h \in Handlers, interrupt_register(v, h)
      PROVE  <1>2!1
  <2>1. Append(irq_table[v], h) \in Seq(Handlers)
    BY <1>1
  <2> QED BY <1>1, <1>4, <2>1 DEF interrupt_register, RingOK
<1>5. ASSUME NEW v \in Vectors, interrupt_unregister(v) PROVE <1>2!1
  BY <1>1, <1>5 DEF interrupt_unregister, RingOK
<1>6. CASE Pop
  BY <1>1, <1>6, PopTakes DEF Pop, RingOK
<1>7. ASSUME NEW h \in Handlers, Calls(h), irq_fifo' = irq_fifo PROVE <1>2!1
  BY <1>1, <1>7 DEF Calls, RingOK
<1>8. ASSUME NEW h \in Handlers, Calls(h), NEW e \in Events,
             irq_fifo' = fifo_push(irq_fifo, e)
      PROVE  <1>2!1
  BY <1>1, <1>8, PushAppends DEF Calls, RingOK
<1>9. CASE Finished
  BY <1>1, <1>9 DEF Finished, RingOK
<1>10. CASE UNCHANGED vars
  BY <1>1, <1>10 DEF vars, RingOK
<1> QED BY <1>3, <1>4, <1>5, <1>6, <1>7, <1>8, <1>9, <1>10 DEF Next

\* Every step of the kernel is one of the queue, or none.
LEMMA StepQueues ==
  ASSUME TypeOK, [Next]_vars
  PROVE  [Queue!Next]_<<Contents(irq_fifo), evt>>
<1>1. RingOK(irq_fifo)
  BY RingOfType
<1>2. NoEvent \notin Events
  BY InterruptAssumption
<1>3. ASSUME NEW e \in Events, irq_fifo' = fifo_push(irq_fifo, e), evt' = evt
      PROVE  Queue!Next
  <2>1. Contents(irq_fifo)' = IF Len(Contents(irq_fifo)) < FIFO_CAPACITY
                              THEN Append(Contents(irq_fifo), e)
                              ELSE Contents(irq_fifo)
    <3>1. Contents(irq_fifo)' = Contents(fifo_push(irq_fifo, e))
      BY <1>3 DEF Contents
    <3> QED BY <1>1, <3>1, PushAppends
  <2>2. Queue!Raise(e)
    BY <1>3, <2>1 DEF Queue!Raise
  <2> QED BY <2>2 DEF Queue!Next
<1>4. ASSUME irq_fifo' = irq_fifo, evt' = evt
      PROVE  UNCHANGED <<Contents(irq_fifo), evt>>
  BY <1>4 DEF Contents
<1>5. CASE Pop
  <2>1. /\ Contents(irq_fifo) # <<>>
        /\ evt' = Head(Contents(irq_fifo))
        /\ Contents(fifo_popped(irq_fifo)) = Tail(Contents(irq_fifo))
    BY <1>1, <1>5, PopTakes DEF Pop
  <2>2. Contents(irq_fifo)' = Contents(fifo_popped(irq_fifo))
    BY <1>5 DEF Pop, Contents
  <2>3. Queue!Take
    BY <1>5, <2>1, <2>2 DEF Queue!Take, Pop
  <2> QED BY <2>3 DEF Queue!Next
<1>6. CASE Finished
  <2>1. Contents(irq_fifo)' = Contents(irq_fifo)
    BY <1>6 DEF Finished, Contents
  <2>2. Queue!Finish
    BY <1>6, <2>1 DEF Queue!Finish, Finished
  <2> QED BY <2>2 DEF Queue!Next
<1>7. CASE \E e \in Events : interrupt_raise(e)
  BY <1>3, <1>7 DEF interrupt_raise
<1>8. CASE \/ \E v \in Vectors, h \in Handlers : interrupt_register(v, h)
           \/ \E v \in Vectors : interrupt_unregister(v)
           \/ UNCHANGED vars
  BY <1>4, <1>8 DEF interrupt_register, interrupt_unregister, vars
<1>9. ASSUME NEW h \in Handlers, Calls(h),
             \/ UNCHANGED irq_fifo
             \/ \E e \in Events : irq_fifo' = fifo_push(irq_fifo, e)
      PROVE  [Queue!Next]_<<Contents(irq_fifo), evt>>
  BY <1>3, <1>4, <1>9 DEF Calls
<1> QED BY <1>5, <1>6, <1>7, <1>8, <1>9 DEF Next

-----------------------------------------------------------------------------
(* The theorems.                                                           *)

\* The ring of interrupt.c stays well formed whatever is raised, registered
\* and dispatched: its tail is always count slots behind its head.
THEOREM RingWellFormed == Spec => []TypeOK
<1>1. TypeOK /\ [Next]_vars => TypeOK'
  BY StepType
<1> QED BY <1>1, InitType, PTL DEF Spec

\* The ring of interrupt.c is a queue: for every capacity, events are taken
\* in the order in which they were raised, each once, and one is dropped only
\* when as many as the capacity are waiting.
THEOREM RingIsQueue == Spec => QueueSpec
<1>1. Init => Queue!Init
  <2> SUFFICES ASSUME Init PROVE Queue!Init
    OBVIOUS
  <2>1. irq_fifo.count = 0 /\ evt = NoEvent
    BY DEF Init
  <2>2. Contents(irq_fifo) = <<>>
    <3>1. RingOK(irq_fifo)
      BY InitType, RingOfType
    <3>2. Contents(irq_fifo) \in Seq(Events) /\ Len(Contents(irq_fifo)) = 0
      BY <2>1, <3>1, ContentsSeq
    <3> QED BY <3>2
  <2> QED BY <2>1, <2>2 DEF Queue!Init
<1>2. TypeOK /\ [Next]_vars => [Queue!Next]_<<Contents(irq_fifo), evt>>
  BY StepQueues
<1> QED BY <1>1, <1>2, RingWellFormed, PTL DEF Spec, QueueSpec, Queue!Spec

-----------------------------------------------------------------------------
(* Handlers.                                                               *)

\* A handler that is owed a call stands at a place the loop has yet to reach.
OwedAhead ==
  /\ evt = NoEvent => owed = {}
  /\ evt # NoEvent =>
       \A h \in owed : \E i \in (idx + 1)..Len(irq_table[evt.vec]) :
          irq_table[evt.vec][i] = h

LEMMA OwedStep ==
  ASSUME TypeOK, OwedAhead, [OwedNext]_dispatchVars
  PROVE  OwedAhead'
<1>1. /\ irq_table \in [Vectors -> Seq(Handlers)]
      /\ evt \in Events \union {NoEvent} /\ idx \in Nat
      /\ NoEvent \notin Events
      /\ \A e \in Events : e.vec \in Vectors
  BY RingOfType, InterruptAssumption DEF Events
<1>2. CASE UNCHANGED dispatchVars
  BY <1>2 DEF dispatchVars, OwedAhead
<1>3. CASE OwedNext /\ evt' = NoEvent
  BY <1>3 DEF OwedNext, OwedAhead
<1>4. CASE OwedNext /\ evt = NoEvent /\ evt' # NoEvent
  <2>1. idx' = 0 /\ irq_table' = irq_table
    BY <1>4 DEF OwedNext, Next, interrupt_raise, interrupt_register,
               interrupt_unregister, Pop, Calls, Finished, MoreHandlers
  <2>2. owed' = Registered(irq_table, evt'.vec)
    BY <1>4 DEF OwedNext
  <2> QED BY <1>4, <2>1, <2>2 DEF OwedAhead, Registered
<1>5. CASE OwedNext /\ evt # NoEvent /\ evt' # NoEvent
  <2> DEFINE v == evt.vec
  <2>1. /\ Next /\ evt \in Events /\ v \in Vectors
        /\ irq_table[v] \in Seq(Handlers)
        /\ owed' = IF idx' # idx THEN owed \ {NextHandler}
                   ELSE owed \intersect Registered(irq_table', v)
    BY <1>1, <1>5 DEF OwedNext
  <2> HIDE DEF v
  <2>2. \A h \in owed : \E i \in (idx + 1)..Len(irq_table[v]) :
           irq_table[v][i] = h
    BY <1>5 DEF OwedAhead, v
  <2>3. SUFFICES /\ evt' = evt
                 /\ \A h \in owed' : \E i \in (idx' + 1)..Len(irq_table'[v]) :
                      irq_table'[v][i] = h
    BY <1>5 DEF OwedAhead, v
  <2>4. CASE \E e \in Events : interrupt_raise(e)
    BY <1>1, <2>1, <2>2, <2>4 DEF interrupt_raise
  <2>5. ASSUME NEW w \in Vectors, NEW h \in Handlers, interrupt_register(w, h)
        PROVE  <2>3!1
    <3>1. /\ irq_table' = [irq_table EXCEPT ![w] = Append(irq_table[w], h)]
          /\ evt' = evt /\ idx' = idx
      BY <2>5 DEF interrupt_register
    <3>2. \A i \in 1..Len(irq_table[v]) :
            i \in 1..Len(irq_table'[v]) /\ irq_table'[v][i] = irq_table[v][i]
      <4>1. CASE w = v
        BY <1>1, <2>1, <3>1, <4>1
      <4>2. CASE w # v
        BY <1>1, <2>1, <3>1, <4>2
      <4> QED BY <4>1, <4>2
    <3>3. owed' \subseteq owed
      BY <2>1, <3>1
    <3>4. ASSUME NEW g \in owed'
          PROVE  \E i \in (idx' + 1)..Len(irq_table'[v]) : irq_table'[v][i] = g
      <4>1. PICK i \in (idx + 1)..Len(irq_table[v]) : irq_table[v][i] = g
        BY <2>2, <3>3
      <4>2. i \in 1..Len(irq_table[v])
        BY <1>1, <2>1, <4>1
      <4>3. i \in 1..Len(irq_table'[v]) /\ irq_table'[v][i] = g
        BY <3>2, <4>1, <4>2
      <4>4. i \in (idx' + 1)..Len(irq_table'[v])
        BY <1>1, <3>1, <4>1, <4>3
      <4> QED BY <4>3, <4>4
    <3> QED BY <3>1, <3>4
  <2>6. ASSUME NEW w \in Vectors, interrupt_unregister(w)
        PROVE  <2>3!1
    <3>1. /\ irq_table' = [irq_table EXCEPT ![w] = <<>>]
          /\ evt' = evt /\ idx' = idx
      BY <2>6 DEF interrupt_unregister
    <3>2. owed' = owed \intersect Registered(irq_table', v)
      BY <2>1, <3>1
    <3>3. CASE w = v
      <4>1. irq_table'[v] = <<>>
        BY <1>1, <2>1, <3>1, <3>3
      <4>2. Registered(irq_table', v) = {}
        BY <4>1 DEF Registered
      <4> QED BY <3>1, <3>2, <4>2
    <3>4. CASE w # v
      <4>1. irq_table'[v] = irq_table[v]
        BY <1>1, <2>1, <3>1, <3>4
      <4> QED BY <2>2, <3>1, <3>2, <4>1
    <3> QED BY <3>3, <3>4
  <2>7. ASSUME NEW h \in Handlers, Calls(h)
        PROVE  <2>3!1
    <3>1. /\ idx' = idx + 1 /\ irq_table' = irq_table /\ evt' = evt
          /\ NextHandler = irq_table[v][idx + 1]
      BY <2>7 DEF Calls, NextHandler, v
    <3>2. owed' = owed \ {irq_table[v][idx + 1]}
      BY <1>1, <2>1, <3>1
    <3>3. ASSUME NEW g \in owed'
          PROVE  \E i \in (idx' + 1)..Len(irq_table'[v]) : irq_table'[v][i] = g
      <4>1. PICK i \in (idx + 1)..Len(irq_table[v]) : irq_table[v][i] = g
        BY <2>2, <3>2
      <4>2. i # idx + 1
        BY <3>2, <4>1
      <4>3. i \in (idx' + 1)..Len(irq_table'[v])
        BY <1>1, <2>1, <3>1, <4>1, <4>2
      <4> QED BY <3>1, <4>1, <4>3
    <3> QED BY <3>1, <3>3
  <2>8. ~Pop /\ ~Finished
    BY <1>5 DEF Pop, Finished
  <2> QED BY <2>1, <2>4, <2>5, <2>6, <2>7, <2>8 DEF Next
<1> QED BY <1>2, <1>3, <1>4, <1>5 DEF OwedNext

\* interrupt_dispatch_one calls every handler that stays registered while it
\* walks the table, for every number of handlers, vectors and events, although
\* handlers come and go between its calls.
THEOREM StayingHandlersCalled == OwedSpec => AllHandlersCalled
<1>1. OwedInit => TypeOK /\ OwedAhead
  BY InitType DEF OwedInit, Init, OwedAhead
<1>2. ASSUME TypeOK, OwedAhead, [OwedNext]_dispatchVars
      PROVE  TypeOK' /\ OwedAhead'
  <2>1. [Next]_vars
    BY <1>2 DEF OwedNext, dispatchVars, vars
  <2> QED BY <1>2, <2>1, StepType, OwedStep
<1>3. ASSUME TypeOK, OwedAhead, [OwedNext]_dispatchVars
      PROVE  [evt # NoEvent /\ evt' = NoEvent => owed = {}]_dispatchVars
  <2> SUFFICES ASSUME OwedNext, evt # NoEvent, evt' = NoEvent PROVE owed = {}
    BY <1>3
  <2>1. evt \in Events /\ idx \in Nat /\ NoEvent \notin Events
    BY <1>3, RingOfType, InterruptAssumption
  <2>2. Finished
    BY <2>1 DEF OwedNext, Next, interrupt_raise, interrupt_register,
               interrupt_unregister, Pop, Calls, Finished
  <2>3. idx >= Len(irq_table[evt.vec])
    <3>1. evt.vec \in Vectors
      BY <2>1 DEF Events
    <3>2. irq_table[evt.vec] \in Seq(Handlers)
      BY <1>3, <3>1, RingOfType
    <3> QED BY <2>1, <2>2, <3>2 DEF Finished, MoreHandlers
  <2>4. (idx + 1)..Len(irq_table[evt.vec]) = {}
    <3>1. irq_table[evt.vec] \in Seq(Handlers)
      BY <1>3, <2>1, RingOfType DEF Events
    <3> QED BY <2>1, <2>3, <3>1
  <2> QED BY <1>3, <2>4 DEF OwedAhead
<1>4. TypeOK /\ OwedAhead /\ [OwedNext]_dispatchVars => TypeOK' /\ OwedAhead'
  BY <1>2
<1>5. TypeOK /\ OwedAhead /\ [OwedNext]_dispatchVars
        => [evt # NoEvent /\ evt' = NoEvent => owed = {}]_dispatchVars
  BY <1>3
<1> QED BY <1>1, <1>4, <1>5, PTL DEF OwedSpec, AllHandlersCalled

-----------------------------------------------------------------------------
(* Induction and recursion up to a number.                                 *)

\* A set of natural numbers has a least element.
LEMMA LeastIn ==
  ASSUME NEW S \in SUBSET Nat, S # {}
  PROVE  \E x \in S : \A y \in S : x <= y
<1> DEFINE R == {ss \in Nat \X Nat : ss[1] < ss[2]}
<1>1. IsWellFoundedOn(R, Nat)
  BY NatLessThanWellFounded, Zenon DEF OpToRel
<1>2. PICK x \in S : \A y \in S : ~(<<y, x>> \in R)
  <2> HIDE DEF R
  <2> QED BY <1>1, WFMin
<1>3. \A y \in S : ~(y < x)
  BY <1>2
<1> QED BY <1>3

\* What holds of 0, and of i + 1 if it holds of i, holds up to n.
LEMMA UpToInduction ==
  ASSUME NEW n \in Nat, NEW S, 0 \in S,
         \A i \in 0..(n - 1) : i \in S => i + 1 \in S
  PROVE  \A i \in 0..n : i \in S
<1> DEFINE D == {i \in 0..n : i \notin S}
<1> SUFFICES ASSUME D # {} PROVE FALSE
  OBVIOUS
<1>1. D \in SUBSET Nat
  OBVIOUS
<1>2. PICK m \in D : \A y \in D : m <= y
  <2> HIDE DEF D
  <2> QED BY <1>1, LeastIn
<1>3. m \in 1..n /\ m \notin S
  BY <1>2
<1>4. m - 1 \in 0..(n - 1) /\ (m - 1) + 1 = m
  BY <1>3
<1>5. m - 1 \in S
  BY <1>2, <1>4
<1> QED BY <1>3, <1>4, <1>5

\* The functions that start with v0 and go on with g, up to n.
Recursions(n, V, v0, g) ==
  {f \in [0..n -> V] : f[0] = v0 /\ \A i \in 1..n : f[i] = g[<<f[i - 1], i>>]}

\* A function can be defined by recursion from 0 to n.
LEMMA Recursion ==
  ASSUME NEW n \in Nat, NEW V, NEW v0 \in V, NEW g \in [V \X (1..n) -> V]
  PROVE  Recursions(n, V, v0, g) # {}
<1> DEFINE Ok(m, f) == f[0] = v0 /\ \A i \in 1..m : f[i] = g[<<f[i - 1], i>>]
           S == {m \in 0..n : \E f \in [0..m -> V] : Ok(m, f)}
<1>1. 0 \in S
  <2>1. [i \in 0..0 |-> v0] \in [0..0 -> V] /\ Ok(0, [i \in 0..0 |-> v0])
    OBVIOUS
  <2>2. \E f \in [0..0 -> V] : Ok(0, f)
    <3> HIDE DEF Ok
    <3> QED BY <2>1, Zenon
  <2> QED BY <2>2
<1>2. ASSUME NEW m \in 0..(n - 1), m \in S PROVE m + 1 \in S
  <2>1. PICK f \in [0..m -> V] : Ok(m, f)
    BY <1>2
  <2> DEFINE h == [i \in 0..(m + 1) |-> IF i <= m THEN f[i] ELSE g[<<f[m], m + 1>>]]
  <2>2. f[m] \in V /\ m + 1 \in 1..n /\ m \in 0..m
    OBVIOUS
  <2>3. g[<<f[m], m + 1>>] \in V
    BY <2>2
  <2>4. h \in [0..(m + 1) -> V]
    BY <2>3
  <2>5. ASSUME NEW i \in 1..(m + 1) PROVE h[i] = g[<<h[i - 1], i>>]
    <3>1. CASE i = m + 1
      BY <2>2, <3>1
    <3>2. CASE i # m + 1
      <4>1. i \in 1..m /\ i - 1 \in 0..m
        BY <3>2
      <4> QED BY <2>1, <4>1
    <3> QED BY <3>1, <3>2
  <2>6. h[0] = v0
    BY <2>1
  <2>7. Ok(m + 1, h)
    BY <2>5, <2>6
  <2>8. \E k \in [0..(m + 1) -> V] : Ok(m + 1, k)
    <3> HIDE DEF Ok, h
    <3> QED BY <2>4, <2>7, Zenon
  <2> QED BY <2>2, <2>8
<1>3. \A m \in 0..n : m \in S
  <2> HIDE DEF S
  <2> QED BY <1>1, <1>2, UpToInduction
<1>4. n \in S
  BY <1>3
<1> QED BY <1>4 DEF Recursions

-----------------------------------------------------------------------------
(* Counting.                                                               *)

LEMMA CountType ==
  ASSUME NEW X, NEW s \in Seq(X), NEW S
  PROVE  IsFiniteSet({i \in 1..Len(s) : s[i] \in S}) /\ Count(s, S) \in Nat
<1>1. Len(s) \in Nat
  OBVIOUS
<1>2. IsFiniteSet(1..Len(s))
  BY <1>1, FS_Interval
<1>3. IsFiniteSet({i \in 1..Len(s) : s[i] \in S})
  BY <1>2, FS_Subset
<1> QED BY <1>3, FS_CardinalityType DEF Count

LEMMA CountEmpty ==
  ASSUME NEW S
  PROVE  Count(<<>>, S) = 0
<1>1. {i \in 1..Len(<<>>) : <<>>[i] \in S} = {}
  OBVIOUS
<1> QED BY <1>1, FS_EmptySet DEF Count

LEMMA CountAppend ==
  ASSUME NEW X, NEW s \in Seq(X), NEW x \in X, NEW S
  PROVE  Count(Append(s, x), S) = Count(s, S) + (IF x \in S THEN 1 ELSE 0)
<1> DEFINE t == Append(s, x)
           n == Len(s)
           I == {i \in 1..n : s[i] \in S}
           J == {i \in 1..Len(t) : t[i] \in S}
<1>1. n \in Nat /\ Len(t) = n + 1 /\ t[n + 1] = x /\ \A i \in 1..n : t[i] = s[i]
  OBVIOUS
<1>2. 1..(n + 1) = (1..n) \union {n + 1} /\ n + 1 \notin 1..n
  BY <1>1
<1> HIDE DEF t
<1>3. J = IF x \in S THEN I \union {n + 1} ELSE I
  BY <1>1, <1>2
<1>4. IsFiniteSet(I) /\ Cardinality(I) \in Nat
  BY CountType DEF Count
<1>5. n + 1 \notin I
  BY <1>1
<1>6. Cardinality(J) = Cardinality(I) + (IF x \in S THEN 1 ELSE 0)
  <2> HIDE DEF I, J, n
  <2>1. Cardinality(I \union {n + 1}) = Cardinality(I) + 1
    BY <1>4, <1>5, FS_AddElement
  <2>2. CASE x \in S
    BY <1>3, <2>1, <2>2
  <2>3. CASE x \notin S
    BY <1>3, <1>4, <2>3
  <2> QED BY <2>2, <2>3
<1> QED BY <1>6 DEF Count, t

LEMMA CountTail ==
  ASSUME NEW X, NEW s \in Seq(X), s # <<>>, NEW S
  PROVE  Count(s, S) = Count(Tail(s), S) + (IF Head(s) \in S THEN 1 ELSE 0)
<1> DEFINE t == Tail(s)
           n == Len(t)
           I == {i \in 1..n : t[i] \in S}
           J == {i \in 1..Len(s) : s[i] \in S}
           K == J \ {1}
           f == [i \in I |-> i + 1]
<1>1. n \in Nat /\ t \in Seq(X) /\ Len(s) = n + 1 /\ \A i \in 1..n : t[i] = s[i + 1]
  OBVIOUS
<1>2. Head(s) = s[1]
  OBVIOUS
<1> HIDE DEF t
<1>3. IsFiniteSet(I) /\ Cardinality(I) \in Nat
  BY <1>1, CountType DEF Count
<1>4. IsFiniteSet(J)
  BY CountType
<1> HIDE DEF n
<1>5. f \in Bijection(I, K)
  <2>1. f \in [I -> K]
    BY <1>1
  <2>2. \A a, b \in I : f[a] = f[b] => a = b
    BY <1>1
  <2>3. ASSUME NEW k \in K PROVE \E i \in I : f[i] = k
    <3>1. k - 1 \in I /\ (k - 1) + 1 = k
      BY <1>1
    <3> QED BY <3>1
  <2> HIDE DEF f, I, K
  <2> QED BY <2>1, <2>2, <2>3 DEF Bijection, Injection, Surjection, IsInjective
<1>6. Cardinality(K) = Cardinality(I)
  <2> HIDE DEF I, K, f
  <2>1. ExistsBijection(I, K)
    BY <1>5 DEF ExistsBijection
  <2> QED BY <1>3, <2>1, FS_Bijection
<1>7. 1 \in J <=> Head(s) \in S
  BY <1>1, <1>2
<1>8. Cardinality(J) = Cardinality(I) + (IF Head(s) \in S THEN 1 ELSE 0)
  <2>1. CASE 1 \in J
    <3>1. J = K \union {1} /\ 1 \notin K /\ IsFiniteSet(K)
      BY <1>4, <2>1, FS_Subset
    <3> HIDE DEF I, J, K
    <3>2. Cardinality(J) = Cardinality(K) + 1
      BY <3>1, FS_AddElement
    <3> QED BY <1>6, <1>7, <2>1, <3>2
  <2>2. CASE 1 \notin J
    <3>1. J = K
      BY <2>2
    <3> HIDE DEF I, J, K
    <3> QED BY <1>3, <1>6, <1>7, <2>2, <3>1
  <2> QED BY <2>1, <2>2
<1> QED BY <1>8 DEF Count, t, n

-----------------------------------------------------------------------------
(* key_buffer.                                                             *)

Characters == [key : Keys \union {Caret.key, Serial.key}, shift : BOOLEAN]
Cells == 0..(KEY_BUFFER_SIZE - 1)
KeyRings == [cell : [Cells -> Characters \union {NoChar}], read : Cells, write : Cells]

\* The characters in a buffer are ones that were put there.
KeyRingOK(r) == r \in KeyRings /\ \A i \in 1..Len(Buffered(r)) : Buffered(r)[i] \in Characters

\* The places of a ring of c cells, and the way from one to another.
LEMMA Remainders ==
  ASSUME NEW c \in Nat \ {0}, NEW a \in (1 - c)..(2 * c - 1)
  PROVE  a % c = IF a < 0 THEN a + c ELSE IF a < c THEN a ELSE a - c
<1>1. CASE a >= c
  <2>1. a \in c..(2 * c - 1)
    BY <1>1
  <2> QED BY <1>1, <2>1, RemainderHigh
<1>2. CASE 0 <= a /\ a < c
  <2>1. a \in 0..(c - 1)
    BY <1>2
  <2> QED BY <1>2, <2>1, RemainderLow
<1>3. CASE a < 0
  <2> DEFINE q == a \div c
             r == a % c
  <2>1. q \in Int /\ r \in 0..(c - 1) /\ a = c * q + r
    BY SMT
  <2> HIDE DEF q, r
  <2>2. q <= -1
    <3>1. ASSUME q >= 0 PROVE c * q >= 0
      BY <3>1, <2>1, SMT
    <3> QED BY <1>3, <2>1, <3>1, SMT
  <2>3. q >= -1
    <3>1. ASSUME q <= -2 PROVE c * q <= -2 * c
      BY <3>1, <2>1, SMT
    <3> QED BY <2>1, <3>1, SMT
  <2>4. q = -1
    BY <2>1, <2>2, <2>3
  <2> QED BY <1>3, <2>1, <2>4 DEF r
<1> QED BY <1>1, <1>2, <1>3

\* How many characters a buffer holds.
Filling(r) == IF r.read <= r.write THEN r.write - r.read
                                   ELSE r.write - r.read + KEY_BUFFER_SIZE
\* Where character i of the buffer is.
CellOf(r, i) ==
  LET p == r.read + i - 1
  IN  IF p < KEY_BUFFER_SIZE THEN p ELSE p - KEY_BUFFER_SIZE

\* What Buffered returns: as many characters as are in the buffer.
LEMMA BufferedIs ==
  ASSUME KeySetUp, NEW r \in KeyRings
  PROVE  /\ Filling(r) \in 0..(KEY_BUFFER_SIZE - 1)
         /\ Buffered(r) \in Seq(Characters \union {NoChar})
         /\ Len(Buffered(r)) = Filling(r)
         /\ \A i \in 1..Filling(r) : CellOf(r, i) \in Cells /\ Buffered(r)[i] = r.cell[CellOf(r, i)]
<1> DEFINE c == KEY_BUFFER_SIZE
           n == Filling(r)
<1>1. c \in Nat \ {0}
  BY DEF KeySetUp
<1>2. r.read \in 0..(c - 1) /\ r.write \in 0..(c - 1) /\ r.cell \in [Cells -> Characters \union {NoChar}]
  BY DEF KeyRings, Cells
<1>3. (r.write - r.read) % c = n /\ n \in 0..(c - 1)
  <2>1. r.write - r.read \in (1 - c)..(2 * c - 1)
    BY <1>1, <1>2
  <2>2. (r.write - r.read) % c = IF r.write - r.read < 0 THEN (r.write - r.read) + c
           ELSE IF r.write - r.read < c THEN r.write - r.read ELSE (r.write - r.read) - c
    BY <1>1, <2>1, Remainders
  <2> QED BY <1>1, <1>2, <2>2 DEF Filling
<1> HIDE DEF n
<1>4. ASSUME NEW i \in 1..n
      PROVE  (r.read + i - 1) % c = CellOf(r, i) /\ CellOf(r, i) \in Cells
  <2>1. r.read + i - 1 \in (1 - c)..(2 * c - 1) /\ r.read + i - 1 >= 0 /\ r.read + i - 1 < c + c
    BY <1>1, <1>2, <1>3
  <2>2. (r.read + i - 1) % c = IF r.read + i - 1 < 0 THEN (r.read + i - 1) + c
           ELSE IF r.read + i - 1 < c THEN r.read + i - 1 ELSE (r.read + i - 1) - c
    BY <1>1, <2>1, Remainders
  <2> QED BY <1>1, <1>2, <2>1, <2>2 DEF CellOf, Cells
<1>5. Buffered(r) = [i \in 1..n |-> r.cell[(r.read + i - 1) % c]]
  BY <1>3 DEF Buffered
<1>6. \A i \in 1..n : r.cell[(r.read + i - 1) % c] \in Characters \union {NoChar}
  BY <1>2, <1>4
<1>7. Buffered(r) \in Seq(Characters \union {NoChar}) /\ Len(Buffered(r)) = n
  BY <1>3, <1>5, <1>6
<1> QED BY <1>3, <1>4, <1>5, <1>7 DEF n

LEMMA AdvanceIs ==
  ASSUME KeySetUp, NEW p \in Cells
  PROVE  Advance(p) \in Cells /\ Advance(p) = IF p + 1 < KEY_BUFFER_SIZE THEN p + 1 ELSE 0
<1> DEFINE c == KEY_BUFFER_SIZE
<1>1. c \in Nat \ {0} /\ p \in 0..(c - 1)
  BY DEF KeySetUp, Cells
<1>2. p + 1 \in (1 - c)..(2 * c - 1)
  BY <1>1
<1>3. (p + 1) % c = IF p + 1 < 0 THEN (p + 1) + c ELSE IF p + 1 < c THEN p + 1 ELSE (p + 1) - c
  BY <1>1, <1>2, Remainders
<1> QED BY <1>1, <1>3 DEF Advance, Cells

\* buffer_put appends, or drops when one cell is left.
LEMMA PutAppends ==
  ASSUME KeySetUp, NEW r, KeyRingOK(r), NEW x \in Characters
  PROVE  /\ KeyRingOK(buffer_put(r, x))
         /\ Buffered(buffer_put(r, x)) =
              IF Filling(r) < KEY_BUFFER_SIZE - 1 THEN Append(Buffered(r), x) ELSE Buffered(r)
<1> DEFINE c == KEY_BUFFER_SIZE
           g == buffer_put(r, x)
           n == Filling(r)
<1>1. /\ r \in KeyRings /\ c \in Nat \ {0}
      /\ r.read \in 0..(c - 1) /\ r.write \in 0..(c - 1)
      /\ r.cell \in [Cells -> Characters \union {NoChar}] /\ r.write \in Cells /\ r.read \in Cells
  BY DEF KeyRingOK, KeyRings, Cells, KeySetUp
<1>2. /\ n \in 0..(c - 1) /\ Len(Buffered(r)) = n
      /\ \A i \in 1..n : CellOf(r, i) \in Cells /\ Buffered(r)[i] = r.cell[CellOf(r, i)]
      /\ Buffered(r) \in Seq(Characters \union {NoChar})
  BY <1>1, BufferedIs
<1>3. Advance(r.write) \in Cells /\ Advance(r.write) = IF r.write + 1 < c THEN r.write + 1 ELSE 0
  BY <1>1, AdvanceIs
<1>4. Advance(r.write) = r.read <=> n = c - 1
  BY <1>1, <1>3 DEF Filling
<1>5. CASE n = c - 1
  <2>1. g = r
    BY <1>4, <1>5 DEF buffer_put
  <2> QED BY <1>1, <1>5, <2>1
<1>6. CASE n < c - 1
  <2> DEFINE cell == [r.cell EXCEPT ![r.write] = x]
             t == Append(Buffered(r), x)
  <2>1. g = [cell |-> cell, read |-> r.read, write |-> Advance(r.write)]
    BY <1>1, <1>4, <1>6 DEF buffer_put
  <2>2. /\ cell \in [Cells -> Characters \union {NoChar}] /\ cell[r.write] = x
        /\ \A p \in Cells : p # r.write => cell[p] = r.cell[p]
    BY <1>1
  <2> HIDE DEF cell
  <2>3. /\ g \in KeyRings /\ g.cell = cell /\ g.read = r.read /\ g.write = Advance(r.write)
    BY <1>1, <1>3, <2>1, <2>2 DEF KeyRings
  <2> HIDE DEF g
  <2>4. Filling(g) = n + 1
    BY <1>1, <1>3, <1>6, <2>3 DEF Filling
  <2>5. /\ Len(Buffered(g)) = n + 1
        /\ \A i \in 1..(n + 1) : Buffered(g)[i] = cell[CellOf(g, i)]
        /\ Buffered(g) \in Seq(Characters \union {NoChar})
    BY <2>3, <2>4, BufferedIs
  <2>6. \A i \in 1..(n + 1) : CellOf(g, i) = CellOf(r, i)
    BY <2>3 DEF CellOf
  <2>7. CellOf(r, n + 1) = r.write
    <3> DEFINE p == r.read + (n + 1) - 1
    <3>1. CellOf(r, n + 1) = IF p < KEY_BUFFER_SIZE THEN p ELSE p - KEY_BUFFER_SIZE
      BY DEF CellOf
    <3>2. r.read <= r.write => p = r.write
      BY <1>1 DEF Filling
    <3>3. r.read > r.write => p = r.write + KEY_BUFFER_SIZE
      BY <1>1 DEF Filling
    <3> HIDE DEF p, n
    <3> QED BY <1>1, <3>1, <3>2, <3>3
  <2>8. \A i \in 1..n : CellOf(r, i) # r.write
    BY <1>1, <1>2, <1>6 DEF CellOf, Filling
  <2> HIDE DEF n
  <2>9. Len(t) = n + 1 /\ t[n + 1] = x /\ t \in Seq(Characters \union {NoChar})
        /\ \A i \in 1..n : t[i] = Buffered(r)[i]
    BY <1>2
  <2>10. \A i \in 1..(n + 1) : Buffered(g)[i] = t[i]
    <3>1. Buffered(g)[n + 1] = x
      <4>1. n + 1 \in 1..(n + 1)
        BY <1>2
      <4> QED BY <2>2, <2>5, <2>6, <2>7, <4>1
    <3>2. ASSUME NEW i \in 1..n PROVE Buffered(g)[i] = t[i]
      <4>1. i \in 1..(n + 1)
        BY <1>2
      <4>2. Buffered(g)[i] = cell[CellOf(r, i)]
        BY <2>5, <2>6, <4>1
      <4> QED BY <1>2, <2>2, <2>8, <2>9, <4>2
    <3> QED BY <1>2, <2>9, <3>1, <3>2
  <2> HIDE DEF t
  <2>11. Buffered(g) = t
    BY <2>5, <2>9, <2>10, SeqEqual
  <2>12. \A i \in 1..Len(t) : t[i] \in Characters
    <3>1. \A i \in 1..n : Buffered(r)[i] \in Characters
      BY <1>2 DEF KeyRingOK
    <3> QED BY <1>2, <2>9, <3>1
  <2>13. KeyRingOK(g)
    BY <2>3, <2>11, <2>12 DEF KeyRingOK
  <2> QED BY <1>6, <2>11, <2>13 DEF g, t, n
<1> QED BY <1>1, <1>2, <1>5, <1>6

\* The buffer is empty when it says so, and buffer_get takes its first character.
LEMMA GetTakes ==
  ASSUME KeySetUp, NEW r, KeyRingOK(r)
  PROVE  /\ Buffered(r) \in Seq(Characters)
         /\ Empty(r) <=> Buffered(r) = <<>>
         /\ ~Empty(r) => /\ buffer_get(r) = Head(Buffered(r)) /\ buffer_get(r) \in Characters
                         /\ KeyRingOK(Drained(r)) /\ Buffered(Drained(r)) = Tail(Buffered(r))
<1> DEFINE c == KEY_BUFFER_SIZE
           n == Filling(r)
           g == Drained(r)
<1>1. /\ r \in KeyRings /\ c \in Nat \ {0}
      /\ r.read \in 0..(c - 1) /\ r.write \in 0..(c - 1)
      /\ r.cell \in [Cells -> Characters \union {NoChar}] /\ r.write \in Cells /\ r.read \in Cells
  BY DEF KeyRingOK, KeyRings, Cells, KeySetUp
<1>2. /\ n \in 0..(c - 1) /\ Len(Buffered(r)) = n
      /\ \A i \in 1..n : CellOf(r, i) \in Cells /\ Buffered(r)[i] = r.cell[CellOf(r, i)]
      /\ Buffered(r) \in Seq(Characters \union {NoChar})
  BY <1>1, BufferedIs
<1>3. Buffered(r) \in Seq(Characters)
  BY <1>2 DEF KeyRingOK
<1>4. Empty(r) <=> n = 0
  BY <1>1 DEF Empty, Filling
<1>5. Empty(r) <=> Buffered(r) = <<>>
  BY <1>2, <1>4
<1>6. ASSUME ~Empty(r)
      PROVE  /\ buffer_get(r) = Head(Buffered(r)) /\ buffer_get(r) \in Characters
             /\ KeyRingOK(g) /\ Buffered(g) = Tail(Buffered(r))
  <2>1. CellOf(r, 1) = r.read /\ 1 \in 1..n /\ n - 1 \in Nat
    BY <1>1, <1>2, <1>4, <1>6 DEF CellOf
  <2>2. buffer_get(r) = Buffered(r)[1]
    BY <1>2, <1>6, <2>1 DEF buffer_get
  <2>3. Advance(r.read) \in Cells /\ Advance(r.read) = IF r.read + 1 < c THEN r.read + 1 ELSE 0
    BY <1>1, AdvanceIs
  <2>4. g = [r EXCEPT !.read = Advance(r.read)]
    BY <1>6 DEF Drained
  <2>5. g \in KeyRings /\ g.cell = r.cell /\ g.read = Advance(r.read) /\ g.write = r.write
    BY <1>1, <2>3, <2>4 DEF KeyRings
  <2> HIDE DEF g
  <2>6. Filling(g) = n - 1
    BY <1>1, <1>4, <1>6, <2>3, <2>5 DEF Filling, Empty
  <2>7. /\ Len(Buffered(g)) = n - 1
        /\ \A i \in 1..(n - 1) : Buffered(g)[i] = r.cell[CellOf(g, i)]
        /\ Buffered(g) \in Seq(Characters \union {NoChar})
    BY <2>5, <2>6, BufferedIs
  <2>8. \A i \in 1..(n - 1) : CellOf(g, i) = CellOf(r, i + 1)
    BY <1>1, <1>2, <2>3, <2>5 DEF CellOf, Filling
  <2> HIDE DEF n
  <2> DEFINE t == Tail(Buffered(r))
  <2>9. /\ t \in Seq(Characters) /\ Len(t) = n - 1 /\ \A i \in 1..(n - 1) : t[i] = Buffered(r)[i + 1]
    BY <1>2, <1>3, <2>1
  <2>10. \A i \in 1..(n - 1) : Buffered(g)[i] = t[i]
    <3> SUFFICES ASSUME NEW i \in 1..(n - 1) PROVE Buffered(g)[i] = t[i]
      OBVIOUS
    <3>1. i + 1 \in 1..n
      BY <1>2
    <3> QED BY <1>2, <2>7, <2>8, <2>9, <3>1
  <2> HIDE DEF t
  <2>11. Buffered(g) = t
    <3>1. t \in Seq(Characters \union {NoChar})
      BY <2>9
    <3> QED BY <2>7, <2>9, <2>10, <3>1, SeqEqual
  <2>12. \A i \in 1..Len(t) : t[i] \in Characters
    BY <2>9
  <2>13. Head(Buffered(r)) = Buffered(r)[1] /\ Buffered(r)[1] \in Characters
    BY <1>2, <1>3, <2>1
  <2> QED BY <2>2, <2>5, <2>11, <2>12, <2>13 DEF KeyRingOK, t
<1> QED BY <1>3, <1>5, <1>6

-----------------------------------------------------------------------------
(* Several characters at once.                                             *)

GoodRings == {r \in KeyRings : KeyRingOK(r)}

\* The walk along the characters.
LEMMA PutsWalk ==
  ASSUME KeySetUp, NEW r, KeyRingOK(r), NEW cs \in Seq(Characters)
  PROVE  \E f \in [0..Len(cs) -> GoodRings] :
           /\ f[0] = r /\ \A i \in 1..Len(cs) : f[i] = buffer_put(f[i - 1], cs[i])
           /\ buffer_puts(r, cs) = f[Len(cs)]
<1> DEFINE n == Len(cs)
           V == GoodRings
           Eq(h) == h = [i \in 0..n |-> IF i = 0 THEN r ELSE buffer_put(h[i - 1], cs[i])]
           g == [v \in V \X (1..n) |-> buffer_put(v[1], cs[v[2]])]
           u == CHOOSE h : Eq(h)
<1>1. n \in Nat /\ r \in V /\ \A i \in 1..n : cs[i] \in Characters
  BY DEF GoodRings, KeyRingOK
<1>2. ASSUME NEW v \in V, NEW x \in Characters PROVE buffer_put(v, x) \in V
  <2>1. KeyRingOK(v)
    BY DEF GoodRings
  <2>2. KeyRingOK(buffer_put(v, x))
    BY <2>1, PutAppends
  <2> QED BY <2>2 DEF GoodRings, KeyRingOK
<1> HIDE DEF V
<1>3. g \in [V \X (1..n) -> V]
  <2> SUFFICES ASSUME NEW v \in V \X (1..n) PROVE buffer_put(v[1], cs[v[2]]) \in V
    OBVIOUS
  <2>1. v[1] \in V /\ cs[v[2]] \in Characters
    BY <1>1
  <2> QED BY <1>2, <2>1
<1>4. PICK f \in [0..n -> V] : f[0] = r /\ \A i \in 1..n : f[i] = g[<<f[i - 1], i>>]
  <2>1. Recursions(n, V, r, g) # {}
    <3> HIDE DEF n, g
    <3> QED BY <1>1, <1>3, Recursion
  <2> HIDE DEF n, g
  <2> QED BY <2>1 DEF Recursions
<1>5. \A i \in 1..n : f[i] = buffer_put(f[i - 1], cs[i])
  <2> SUFFICES ASSUME NEW i \in 1..n PROVE f[i] = buffer_put(f[i - 1], cs[i])
    OBVIOUS
  <2>1. f[i - 1] \in V
    BY <1>1
  <2> QED BY <1>4, <2>1
<1>6. Eq(f)
  <2>1. ASSUME NEW i \in 0..n PROVE f[i] = IF i = 0 THEN r ELSE buffer_put(f[i - 1], cs[i])
    BY <1>4, <1>5
  <2> QED BY <1>4, <2>1
<1>7. Eq(u)
  <2> HIDE DEF Eq
  <2> QED BY <1>6, Zenon
<1>8. DOMAIN u = 0..n /\ u = [i \in 0..n |-> u[i]]
  <2> HIDE DEF u
  <2> QED BY <1>7
<1>9. \A i \in 0..n : u[i] = IF i = 0 THEN r ELSE buffer_put(u[i - 1], cs[i])
  <2> HIDE DEF u
  <2> QED BY <1>7
<1> HIDE DEF u
<1>10. u[0] = r /\ \A i \in 1..n : u[i] = buffer_put(u[i - 1], cs[i])
  BY <1>1, <1>9
<1>11. \A i \in 0..n : u[i] \in V
  <2> DEFINE S == {i \in 0..n : u[i] \in V}
  <2>1. 0 \in S
    BY <1>1, <1>10
  <2>2. ASSUME NEW i \in 0..(n - 1), i \in S PROVE i + 1 \in S
    <3>1. i + 1 \in 1..n /\ (i + 1) - 1 = i
      BY <1>1
    <3>2. u[i + 1] = buffer_put(u[i], cs[i + 1])
      BY <1>10, <3>1
    <3>3. u[i + 1] \in V
      BY <1>1, <1>2, <2>2, <3>1, <3>2
    <3> QED BY <3>1, <3>3
  <2>3. \A i \in 0..n : i \in S
    <3> HIDE DEF S
    <3> QED BY <1>1, <2>1, <2>2, UpToInduction
  <2> QED BY <2>3
<1>12. u \in [0..n -> V]
  BY <1>8, <1>11
<1>13. buffer_puts(r, cs) = u[n]
  BY DEF buffer_puts, u
<1> QED BY <1>10, <1>12, <1>13 DEF V

\* As many members of S arrive in the buffer as there are among the
\* characters, unless it is too full for them.
LEMMA PutsCount ==
  ASSUME KeySetUp, NEW r, KeyRingOK(r), NEW cs \in Seq(Characters), NEW S
  PROVE  /\ KeyRingOK(buffer_puts(r, cs))
         /\ Count(Buffered(buffer_puts(r, cs)), S) <= Count(Buffered(r), S) + Count(cs, S)
         /\ Count(Buffered(r), S) <= Count(Buffered(buffer_puts(r, cs)), S)
         /\ Fits(r, cs) => Count(Buffered(buffer_puts(r, cs)), S) = Count(Buffered(r), S) + Count(cs, S)
<1> DEFINE n == Len(cs)
           c == KEY_BUFFER_SIZE
           C(i) == Count(SubSeq(cs, 1, i), S)
<1>1. PICK f \in [0..n -> GoodRings] :
        /\ f[0] = r /\ \A i \in 1..n : f[i] = buffer_put(f[i - 1], cs[i])
        /\ buffer_puts(r, cs) = f[n]
  BY PutsWalk
<1> DEFINE B(i) == Count(Buffered(f[i]), S)
<1>2. n \in Nat /\ c \in Nat \ {0} /\ \A i \in 1..n : cs[i] \in Characters
  BY DEF KeySetUp
<1>3. ASSUME NEW i \in 0..n
      PROVE  /\ KeyRingOK(f[i]) /\ Buffered(f[i]) \in Seq(Characters)
             /\ Len(Buffered(f[i])) = Filling(f[i]) /\ Filling(f[i]) \in 0..(c - 1)
             /\ B(i) \in Nat /\ C(i) \in Nat
  <2>1. f[i] \in KeyRings /\ KeyRingOK(f[i])
    BY <1>1 DEF GoodRings
  <2>2. Buffered(f[i]) \in Seq(Characters)
    BY <2>1, GetTakes
  <2>3. Len(Buffered(f[i])) = Filling(f[i]) /\ Filling(f[i]) \in 0..(c - 1)
    BY <2>1, BufferedIs
  <2>4. SubSeq(cs, 1, i) \in Seq(Characters)
    BY <1>2
  <2> QED BY <2>1, <2>2, <2>3, <2>4, CountType
<1>4. SubSeq(cs, 1, 0) = <<>> /\ C(0) = 0
  BY CountEmpty
<1>5. ASSUME NEW i \in 0..(n - 1)
      PROVE  C(i + 1) = C(i) + (IF cs[i + 1] \in S THEN 1 ELSE 0)
  <2>1. SubSeq(cs, 1, i) \in Seq(Characters) /\ i + 1 \in 1..n
    BY <1>2
  <2>2. SubSeq(cs, 1, i + 1) = Append(SubSeq(cs, 1, i), cs[i + 1])
    BY <1>2
  <2>3. cs[i + 1] \in Characters
    BY <1>2, <2>1
  <2>4. Count(Append(SubSeq(cs, 1, i), cs[i + 1]), S)
          = Count(SubSeq(cs, 1, i), S) + (IF cs[i + 1] \in S THEN 1 ELSE 0)
    BY <2>1, <2>3, CountAppend
  <2> QED BY <2>2, <2>4
<1>6. ASSUME NEW i \in 0..(n - 1)
      PROVE  /\ Filling(f[i]) < c - 1 => /\ Filling(f[i + 1]) = Filling(f[i]) + 1
                                         /\ B(i + 1) = B(i) + (IF cs[i + 1] \in S THEN 1 ELSE 0)
             /\ ~(Filling(f[i]) < c - 1) => B(i + 1) = B(i)
  <2>1. i \in 0..n /\ i + 1 \in 0..n /\ i + 1 \in 1..n /\ (i + 1) - 1 = i
    BY <1>2
  <2>2. f[i + 1] = buffer_put(f[i], cs[i + 1])
    BY <1>1, <2>1
  <2>3. Buffered(f[i + 1]) = IF Filling(f[i]) < c - 1 THEN Append(Buffered(f[i]), cs[i + 1])
                             ELSE Buffered(f[i])
    BY <1>2, <1>3, <2>1, <2>2, PutAppends
  <2>4. CASE Filling(f[i]) < c - 1
    <3>1. Buffered(f[i + 1]) = Append(Buffered(f[i]), cs[i + 1])
      BY <2>3, <2>4
    <3>2. Len(Buffered(f[i + 1])) = Len(Buffered(f[i])) + 1
      BY <1>3, <2>1, <3>1
    <3>3. B(i + 1) = B(i) + (IF cs[i + 1] \in S THEN 1 ELSE 0)
      BY <1>2, <1>3, <2>1, <3>1, CountAppend
    <3> QED BY <1>3, <2>1, <2>4, <3>2, <3>3
  <2> QED BY <2>3, <2>4
<1> HIDE DEF B, C
<1> DEFINE T == {i \in 0..n : /\ B(i) <= B(0) + C(i) /\ B(0) <= B(i)
                              /\ Filling(r) + i <= c - 1 =>
                                   B(i) = B(0) + C(i) /\ Filling(f[i]) = Filling(r) + i}
<1>7. 0 \in T
  BY <1>1, <1>2, <1>3, <1>4
<1>8. ASSUME NEW i \in 0..(n - 1), i \in T PROVE i + 1 \in T
  <2>1. i \in 0..n /\ i + 1 \in 0..n /\ 0 \in 0..n
    BY <1>2
  <2>2. /\ B(i) \in Nat /\ C(i) \in Nat /\ B(i + 1) \in Nat /\ C(i + 1) \in Nat /\ B(0) \in Nat
        /\ Filling(f[i]) \in 0..(c - 1) /\ Filling(r) \in 0..(c - 1)
    BY <1>1, <1>3, <2>1
  <2>3. /\ B(i) <= B(0) + C(i) /\ B(0) <= B(i)
        /\ Filling(r) + i <= c - 1 => B(i) = B(0) + C(i) /\ Filling(f[i]) = Filling(r) + i
    BY <1>8
  <2>4. B(i + 1) <= B(0) + C(i + 1) /\ B(0) <= B(i + 1)
    BY <1>5, <1>6, <2>2, <2>3
  <2>5. Filling(r) + (i + 1) <= c - 1 =>
          B(i + 1) = B(0) + C(i + 1) /\ Filling(f[i + 1]) = Filling(r) + (i + 1)
    BY <1>2, <1>5, <1>6, <2>2, <2>3
  <2> QED BY <2>1, <2>4, <2>5
<1>9. \A i \in 0..n : i \in T
  <2> HIDE DEF T
  <2> QED BY <1>2, <1>7, <1>8, UpToInduction
<1>10. /\ B(n) <= B(0) + C(n) /\ B(0) <= B(n)
       /\ Filling(r) + n <= c - 1 => B(n) = B(0) + C(n)
  BY <1>2, <1>9
<1>11. Fits(r, cs) => Filling(r) + n <= c - 1
  <2>1. /\ r \in KeyRings /\ r.read \in 0..(c - 1) /\ r.write \in 0..(c - 1)
    BY DEF KeyRingOK, KeyRings, Cells
  <2> DEFINE d == r.read - r.write - 1
  <2>2. CASE d >= 1 - c
    <3>1. d \in (1 - c)..(2 * c - 1)
      BY <1>2, <2>1, <2>2
    <3>2. d % c = IF d < 0 THEN d + c ELSE IF d < c THEN d ELSE d - c
      <4> HIDE DEF d
      <4> QED BY <1>2, <3>1, Remainders
    <3> QED BY <1>2, <2>1, <3>2 DEF Fits, Filling
  <2>3. CASE d < 1 - c
    <3>1. d = 0 - c /\ Filling(r) = c - 1
      BY <1>2, <2>1, <2>3 DEF Filling
    <3>2. (0 - c) % c = 0
      BY <1>2, SMT
    <3> QED BY <1>2, <3>1, <3>2 DEF Fits
  <2> QED BY <1>2, <2>1, <2>2, <2>3
<1>12. SubSeq(cs, 1, n) = cs
  OBVIOUS
<1>13. B(0) = Count(Buffered(r), S) /\ C(n) = Count(cs, S) /\ B(n) = Count(Buffered(buffer_puts(r, cs)), S)
  BY <1>1, <1>12 DEF B, C
<1>14. KeyRingOK(buffer_puts(r, cs))
  BY <1>1, <1>2, <1>3
<1> QED BY <1>10, <1>11, <1>13, <1>14

-----------------------------------------------------------------------------
(* The keyboard and the main loop.                                         *)

Holds == [shift : BOOLEAN, ctrl : BOOLEAN, alt : BOOLEAN]
Ports == [full : BOOLEAN, byte : Scancodes \union {None}]
Points == {"dispatch", "isr_data", "isr_raise", "shell", "getchar", "hlt"}
TwoHandlers == <<"kbd_isr", "kbd_process">>

\* Both handlers stay registered; kbd_isr reads the port only when there was a
\* byte in it; what is in key_buffer and what the shell got are characters.
KeyTypes ==
  /\ TypeOK
  /\ irq_table = [v \in Vectors |-> TwoHandlers]
  /\ typed \in Seq(Scancodes) /\ got \in Seq(Characters)
  /\ port \in Ports
  /\ port.full \/ pc = "isr_data" => port.byte # None
  /\ sc \in Scancodes \union {None}
  /\ pc = "isr_raise" <=> sc # None
  /\ held \in Holds
  /\ KeyRingOK(ring)
  /\ serial \in [sent : Nat, waiting : Nat]
  /\ pc \in Points

\* Events and their payloads.
LEMMA EventOf ==
  ASSUME KeySetUp, NEW x \in Scancodes \union {None}
  PROVE  Event(x) \in Events /\ Event(x).payload = x /\ Event(x).vec = 33
BY DEF KeySetUp, Event, Events

LEMMA PayloadOf ==
  ASSUME KeySetUp, NEW e \in Events
  PROVE  e.payload \in Scancodes \union {None} /\ e.vec = 33 /\ e = Event(e.payload)
BY DEF KeySetUp, Event, Events

\* Every step of the keyboard's is one of the interrupts', or leaves them alone.
LEMMA InterruptStep ==
  ASSUME KeySetUp, KeyTypes, [KNext]_kVars
  PROVE  [Next]_vars
<1>1. /\ port \in Ports /\ sc \in Scancodes \union {None}
      /\ {"kbd_isr", "kbd_process"} \subseteq Handlers
  BY DEF KeyTypes, KeySetUp
<1>2. CASE IrqTaken
  <2> DEFINE x == IF port.full THEN port.byte ELSE None
  <2>1. x \in Scancodes \union {None}
    BY <1>1 DEF Ports
  <2>2. irq_fifo' = fifo_push(irq_fifo, Event(x)) /\ UNCHANGED <<irq_table, evt, idx>>
    BY <1>2 DEF IrqTaken, Irq33
  <2> HIDE DEF x
  <2>3. interrupt_raise(Event(x)) /\ Event(x) \in Events
    BY <2>1, <2>2, EventOf DEF interrupt_raise
  <2> QED BY <2>3 DEF Next
<1>3. CASE Dispatch
  <2>1. Pop \/ UNCHANGED vars
    BY <1>3 DEF Dispatch
  <2> QED BY <2>1 DEF Next
<1>4. CASE IsrStatus
  <2>1. UNCHANGED vars \/ (Calls("kbd_isr") /\ UNCHANGED irq_fifo)
    BY <1>4 DEF IsrStatus, Calls, vars
  <2> QED BY <1>1, <2>1 DEF Next
<1>5. CASE IsrRaise
  <2>1. Calls("kbd_isr") /\ irq_fifo' = fifo_push(irq_fifo, Event(sc)) /\ Event(sc) \in Events
    BY <1>1, <1>5, EventOf DEF IsrRaise
  <2> QED BY <1>1, <2>1 DEF Next
<1>6. CASE kbd_process
  <2>1. Calls("kbd_process") /\ UNCHANGED irq_fifo
    BY <1>6 DEF kbd_process
  <2> QED BY <1>1, <2>1 DEF Next
<1>7. CASE DispatchEnds
  BY <1>7 DEF DispatchEnds, Next
<1>8. ASSUME NEW s \in Scancodes, KeyArrives(s) PROVE UNCHANGED vars
  BY <1>8 DEF KeyArrives
<1>9. CASE TimerTick \/ SerialArrives \/ IsrData \/ shell_readline_and_execute \/ keyboard_getchar
  BY <1>9 DEF TimerTick, SerialArrives, IsrData, shell_readline_and_execute, keyboard_getchar
<1>10. CASE UNCHANGED kVars
  BY <1>10 DEF kVars
<1> QED BY <1>2, <1>3, <1>4, <1>5, <1>6, <1>7, <1>8, <1>9, <1>10 DEF KNext, Main

\* The next handler is kbd_isr, then kbd_process.
LEMMA Dispatching ==
  ASSUME KeySetUp, KeyTypes
  PROVE  /\ MoreHandlers <=> evt # NoEvent /\ idx < 2
         /\ MoreHandlers /\ NextHandler = "kbd_isr" => idx = 0
         /\ MoreHandlers /\ NextHandler = "kbd_process" => idx = 1
         /\ idx \in Nat
<1>1. evt \in Events \union {NoEvent} /\ idx \in Nat /\ irq_table = [v \in Vectors |-> TwoHandlers]
  BY DEF KeyTypes, TypeOK
<1>2. evt # NoEvent => irq_table[evt.vec] = TwoHandlers
  BY <1>1, PayloadOf DEF KeySetUp
<1>3. Len(TwoHandlers) = 2 /\ TwoHandlers[1] = "kbd_isr" /\ TwoHandlers[2] = "kbd_process"
  BY DEF TwoHandlers
<1>4. MoreHandlers <=> evt # NoEvent /\ idx < 2
  BY <1>2, <1>3 DEF MoreHandlers
<1>5. MoreHandlers => idx \in {0, 1} /\ NextHandler = TwoHandlers[idx + 1]
  BY <1>1, <1>2, <1>4 DEF NextHandler
<1> QED BY <1>1, <1>3, <1>4, <1>5

\* What kbd_process puts.
LEMMA CharsOfIs ==
  ASSUME KeySetUp, NEW h \in Holds, NEW s \in Scancodes \union {None}
  PROVE  /\ CharsOf(h, s) \in Seq(Characters) /\ HeldAfter(h, s) \in Holds
         /\ \A i \in 1..Len(CharsOf(h, s)) : CharsOf(h, s)[i] # Serial
         /\ \A k \in Letters :
              /\ Count(CharsOf(h, s), CharsWith(k)) <= IF s = k THEN 1 ELSE 0
              /\ ~h.alt /\ s = k => Count(CharsOf(h, s), CharsWith(k)) = 1
<1>1. h.shift \in BOOLEAN /\ h.ctrl \in BOOLEAN /\ h.alt \in BOOLEAN
  BY DEF Holds
<1>2. HeldAfter(h, s) \in Holds
  BY <1>1 DEF HeldAfter, Holds
<1>3. /\ Caret \in Characters /\ Caret # Serial
      /\ \A x \in Keys, b \in BOOLEAN : Char(x, b) \in Characters /\ Char(x, b) # Serial
  BY DEF KeySetUp, Characters, Char, Caret, Serial
<1>4. \A k \in Letters, x \in Keys, b \in BOOLEAN :
        /\ Char(x, b) \in CharsWith(k) <=> x = k
        /\ Caret \notin CharsWith(k) /\ k \in Keys
  BY DEF KeySetUp, Char, Caret, CharsWith, Keys
<1>5. ASSUME NEW x \in Characters, NEW S PROVE Count(<<x>>, S) = IF x \in S THEN 1 ELSE 0
  <2>1. <<>> \in Seq(Characters) /\ <<x>> = Append(<<>>, x)
    OBVIOUS
  <2>2. Count(Append(<<>>, x), S) = Count(<<>>, S) + (IF x \in S THEN 1 ELSE 0)
    BY <2>1, CountAppend
  <2> QED BY <2>1, <2>2, CountEmpty
<1>6. ASSUME NEW x \in Characters, NEW y \in Characters, NEW S
      PROVE  Count(<<x, y>>, S) = (IF x \in S THEN 1 ELSE 0) + (IF y \in S THEN 1 ELSE 0)
  <2>1. <<x>> \in Seq(Characters) /\ <<x, y>> = Append(<<x>>, y)
    OBVIOUS
  <2>2. Count(Append(<<x>>, y), S) = Count(<<x>>, S) + (IF y \in S THEN 1 ELSE 0)
    BY <2>1, CountAppend
  <2> QED BY <1>5, <2>1, <2>2
<1>7. CASE s \notin Keys \/ (h.ctrl /\ s \notin Letters) \/ (~h.ctrl /\ h.alt)
  <2>1. CharsOf(h, s) = <<>>
    BY <1>7 DEF CharsOf
  <2>2. \A k \in Letters : s = k => h.alt
    BY <1>7 DEF Keys
  <2> QED BY <1>2, <2>1, <2>2, CountEmpty
<1>8. CASE s \in Keys /\ ~(h.ctrl /\ s \notin Letters) /\ ~(~h.ctrl /\ h.alt) /\ h.ctrl
  <2> DEFINE x == Caret
             y == Char(s, TRUE)
             cs == CharsOf(h, s)
  <2>1. cs = <<x, y>>
    BY <1>8 DEF CharsOf
  <2>2. x \in Characters /\ y \in Characters /\ x # Serial /\ y # Serial
    BY <1>3, <1>8
  <2>3. \A k \in Letters : x \notin CharsWith(k) /\ (y \in CharsWith(k) <=> s = k)
    BY <1>4, <1>8
  <2> HIDE DEF x, y, cs
  <2>4. ASSUME NEW k \in Letters
        PROVE  Count(cs, CharsWith(k)) = IF s = k THEN 1 ELSE 0
    <3>1. Count(<<x, y>>, CharsWith(k))
            = (IF x \in CharsWith(k) THEN 1 ELSE 0) + (IF y \in CharsWith(k) THEN 1 ELSE 0)
      BY <1>6, <2>2
    <3> QED BY <2>1, <2>3, <3>1
  <2>5. cs \in Seq(Characters) /\ Len(cs) = 2 /\ cs[1] # Serial /\ cs[2] # Serial
    BY <2>1, <2>2
  <2>6. \A i \in 1..Len(cs) : cs[i] # Serial
    BY <2>5
  <2> QED BY <1>2, <2>4, <2>5, <2>6 DEF cs
<1>9. CASE s \in Keys /\ ~(h.ctrl /\ s \notin Letters) /\ ~(~h.ctrl /\ h.alt) /\ ~h.ctrl
  <2>1. CharsOf(h, s) = <<Char(s, h.shift)>>
    BY <1>9 DEF CharsOf
  <2>2. Char(s, h.shift) \in Characters /\ Char(s, h.shift) # Serial
    BY <1>1, <1>3, <1>9
  <2>3. \A k \in Letters : Count(CharsOf(h, s), CharsWith(k)) = IF s = k THEN 1 ELSE 0
    BY <1>1, <1>4, <1>5, <1>9, <2>1, <2>2
  <2> QED BY <1>2, <2>1, <2>2, <2>3
<1> QED BY <1>7, <1>8, <1>9

\* What the serial line has are serial characters.
LEMMA SerialCharsAre ==
  ASSUME KeySetUp, KeyTypes
  PROVE  /\ SerialChars \in Seq(Characters)
         /\ \A i \in 1..Len(SerialChars) : SerialChars[i] = Serial
         /\ \A k \in Letters : Count(SerialChars, CharsWith(k)) = 0
<1>1. serial.waiting \in Nat /\ Serial \in Characters
  BY DEF KeyTypes, Serial, Char, Characters
<1>2. /\ SerialChars \in Seq(Characters) /\ Len(SerialChars) = serial.waiting
      /\ \A i \in 1..Len(SerialChars) : SerialChars[i] = Serial
  BY <1>1 DEF SerialChars
<1>3. ASSUME NEW k \in Letters PROVE Count(SerialChars, CharsWith(k)) = 0
  <2>1. Serial \notin CharsWith(k)
    BY DEF KeySetUp, Keys, CharsWith, Serial, Char
  <2>2. {i \in 1..Len(SerialChars) : SerialChars[i] \in CharsWith(k)} = {}
    BY <1>2, <2>1
  <2> QED BY <2>2, FS_EmptySet DEF Count
<1> QED BY <1>2, <1>3

LEMMA NoneIsNoKey ==
  ASSUME KeySetUp
  PROVE  None \notin Scancodes
BY DEF KeySetUp, Scancodes, Modifiers, None

\* Taking a character moves it from the buffer to the shell.
LEMMA TakesOne ==
  ASSUME KeySetUp, NEW r, KeyRingOK(r), got \in Seq(Characters), Takes(r)
  PROVE  /\ KeyRingOK(ring') /\ got' \in Seq(Characters)
         /\ \A S : Count(Buffered(ring'), S) + Count(got', S) = Count(Buffered(r), S) + Count(got, S)
<1>1. Buffered(r) \in Seq(Characters) /\ (Empty(r) <=> Buffered(r) = <<>>)
  BY GetTakes
<1>2. CASE Empty(r)
  BY <1>2 DEF Takes, Drained
<1>3. CASE ~Empty(r)
  <2> DEFINE b == Buffered(r)
             x == buffer_get(r)
  <2>1. x = Head(b) /\ x \in Characters /\ KeyRingOK(Drained(r)) /\ Buffered(Drained(r)) = Tail(b)
    BY <1>3, GetTakes
  <2>2. got' = Append(got, x) /\ ring' = Drained(r)
    BY <1>3 DEF Takes
  <2>3. b \in Seq(Characters) /\ b # <<>> /\ Tail(b) \in Seq(Characters)
    BY <1>1, <1>3
  <2> HIDE DEF b, x
  <2>4. ASSUME NEW S
        PROVE  Count(Buffered(ring'), S) + Count(got', S) = Count(b, S) + Count(got, S)
    <3>1. Count(b, S) = Count(Tail(b), S) + (IF Head(b) \in S THEN 1 ELSE 0)
      BY <2>3, CountTail
    <3>2. Count(got', S) = Count(got, S) + (IF x \in S THEN 1 ELSE 0)
      BY <2>1, <2>2, CountAppend
    <3>3. Count(Tail(b), S) \in Nat /\ Count(got, S) \in Nat
      BY <2>3, CountType
    <3>4. Count(Buffered(ring'), S) = Count(Tail(b), S)
      BY <2>1, <2>2
    <3> QED BY <2>1, <3>1, <3>2, <3>3, <3>4
  <2>5. got' \in Seq(Characters) /\ KeyRingOK(ring')
    BY <2>1, <2>2
  <2> QED BY <2>4, <2>5 DEF b
<1> QED BY <1>2, <1>3

\* What the serial line has goes into the buffer, and is no letter.
LEMMA PollsSerial ==
  ASSUME KeySetUp, KeyTypes
  PROVE  /\ KeyRingOK(Polled)
         /\ \A k \in Letters :
              Count(Buffered(Polled), CharsWith(k)) = Count(Buffered(ring), CharsWith(k))
<1>1. /\ SerialChars \in Seq(Characters) /\ KeyRingOK(ring)
      /\ \A k \in Letters : Count(SerialChars, CharsWith(k)) = 0
  BY SerialCharsAre DEF KeyTypes
<1>2. KeyRingOK(Polled)
  BY <1>1, PutsCount DEF Polled
<1>3. ASSUME NEW k \in Letters
      PROVE  Count(Buffered(Polled), CharsWith(k)) = Count(Buffered(ring), CharsWith(k))
  <2> DEFINE a == Count(Buffered(Polled), CharsWith(k))
             b == Count(Buffered(ring), CharsWith(k))
  <2>1. a <= b + Count(SerialChars, CharsWith(k)) /\ b <= a
    BY <1>1, PutsCount DEF Polled
  <2>2. a \in Nat /\ b \in Nat
    BY <1>1, <1>2, GetTakes, CountType
  <2> HIDE DEF a, b
  <2>3. a = b
    BY <1>1, <2>1, <2>2
  <2> QED BY <2>3 DEF a, b
<1> QED BY <1>2, <1>3

\* Every step of the keyboard keeps the types.
LEMMA KeyTypesStep ==
  ASSUME KeySetUp, KeyTypes, [KNext]_kVars
  PROVE  KeyTypes'
<1>1. /\ TypeOK /\ irq_table = [v \in Vectors |-> TwoHandlers]
      /\ typed \in Seq(Scancodes) /\ got \in Seq(Characters)
      /\ port \in Ports /\ (port.full \/ pc = "isr_data" => port.byte # None)
      /\ sc \in Scancodes \union {None} /\ (pc = "isr_raise" <=> sc # None)
      /\ held \in Holds /\ KeyRingOK(ring)
      /\ serial \in [sent : Nat, waiting : Nat] /\ pc \in Points
  BY DEF KeyTypes
<1>2. TypeOK'
  BY <1>1, InterruptStep, StepType
<1>3. SUFFICES
      /\ irq_table' = irq_table
      /\ typed' \in Seq(Scancodes) /\ got' \in Seq(Characters)
      /\ port' \in Ports /\ (port'.full \/ pc' = "isr_data" => port'.byte # None)
      /\ sc' \in Scancodes \union {None} /\ (pc' = "isr_raise" <=> sc' # None)
      /\ held' \in Holds /\ KeyRingOK(ring')
      /\ serial' \in [sent : Nat, waiting : Nat] /\ pc' \in Points
  BY <1>1, <1>2 DEF KeyTypes
<1>4. None \notin Scancodes
  BY NoneIsNoKey
<1>5. ASSUME NEW s \in Scancodes, KeyArrives(s) PROVE <1>3!1
  <2>1. typed' = Append(typed, s) /\ port' = [full |-> TRUE, byte |-> s]
        /\ UNCHANGED <<irq_table, sc, serial, held, ring, pc, got>>
    BY <1>5 DEF KeyArrives, vars
  <2>2. port' \in Ports /\ port'.byte # None
    BY <1>4, <2>1 DEF Ports
  <2> QED BY <1>1, <2>1, <2>2
<1>6. CASE IrqTaken
  <2>1. port' = [port EXCEPT !.full = FALSE] /\ pc' = (IF pc = "hlt" THEN "dispatch" ELSE pc)
        /\ UNCHANGED <<irq_table, typed, sc, serial, held, ring, got>>
    BY <1>6 DEF IrqTaken, Irq33
  <2>2. port' \in Ports /\ ~port'.full /\ port'.byte = port.byte
    BY <1>1, <2>1 DEF Ports
  <2>3. pc' \in Points
    BY <1>1, <2>1 DEF Points
  <2> QED BY <1>1, <2>1, <2>2, <2>3
<1>7. CASE TimerTick
  BY <1>1, <1>7 DEF TimerTick, Points, vars
<1>8. CASE SerialArrives
  <2>1. serial' = [sent |-> serial.sent + 1, waiting |-> serial.waiting + 1]
        /\ UNCHANGED <<irq_table, typed, port, sc, held, ring, pc, got>>
    BY <1>8 DEF SerialArrives, vars
  <2>2. serial' \in [sent : Nat, waiting : Nat]
    BY <1>1, <2>1
  <2> QED BY <1>1, <2>1, <2>2
<1>9. CASE Dispatch
  <2>1. UNCHANGED <<irq_table, typed, port, serial, held, ring, got, sc>>
        /\ (pc = "dispatch" /\ pc' \in {"dispatch", "shell"})
    BY <1>9 DEF Dispatch, MainOnly, Pop, vars
  <2> QED BY <1>1, <2>1 DEF Points
<1>10. CASE IsrStatus
  <2>1. UNCHANGED <<irq_table, typed, port, serial, held, ring, got, sc>>
        /\ sc = None /\ pc' \in {"dispatch", "isr_data"} /\ (pc' = "isr_data" => port.full)
    BY <1>10 DEF IsrStatus, MainOnly
  <2> QED BY <1>1, <2>1 DEF Points
<1>11. CASE IsrData
  <2>1. sc' = port.byte /\ port' = [port EXCEPT !.full = FALSE] /\ pc' = "isr_raise" /\ pc = "isr_data"
        /\ UNCHANGED <<irq_table, typed, serial, held, ring, got>>
    BY <1>11 DEF IsrData, vars
  <2>2. port' \in Ports /\ ~port'.full /\ port.byte \in Scancodes \union {None}
    BY <1>1, <2>1 DEF Ports
  <2> QED BY <1>1, <2>1, <2>2 DEF Points
<1>12. CASE IsrRaise
  BY <1>1, <1>12 DEF IsrRaise, Calls, Points
<1>13. CASE kbd_process
  <2> DEFINE cs == CharsOf(held, evt.payload)
  <2>1. /\ held' = HeldAfter(held, evt.payload) /\ ring' = buffer_puts(ring, cs)
        /\ UNCHANGED <<irq_table, typed, port, serial, got, sc, pc>> /\ MoreHandlers
    BY <1>13 DEF kbd_process, Calls
  <2>2. evt.payload \in Scancodes \union {None}
    BY <1>1, <2>1, PayloadOf DEF MoreHandlers, TypeOK
  <2>3. cs \in Seq(Characters) /\ HeldAfter(held, evt.payload) \in Holds
    BY <1>1, <2>2, CharsOfIs
  <2> HIDE DEF cs
  <2>4. KeyRingOK(ring')
    BY <1>1, <2>1, <2>3, PutsCount
  <2> QED BY <1>1, <2>1, <2>3, <2>4
<1>14. CASE DispatchEnds
  BY <1>1, <1>14 DEF DispatchEnds, MainOnly, Finished
<1>15. CASE shell_readline_and_execute
  <2>1. /\ Takes(Polled) /\ serial' = [serial EXCEPT !.waiting = 0] /\ pc = "shell"
        /\ pc' \in {"dispatch", "hlt", "getchar"}
        /\ UNCHANGED <<irq_table, typed, port, held, sc>>
    BY <1>15 DEF shell_readline_and_execute, keyboard_poll, vars
  <2>2. serial' \in [sent : Nat, waiting : Nat]
    BY <1>1, <2>1
  <2>3. KeyRingOK(ring') /\ got' \in Seq(Characters)
    BY <1>1, <2>1, PollsSerial, TakesOne
  <2> QED BY <1>1, <2>1, <2>2, <2>3 DEF Points
<1>16. CASE keyboard_getchar
  <2>1. pc = "getchar" /\ UNCHANGED <<irq_table, typed, port, held, sc>>
    BY <1>16 DEF keyboard_getchar, vars
  <2>2. CASE Empty(ring)
    <3>1. ring' = Polled /\ serial' = [serial EXCEPT !.waiting = 0] /\ UNCHANGED <<pc, got>>
      BY <1>16, <2>2 DEF keyboard_getchar, keyboard_poll
    <3>2. serial' \in [sent : Nat, waiting : Nat]
      BY <1>1, <3>1
    <3>3. KeyRingOK(ring')
      BY <3>1, PollsSerial
    <3> QED BY <1>1, <2>1, <3>1, <3>2, <3>3
  <2>3. CASE ~Empty(ring)
    <3>1. Takes(ring) /\ pc' = "dispatch" /\ UNCHANGED serial
      BY <1>16, <2>3 DEF keyboard_getchar
    <3>2. KeyRingOK(ring') /\ got' \in Seq(Characters)
      BY <1>1, <3>1, TakesOne
    <3> QED BY <1>1, <2>1, <3>1, <3>2 DEF Points
  <2> QED BY <2>2, <2>3
<1>17. CASE UNCHANGED kVars
  BY <1>1, <1>17 DEF kVars, keyVars, vars
<1> QED BY <1>5, <1>6, <1>7, <1>8, <1>9, <1>10, <1>11, <1>12, <1>13, <1>14, <1>15, <1>16, <1>17
    DEF KNext, Main

\* Both handlers are called for every event.
LEMMA HandlersLeft ==
  ASSUME KeySetUp, NEW t, t = [v \in Vectors |-> TwoHandlers],
         NEW e \in Events \union {NoEvent}, NEW i \in Nat
  PROVE  (e # NoEvent /\ i < Len(t[e.vec])) <=> (e # NoEvent /\ i < 2)
<1>1. e # NoEvent => t[e.vec] = TwoHandlers
  BY PayloadOf DEF KeySetUp
<1>2. Len(TwoHandlers) = 2
  BY DEF TwoHandlers
<1> QED BY <1>1, <1>2

\* What a push and a pop do to the number of a key in the FIFO.
LEMMA PushCounts ==
  ASSUME KeySetUp, NEW f, RingOK(f), NEW x \in Scancodes \union {None}, NEW k \in Letters
  PROVE  Count(Contents(fifo_push(f, Event(x))), {Event(k)})
           = Count(Contents(f), {Event(k)}) + (IF x = k /\ ~fifo_is_full(f) THEN 1 ELSE 0)
<1> DEFINE e == Event(x)
           S == {Event(k)}
           c == Contents(f)
<1>1. k \in Scancodes \union {None}
  BY DEF Scancodes, Keys
<1>2. e \in Events /\ (e \in S <=> x = k)
  BY <1>1, EventOf
<1>3. c \in Seq(Events) /\ Len(c) = f.count
  BY ContentsSeq
<1>4. Contents(fifo_push(f, e)) = IF Len(c) < FIFO_CAPACITY THEN Append(c, e) ELSE c
  BY <1>2, PushAppends
<1>5. FIFO_CAPACITY \in Nat /\ f.count \in Nat
  BY InterruptAssumption DEF RingOK, Rings
<1>6. Len(c) < FIFO_CAPACITY <=> ~fifo_is_full(f)
  BY <1>3, <1>5 DEF fifo_is_full
<1> HIDE DEF e, S, c
<1>7. Count(Append(c, e), S) = Count(c, S) + (IF e \in S THEN 1 ELSE 0) /\ Count(c, S) \in Nat
  <2>1. Count(c, S) \in Nat
    BY <1>3, CountType
  <2>2. Count(Append(c, e), S) = Count(c, S) + (IF e \in S THEN 1 ELSE 0)
    BY <1>2, <1>3, CountAppend
  <2> QED BY <2>1, <2>2
<1>8. CASE fifo_is_full(f)
  BY <1>4, <1>6, <1>7, <1>8 DEF e, S, c
<1>9. CASE ~fifo_is_full(f)
  <2>1. Contents(fifo_push(f, e)) = Append(c, e)
    BY <1>4, <1>6, <1>9
  <2>2. Count(Contents(fifo_push(f, e)), S) = Count(c, S) + (IF x = k THEN 1 ELSE 0)
    BY <1>2, <1>7, <2>1
  <2> QED BY <1>9, <2>2 DEF e, S, c
<1> QED BY <1>8, <1>9

LEMMA PopCounts ==
  ASSUME KeySetUp, NEW f, RingOK(f), ~fifo_is_empty(f), NEW k \in Letters
  PROVE  Count(Contents(f), {Event(k)})
           = Count(Contents(fifo_popped(f)), {Event(k)})
               + (IF f.buf[f.head].payload = k THEN 1 ELSE 0)
<1> DEFINE e == f.buf[f.head]
           S == {Event(k)}
           c == Contents(f)
<1>1. /\ c # <<>> /\ e = Head(c) /\ e \in Events /\ Contents(fifo_popped(f)) = Tail(c)
  BY PopTakes
<1>2. c \in Seq(Events)
  BY ContentsSeq
<1>3. k \in Scancodes \union {None}
  BY DEF Scancodes, Keys
<1>4. e \in S <=> e.payload = k
  BY <1>1, <1>3, EventOf, PayloadOf
<1> HIDE DEF e, S, c
<1>5. Count(c, S) = Count(Tail(c), S) + (IF Head(c) \in S THEN 1 ELSE 0)
  BY <1>1, <1>2, CountTail
<1>6. Count(c, S) = Count(Tail(c), S) + (IF e.payload = k THEN 1 ELSE 0)
  BY <1>1, <1>4, <1>5
<1> QED BY <1>1, <1>6 DEF e, S, c

-----------------------------------------------------------------------------
(* The number of a letter's that are on their way.                         *)

\* A byte that irq_handler_c and kbd_isr can both still read.
Double(k) == IF port.byte = k /\ (port.full \/ pc = "isr_data") THEN 1 ELSE 0

LEMMA WayTypes ==
  ASSUME KeySetUp, KeyTypes, NEW k \in Letters
  PROVE  /\ InPort(k) \in {0, 1} /\ InIsr(k) \in {0, 1} /\ InDispatch(k) \in {0, 1}
         /\ Double(k) \in {0, 1}
         /\ InFifo(k) \in Nat /\ InBuffer(k) \in Nat /\ AtShell(k) \in Nat
         /\ Count(typed, {k}) \in Nat
<1>1. RingOK(irq_fifo) /\ KeyRingOK(ring) /\ typed \in Seq(Scancodes) /\ got \in Seq(Characters)
  BY RingOfType DEF KeyTypes
<1>2. Contents(irq_fifo) \in Seq(Events) /\ Buffered(ring) \in Seq(Characters)
  BY <1>1, ContentsSeq, GetTakes
<1>3. InFifo(k) \in Nat /\ InBuffer(k) \in Nat /\ AtShell(k) \in Nat /\ Count(typed, {k}) \in Nat
  BY <1>1, <1>2, CountType DEF InFifo, InBuffer, AtShell
<1> QED BY <1>3 DEF InPort, InIsr, InDispatch, Double

\* What is not touched keeps its number.
LEMMA Untouched ==
  ASSUME NEW k
  PROVE  /\ UNCHANGED port => InPort(k)' = InPort(k)
         /\ UNCHANGED sc => InIsr(k)' = InIsr(k)
         /\ UNCHANGED irq_fifo => InFifo(k)' = InFifo(k)
         /\ UNCHANGED <<evt, idx, irq_table>> => InDispatch(k)' = InDispatch(k)
         /\ UNCHANGED ring => InBuffer(k)' = InBuffer(k)
         /\ UNCHANGED got => AtShell(k)' = AtShell(k)
         /\ UNCHANGED <<port, pc>> => Double(k)' = Double(k)
         /\ UNCHANGED typed => Count(typed, {k})' = Count(typed, {k})
<1>1. UNCHANGED irq_fifo => InFifo(k)' = InFifo(k)
  BY DEF InFifo, Contents, Count
<1>2. UNCHANGED <<evt, idx, irq_table>> => InDispatch(k)' = InDispatch(k)
  BY DEF InDispatch, MoreHandlers
<1>3. UNCHANGED ring => InBuffer(k)' = InBuffer(k)
  BY DEF InBuffer, Buffered, Count
<1>4. (UNCHANGED got => AtShell(k)' = AtShell(k)) /\ (UNCHANGED typed => Count(typed, {k})' = Count(typed, {k}))
  BY DEF AtShell, Count
<1> QED BY <1>1, <1>2, <1>3, <1>4 DEF InPort, InIsr, Double

\* What is touched has the number of the new value.
LEMMA Touched ==
  ASSUME NEW k
  PROVE  /\ InFifo(k)' = Count(Contents(irq_fifo'), {Event(k)})
         /\ InBuffer(k)' = Count(Buffered(ring'), CharsWith(k))
         /\ AtShell(k)' = Count(got', CharsWith(k))
         /\ Count(typed, {k})' = Count(typed', {k})
BY DEF InFifo, InBuffer, AtShell

LEMMA DispatchedNext ==
  ASSUME KeySetUp, KeyTypes, [KNext]_kVars, NEW k
  PROVE  /\ InDispatch(k) = IF evt # NoEvent /\ idx < 2 /\ evt.payload = k THEN 1 ELSE 0
         /\ InDispatch(k)' = IF evt' # NoEvent /\ idx' < 2 /\ evt'.payload = k THEN 1 ELSE 0
<1>1. KeyTypes'
  BY KeyTypesStep
<1>2. irq_table = [v \in Vectors |-> TwoHandlers] /\ evt \in Events \union {NoEvent} /\ idx \in Nat
  BY DEF KeyTypes, TypeOK
<1>3. irq_table' = [v \in Vectors |-> TwoHandlers] /\ evt' \in Events \union {NoEvent} /\ idx' \in Nat
  BY <1>1 DEF KeyTypes, TypeOK
<1>4. MoreHandlers <=> evt # NoEvent /\ idx < 2
  BY <1>2, HandlersLeft DEF MoreHandlers
<1>5. (evt' # NoEvent /\ idx' < Len(irq_table'[evt'.vec])) <=> (evt' # NoEvent /\ idx' < 2)
  BY <1>3, HandlersLeft
<1>6. MoreHandlers' <=> evt' # NoEvent /\ idx' < 2
  BY <1>5 DEF MoreHandlers
<1> QED BY <1>4, <1>6 DEF InDispatch

\* Without Alt no letter is swallowed: it is not held, and not on its way.
AltTyped == "alt_down" \in Range(typed)
NoAlt ==
  \/ AltTyped
  \/ /\ ~held.alt /\ port.byte # "alt_down" /\ sc # "alt_down"
     /\ evt # NoEvent => evt.payload # "alt_down"
     /\ \A i \in 1..Len(Contents(irq_fifo)) : Contents(irq_fifo)[i].payload # "alt_down"

LEMMA RangeGrows ==
  ASSUME NEW s \in Seq(Scancodes), NEW x \in Scancodes
  PROVE  Range(Append(s, x)) = Range(s) \union {x}
<1>1. DOMAIN s = 1..Len(s) /\ DOMAIN Append(s, x) = 1..(Len(s) + 1) /\ Len(s) \in Nat
  OBVIOUS
<1>2. Append(s, x)[Len(s) + 1] = x /\ \A i \in 1..Len(s) : Append(s, x)[i] = s[i]
  OBVIOUS
<1>3. ASSUME NEW y \in Range(s) PROVE y \in Range(Append(s, x))
  <2>1. PICK i \in 1..Len(s) : y = s[i]
    BY <1>1 DEF Range
  <2>2. i \in 1..(Len(s) + 1)
    BY <1>1
  <2> QED BY <1>1, <1>2, <2>1, <2>2 DEF Range
<1>4. x \in Range(Append(s, x))
  <2>1. Len(s) + 1 \in 1..(Len(s) + 1)
    BY <1>1
  <2> QED BY <1>1, <1>2, <2>1 DEF Range
<1>5. ASSUME NEW y \in Range(Append(s, x)) PROVE y \in Range(s) \union {x}
  <2>1. PICK i \in 1..(Len(s) + 1) : y = Append(s, x)[i]
    BY <1>1 DEF Range
  <2>2. CASE i = Len(s) + 1
    BY <1>2, <2>1, <2>2
  <2>3. CASE i # Len(s) + 1
    <3>1. i \in 1..Len(s)
      BY <1>1, <2>3
    <3> QED BY <1>1, <1>2, <2>1, <3>1 DEF Range
  <2> QED BY <2>2, <2>3
<1> QED BY <1>3, <1>4, <1>5

\* The payloads in the FIFO after a push and a pop.
NoAltIn(f) == \A i \in 1..Len(Contents(f)) : Contents(f)[i].payload # "alt_down"

LEMMA PushNoAlt ==
  ASSUME KeySetUp, NEW f, RingOK(f), NoAltIn(f),
         NEW x \in Scancodes \union {None}, x # "alt_down"
  PROVE  NoAltIn(fifo_push(f, Event(x)))
<1> DEFINE e == Event(x)
           c == Contents(f)
<1>1. e \in Events /\ e.payload # "alt_down"
  BY EventOf
<1>2. c \in Seq(Events) /\ \A i \in 1..Len(c) : c[i].payload # "alt_down"
  BY ContentsSeq DEF NoAltIn
<1>3. Contents(fifo_push(f, e)) \in {Append(c, e), c}
  BY <1>1, PushAppends
<1> HIDE DEF e, c
<1>4. ASSUME NEW i \in 1..Len(Append(c, e)) PROVE Append(c, e)[i].payload # "alt_down"
  BY <1>1, <1>2
<1>5. CASE Contents(fifo_push(f, e)) = Append(c, e)
  BY <1>4, <1>5 DEF NoAltIn, e
<1>6. CASE Contents(fifo_push(f, e)) = c
  BY <1>2, <1>6 DEF NoAltIn, e
<1> QED BY <1>3, <1>5, <1>6

LEMMA PopNoAlt ==
  ASSUME NEW f, RingOK(f), NoAltIn(f), ~fifo_is_empty(f)
  PROVE  NoAltIn(fifo_popped(f)) /\ f.buf[f.head].payload # "alt_down"
<1> DEFINE c == Contents(f)
           d == Contents(fifo_popped(f))
           e == f.buf[f.head]
<1>1. c # <<>> /\ e = Head(c) /\ d = Tail(c)
  BY PopTakes
<1>2. c \in Seq(Events) /\ \A i \in 1..Len(c) : c[i].payload # "alt_down"
  BY ContentsSeq DEF NoAltIn
<1> HIDE DEF c, d, e
<1>3. e = c[1] /\ 1 \in 1..Len(c)
  BY <1>1, <1>2
<1>4. \A i \in 1..Len(d) : i + 1 \in 1..Len(c) /\ d[i] = c[i + 1]
  BY <1>1, <1>2
<1>5. e.payload # "alt_down" /\ \A i \in 1..Len(d) : d[i].payload # "alt_down"
  BY <1>2, <1>3, <1>4
<1> QED BY <1>5 DEF NoAltIn, d, e

\* Every step keeps NoAlt: an Alt in the FIFO or held was typed.
LEMMA NoAltStep ==
  ASSUME KeySetUp, KeyTypes, NoAlt, [KNext]_kVars
  PROVE  NoAlt'
<1>1. /\ RingOK(irq_fifo) /\ typed \in Seq(Scancodes) /\ port \in Ports
      /\ sc \in Scancodes \union {None} /\ held \in Holds
      /\ evt \in Events \union {NoEvent} /\ NoEvent \notin Events
  BY RingOfType, InterruptAssumption DEF KeyTypes, TypeOK
<1>2. AltTyped => AltTyped'
  <2>1. ASSUME NEW s \in Scancodes, KeyArrives(s), AltTyped PROVE AltTyped'
    <3>1. Range(typed') = Range(typed) \union {s}
      BY <1>1, <2>1, RangeGrows DEF KeyArrives
    <3> QED BY <2>1, <3>1 DEF AltTyped, Range
  <2>2. (\E s \in Scancodes : KeyArrives(s)) \/ UNCHANGED typed
    BY DEF KNext, IrqTaken, TimerTick, SerialArrives, Main, Dispatch, IsrStatus, IsrData, IsrRaise,
           kbd_process, DispatchEnds, shell_readline_and_execute, keyboard_getchar, MainOnly,
           kVars, keyVars
  <2> QED BY <2>1, <2>2 DEF AltTyped, Range
<1> SUFFICES ASSUME ~AltTyped' PROVE NoAlt'
  BY DEF NoAlt
<1>3. /\ ~held.alt /\ port.byte # "alt_down" /\ sc # "alt_down"
      /\ evt # NoEvent => evt.payload # "alt_down"
      /\ NoAltIn(irq_fifo)
  BY <1>2 DEF NoAlt, NoAltIn
<1>4. SUFFICES /\ ~held'.alt /\ port'.byte # "alt_down" /\ sc' # "alt_down"
               /\ evt' # NoEvent => evt'.payload # "alt_down"
               /\ NoAltIn(irq_fifo')
  BY DEF NoAlt, NoAltIn
<1>5. ASSUME NEW s \in Scancodes, KeyArrives(s) PROVE <1>4!1
  <2>1. Range(typed') = Range(typed) \union {s}
    BY <1>1, <1>5, RangeGrows DEF KeyArrives
  <2>2. s # "alt_down"
    BY <2>1 DEF AltTyped, Range
  <2> QED BY <1>3, <1>5, <2>2 DEF KeyArrives, vars
<1>6. CASE IrqTaken
  <2> DEFINE x == IF port.full THEN port.byte ELSE None
  <2>1. x \in Scancodes \union {None} /\ x # "alt_down"
    BY <1>1, <1>3 DEF Ports, None
  <2>2. /\ irq_fifo' = fifo_push(irq_fifo, Event(x)) /\ UNCHANGED <<evt, sc, held>>
        /\ port' = [port EXCEPT !.full = FALSE]
    BY <1>6 DEF IrqTaken, Irq33
  <2> HIDE DEF x
  <2>3. NoAltIn(irq_fifo')
    BY <1>1, <1>3, <2>1, <2>2, PushNoAlt
  <2>4. port'.byte = port.byte
    BY <1>1, <2>2 DEF Ports
  <2> QED BY <1>3, <2>2, <2>3, <2>4
<1>7. CASE Dispatch
  <2>1. UNCHANGED <<port, held, sc>>
    BY <1>7 DEF Dispatch, MainOnly
  <2>2. CASE Pop
    <3>1. /\ ~fifo_is_empty(irq_fifo) /\ evt' = irq_fifo.buf[irq_fifo.head]
          /\ irq_fifo' = fifo_popped(irq_fifo)
      BY <2>2 DEF Pop
    <3>2. NoAltIn(irq_fifo') /\ evt'.payload # "alt_down"
      BY <1>1, <1>3, <3>1, PopNoAlt
    <3> QED BY <1>3, <2>1, <3>2
  <2>3. CASE UNCHANGED vars
    BY <1>3, <2>1, <2>3 DEF vars
  <2> QED BY <1>7, <2>2, <2>3 DEF Dispatch
<1>8. CASE IsrStatus
  BY <1>3, <1>8 DEF IsrStatus, MainOnly
<1>9. CASE IsrData
  <2>1. sc' = port.byte /\ port' = [port EXCEPT !.full = FALSE] /\ UNCHANGED <<irq_fifo, evt, held>>
    BY <1>9 DEF IsrData, vars
  <2>2. port'.byte = port.byte
    BY <1>1, <2>1 DEF Ports
  <2> QED BY <1>3, <2>1, <2>2
<1>10. CASE IsrRaise
  <2>1. irq_fifo' = fifo_push(irq_fifo, Event(sc)) /\ sc' = None /\ UNCHANGED <<evt, held, port>>
    BY <1>10 DEF IsrRaise, Calls
  <2>2. NoAltIn(irq_fifo')
    BY <1>1, <1>3, <2>1, PushNoAlt
  <2> QED BY <1>3, <2>1, <2>2 DEF None
<1>11. CASE kbd_process
  <2>1. held' = HeldAfter(held, evt.payload) /\ UNCHANGED <<irq_fifo, evt, port, sc>> /\ evt # NoEvent
    BY <1>11 DEF kbd_process, Calls, MoreHandlers
  <2>2. held'.alt = IF evt.payload \in {"alt_down", "alt_up"} THEN evt.payload = "alt_down" ELSE held.alt
    BY <2>1 DEF HeldAfter
  <2> QED BY <1>3, <2>1, <2>2
<1>12. CASE DispatchEnds
  BY <1>3, <1>12 DEF DispatchEnds, MainOnly, Finished
<1>13. CASE TimerTick \/ SerialArrives \/ shell_readline_and_execute \/ keyboard_getchar \/ UNCHANGED kVars
  <2>1. UNCHANGED <<irq_fifo, evt, port, sc, held>>
    BY <1>13 DEF TimerTick, SerialArrives, shell_readline_and_execute, keyboard_getchar, kVars, keyVars, vars
  <2> QED BY <1>3, <2>1
<1> QED BY <1>5, <1>6, <1>7, <1>8, <1>9, <1>10, <1>11, <1>12, <1>13 DEF KNext, Main

\* As often as a letter was typed, and once more for every time both handlers
\* have read it or can still read it.
Counted(k) ==
  /\ Underway(k) + Double(k) <= 2 * Count(typed, {k})
  /\ lost \/ full \/ AltTyped \/ Underway(k) >= Count(typed, {k})

\* Every step keeps the count of a letter: what leaves one place
\* enters the next.
LEMMA CountedStep ==
  ASSUME KeySetUp, KeyTypes, NoAlt, [KNext]_kVars, NEW k \in Letters, Counted(k)
  PROVE  Counted(k)'
<1> DEFINE p == InPort(k)
           i == InIsr(k)
           f == InFifo(k)
           d == InDispatch(k)
           b == InBuffer(k)
           g == AtShell(k)
           z == Double(k)
           n == Count(typed, {k})
<1>1. /\ RingOK(irq_fifo) /\ typed \in Seq(Scancodes) /\ port \in Ports
      /\ sc \in Scancodes \union {None} /\ held \in Holds /\ KeyRingOK(ring)
      /\ evt \in Events \union {NoEvent} /\ NoEvent \notin Events /\ got \in Seq(Characters)
      /\ k \in Scancodes /\ k # None /\ (pc = "isr_raise" <=> sc # None)
  BY RingOfType, InterruptAssumption, NoneIsNoKey DEF KeyTypes, TypeOK, Scancodes, Keys
<1>2. /\ p \in {0, 1} /\ i \in {0, 1} /\ d \in {0, 1} /\ z \in {0, 1}
      /\ f \in Nat /\ b \in Nat /\ g \in Nat /\ n \in Nat
  BY WayTypes
<1>3. /\ d = (IF evt # NoEvent /\ idx < 2 /\ evt.payload = k THEN 1 ELSE 0)
      /\ d' = (IF evt' # NoEvent /\ idx' < 2 /\ evt'.payload = k THEN 1 ELSE 0)
  BY DispatchedNext
<1>4. /\ p \in Nat /\ i \in Nat /\ f \in Nat /\ d \in Nat
       /\ b \in Nat /\ g \in Nat /\ z \in Nat /\ n \in Nat
  BY <1>2
<1>5. p + i + f + d + b + g + z <= 2 * n
  BY DEF Counted, Underway
<1>6. /\ p + i + f + d + b + g + z <= 2 * n
      /\ lost \/ full \/ AltTyped \/ p + i + f + d + b + g >= n
  BY DEF Counted, Underway
<1>7. SUFFICES /\ p' + i' + f' + d' + b' + g' + z' <= 2 * n'
               /\ lost' \/ full' \/ AltTyped' \/ p' + i' + f' + d' + b' + g' >= n'
  BY DEF Counted, Underway
<1>8. UNCHANGED typed => (AltTyped => AltTyped')
  BY DEF AltTyped, Range
<1>9. /\ UNCHANGED port => p' = p
      /\ UNCHANGED sc => i' = i
      /\ UNCHANGED irq_fifo => f' = f
      /\ UNCHANGED ring => b' = b
      /\ UNCHANGED got => g' = g
      /\ UNCHANGED <<port, pc>> => z' = z
      /\ UNCHANGED typed => n' = n
  BY Untouched
<1>10. /\ f' = Count(Contents(irq_fifo'), {Event(k)})
      /\ b' = Count(Buffered(ring'), CharsWith(k))
      /\ g' = Count(got', CharsWith(k))
      /\ n' = Count(typed', {k})
  BY Touched
<1>11. f = Count(Contents(irq_fifo), {Event(k)}) /\ b = Count(Buffered(ring), CharsWith(k))
      /\ g = Count(got, CharsWith(k))
  BY DEF InFifo, InBuffer, AtShell
<1>12. /\ p = (IF port.full /\ port.byte = k THEN 1 ELSE 0) /\ i = (IF sc = k THEN 1 ELSE 0)
       /\ z = (IF port.byte = k /\ (port.full \/ pc = "isr_data") THEN 1 ELSE 0)
       /\ p' = (IF port'.full /\ port'.byte = k THEN 1 ELSE 0) /\ i' = (IF sc' = k THEN 1 ELSE 0)
       /\ z' = (IF port'.byte = k /\ (port'.full \/ pc' = "isr_data") THEN 1 ELSE 0)
  BY DEF InPort, InIsr, Double
<1> HIDE DEF p, i, f, d, b, g, z, n
<1>13. ASSUME NEW s \in Scancodes, KeyArrives(s) PROVE <1>7!1
  <2>1. /\ ~port.full /\ typed' = Append(typed, s) /\ port' = [full |-> TRUE, byte |-> s]
        /\ UNCHANGED <<irq_fifo, evt, idx, sc, ring, pc, got, lost, full>>
    BY <1>13 DEF KeyArrives, vars
  <2>2. n' = n + (IF s = k THEN 1 ELSE 0)
    <3>1. Count(Append(typed, s), {k}) = Count(typed, {k}) + (IF s \in {k} THEN 1 ELSE 0)
      BY <1>1, CountAppend
    <3> QED BY <1>10, <2>1, <3>1 DEF n
  <2>3. AltTyped => AltTyped'
    <3>1. Range(typed') = Range(typed) \union {s}
      BY <1>1, <2>1, RangeGrows
    <3> QED BY <3>1 DEF AltTyped, Range
  <2>4. i' = i /\ f' = f /\ d' = d /\ b' = b /\ g' = g
    BY <1>3, <1>9, <2>1
  <2>5. p = 0 /\ p' = (IF s = k THEN 1 ELSE 0) /\ z' = (IF s = k THEN 1 ELSE 0)
    BY <1>12, <2>1
  <2> QED BY <1>2, <1>6, <2>1, <2>2, <2>3, <2>4, <2>5
<1>14. CASE IrqTaken
  <2> DEFINE x == IF port.full THEN port.byte ELSE None
             e == IF x = k /\ ~fifo_is_full(irq_fifo) THEN 1 ELSE 0
  <2>1. x \in Scancodes \union {None} /\ (x = k <=> p = 1)
    BY <1>1, <1>12 DEF Ports
  <2>2. /\ irq_fifo' = fifo_push(irq_fifo, Event(x)) /\ UNCHANGED <<evt, idx, sc, ring, got, typed, full>>
        /\ port' = [port EXCEPT !.full = FALSE] /\ pc' = (IF pc = "hlt" THEN "dispatch" ELSE pc)
        /\ lost' = (lost \/ (fifo_is_full(irq_fifo) /\ Event(x).payload # None))
    BY <1>14 DEF IrqTaken, Irq33
  <2>3. Event(x).payload = x
    BY <2>1, EventOf
  <2> HIDE DEF x
  <2>4. f' = f + e
    BY <1>1, <1>10, <1>11, <2>1, <2>2, PushCounts
  <2>5. p' = 0 /\ z' <= z /\ z' \in {0, 1}
    BY <1>1, <1>12, <2>2 DEF Ports
  <2>6. i' = i /\ d' = d /\ b' = b /\ g' = g /\ n' = n
    BY <1>3, <1>9, <2>2
  <2>7. (lost => lost') /\ (p = 1 /\ fifo_is_full(irq_fifo) => lost')
    <3>1. p = 1 => Event(x).payload # None
      BY <1>1, <2>1, <2>3
    <3> QED BY <2>2, <3>1, Zenon
  <2>8. (p = 1 /\ ~fifo_is_full(irq_fifo) => e = 1) /\ (p = 0 => e = 0) /\ e \in {0, 1}
    BY <2>1
  <2> HIDE DEF e
  <2> QED BY <1>2, <1>6, <1>8, <2>2, <2>4, <2>5, <2>6, <2>7, <2>8
<1>15. CASE Dispatch
  <2>1. UNCHANGED <<port, sc, ring, got, typed, lost, full>> /\ pc = "dispatch"
        /\ pc' \in {"dispatch", "shell"}
    BY <1>15 DEF Dispatch, MainOnly
  <2>2. p' = p /\ i' = i /\ b' = b /\ g' = g /\ n' = n /\ z' = z
    BY <1>9, <1>12, <2>1
  <2>3. f' + d' = f + d /\ f' \in Nat
    <3>1. CASE Pop
      <4>1. /\ evt = NoEvent /\ ~fifo_is_empty(irq_fifo) /\ evt' = irq_fifo.buf[irq_fifo.head]
            /\ irq_fifo' = fifo_popped(irq_fifo) /\ idx' = 0
        BY <3>1 DEF Pop
      <4>2. evt' # NoEvent
        BY <1>1, <4>1, PopTakes
      <4>3. f = f' + (IF evt'.payload = k THEN 1 ELSE 0)
        BY <1>1, <1>10, <1>11, <4>1, PopCounts
      <4>4. d = 0 /\ d' = (IF evt'.payload = k THEN 1 ELSE 0)
        BY <1>3, <4>1, <4>2
      <4>5. f' \in Nat
        <5>1. RingOK(irq_fifo')
          BY <1>1, <4>1, PopTakes
        <5>2. Contents(irq_fifo') \in Seq(Events)
          BY <5>1, ContentsSeq
        <5> QED BY <1>10, <5>2, CountType
      <4> QED BY <1>2, <4>3, <4>4, <4>5
    <3>2. CASE UNCHANGED vars
      <4>1. f' = f /\ d' = d
        BY <1>3, <1>9, <3>2 DEF vars
      <4> QED BY <1>2, <4>1
    <3> QED BY <1>15, <3>1, <3>2 DEF Dispatch
  <2>4. d' \in Nat
    BY <1>3
  <2>5. (lost => lost') /\ (full => full') /\ (AltTyped => AltTyped')
    BY <1>8, <2>1
  <2>6. p' + i' + f' + d' + b' + g' = p + i + f' + d' + b + g
    BY <2>2
  <2>7. p + i + f' + d' + b + g = p + i + f + d + b + g
    <3>1. PICK x \in Nat, y \in Nat : x = f' /\ y = d'
      BY <2>3, <2>4
    <3>2. x + y = f + d
      BY <2>3, <3>1
    <3>3. p + i + x + y + b + g = p + i + f + d + b + g
      BY <1>4, <3>2
    <3> QED BY <3>1, <3>3
  <2>8. p' + i' + f' + d' + b' + g' + z' <= 2 * n'
    BY <1>5, <2>2, <2>6, <2>7
  <2>9. p' + i' + f' + d' + b' + g' >= n' <=> p + i + f + d + b + g >= n
    BY <2>2, <2>6, <2>7
  <2> QED BY <1>6, <2>8, <2>9, <2>5
<1>16. CASE IsrStatus
  <2>1. /\ UNCHANGED <<port, sc, ring, got, typed, lost, full, irq_fifo, evt>>
        /\ MoreHandlers /\ NextHandler = "kbd_isr" /\ pc = "dispatch"
        /\ (pc' = "isr_data" /\ port.full /\ idx' = idx) \/ (pc' = pc /\ idx' = idx + 1)
    BY <1>16 DEF IsrStatus, MainOnly
  <2>2. idx = 0
    BY <2>1, Dispatching
  <2>3. p' = p /\ i' = i /\ b' = b /\ g' = g /\ n' = n /\ f' = f
    BY <1>9, <2>1
  <2>4. d' = d
    BY <1>3, <2>1, <2>2
  <2>5. z' = z
    BY <1>12, <2>1
  <2> QED BY <1>6, <1>8, <2>1, <2>3, <2>4, <2>5
<1>17. CASE IsrData
  <2>1. /\ sc' = port.byte /\ port' = [port EXCEPT !.full = FALSE] /\ pc = "isr_data" /\ pc' = "isr_raise"
        /\ UNCHANGED <<irq_fifo, evt, idx, ring, got, typed, lost, full>>
    BY <1>17 DEF IsrData, vars
  <2>2. ~port'.full /\ port'.byte = port.byte
    BY <1>1, <2>1 DEF Ports
  <2>3. i = 0 /\ i' = z /\ p' = 0 /\ z' = 0 /\ p <= z
    BY <1>1, <1>12, <2>1, <2>2
  <2>4. b' = b /\ g' = g /\ n' = n /\ f' = f /\ d' = d
    BY <1>3, <1>9, <2>1
  <2> QED BY <1>2, <1>6, <1>8, <2>1, <2>3, <2>4
<1>18. CASE IsrRaise
  <2> DEFINE e == IF sc = k /\ ~fifo_is_full(irq_fifo) THEN 1 ELSE 0
  <2>1. /\ irq_fifo' = fifo_push(irq_fifo, Event(sc)) /\ sc' = None /\ pc = "isr_raise" /\ pc' = "dispatch"
        /\ UNCHANGED <<evt, port, ring, got, typed, full>> /\ idx' = idx + 1
        /\ MoreHandlers /\ NextHandler = "kbd_isr" /\ lost' = (lost \/ fifo_is_full(irq_fifo))
    BY <1>18 DEF IsrRaise, Calls
  <2>2. idx = 0
    BY <2>1, Dispatching
  <2>3. d' = d
    BY <1>3, <2>1, <2>2
  <2>4. p' = p /\ b' = b /\ g' = g /\ n' = n
    BY <1>9, <2>1
  <2>5. z' = z /\ i' = 0
    BY <1>1, <1>12, <2>1
  <2>6. f' = f + e
    BY <1>1, <1>10, <1>11, <2>1, PushCounts
  <2>7. e <= i /\ e \in {0, 1} /\ (~fifo_is_full(irq_fifo) => e = i)
    BY <1>12
  <2>8. (lost => lost') /\ (fifo_is_full(irq_fifo) => lost') /\ (full => full')
    BY <2>1, Zenon
  <2>9. AltTyped => AltTyped'
    BY <1>8, <2>1
  <2> HIDE DEF e
  <2> QED BY <1>2, <1>6, <2>3, <2>4, <2>5, <2>6, <2>7, <2>8, <2>9
<1>19. CASE kbd_process
  <2> DEFINE s == evt.payload
             cs == CharsOf(held, s)
             e == Count(cs, CharsWith(k))
  <2>1. /\ ring' = buffer_puts(ring, cs) /\ full' = (full \/ ~Fits(ring, cs))
        /\ UNCHANGED <<irq_fifo, evt, port, sc, got, typed, lost, pc>> /\ idx' = idx + 1
        /\ MoreHandlers /\ NextHandler = "kbd_process" /\ evt # NoEvent
    BY <1>19 DEF kbd_process, Calls, MoreHandlers
  <2>2. idx = 1
    BY <2>1, Dispatching
  <2>3. s \in Scancodes \union {None}
    BY <1>1, <2>1, PayloadOf
  <2>4. d = (IF s = k THEN 1 ELSE 0) /\ d' = 0
    BY <1>3, <2>1, <2>2
  <2>5. cs \in Seq(Characters) /\ e <= (IF s = k THEN 1 ELSE 0) /\ (~held.alt /\ s = k => e = 1)
    BY <1>1, <2>3, CharsOfIs
  <2> HIDE DEF cs
  <2>6. e \in Nat
    BY <2>5, CountType
  <2>7. b' <= b + e /\ b <= b' /\ (Fits(ring, cs) => b' = b + e)
    BY <1>1, <1>10, <1>11, <2>1, <2>5, PutsCount
  <2>8. b' \in Nat
    <3>1. KeyRingOK(ring')
      BY <1>1, <2>1, <2>5, PutsCount
    <3>2. Buffered(ring') \in Seq(Characters)
      BY <3>1, GetTakes
    <3> QED BY <1>10, <3>2, CountType
  <2>9. AltTyped \/ ~held.alt
    BY DEF NoAlt
  <2>10. p' = p /\ i' = i /\ f' = f /\ g' = g /\ n' = n /\ z' = z
    BY <1>9, <2>1
  <2> HIDE DEF e, s
  <2>11. e <= d /\ (~AltTyped => e = d)
    BY <1>2, <2>4, <2>5, <2>6, <2>9
  <2>12. (lost => lost') /\ (full => full') /\ (~Fits(ring, cs) => full')
    BY <2>1, Zenon
  <2>13. AltTyped => AltTyped'
    BY <1>8, <2>1
  <2>14. PICK x \in Nat : x = b'
    BY <2>8
  <2>15. x <= b + e /\ (Fits(ring, cs) => x = b + e)
    BY <2>7, <2>14
  <2>16. /\ p + i + f + 0 + x + g <= p + i + f + d + b + g
         /\ Fits(ring, cs) /\ ~AltTyped => p + i + f + 0 + x + g = p + i + f + d + b + g
    BY <1>4, <2>6, <2>11, <2>15
  <2>17. (p + i + f + 0 + x + g) + z <= 2 * n
    BY <1>4, <1>5, <2>16
  <2>18. p' + i' + f' + d' + b' + g' = p + i + f + 0 + x + g
    BY <2>4, <2>10, <2>14
  <2>19. p' + i' + f' + d' + b' + g' + z' <= 2 * n'
    BY <2>10, <2>17, <2>18
  <2>20. Fits(ring, cs) /\ ~AltTyped => (p' + i' + f' + d' + b' + g' >= n' <=> p + i + f + d + b + g >= n)
    BY <2>10, <2>16, <2>18
  <2> QED BY <1>6, <2>12, <2>13, <2>19, <2>20
<1>20. CASE DispatchEnds
  <2>1. /\ UNCHANGED <<port, sc, ring, got, typed, lost, full, irq_fifo, pc>>
        /\ evt # NoEvent /\ ~MoreHandlers /\ evt' = NoEvent
    BY <1>20 DEF DispatchEnds, MainOnly, Finished
  <2>2. d = 0 /\ d' = 0
    BY <1>3, <2>1, Dispatching
  <2>3. p' = p /\ i' = i /\ f' = f /\ b' = b /\ g' = g /\ n' = n /\ z' = z
    BY <1>9, <2>1
  <2> QED BY <1>6, <1>8, <2>1, <2>2, <2>3
<1>21. ASSUME UNCHANGED <<vars, typed, port, sc, lost>>, full => full',
              (pc # "isr_data" /\ pc' # "isr_data") \/ UNCHANGED pc,
              b' + g' = b + g, b' \in Nat, g' \in Nat
       PROVE  <1>7!1
  <2>1. p' = p /\ i' = i /\ f' = f /\ d' = d /\ n' = n
    BY <1>3, <1>9, <1>21 DEF vars
  <2>2. z' = z
    BY <1>12, <1>21
  <2>3. AltTyped => AltTyped'
    BY <1>8, <1>21
  <2>4. b' + g' = b + g /\ b' \in Nat /\ g' \in Nat
    BY <1>21
  <2>5. (lost => lost') /\ (full => full')
    BY <1>21
  <2>6. p' + i' + f' + d' + b' + g' = p + i + f + d + b' + g'
    BY <2>1
  <2>7. p + i + f + d + b' + g' = p + i + f + d + b + g
    <3>1. PICK x \in Nat, y \in Nat : x = b' /\ y = g'
      BY <2>4
    <3>2. x + y = b + g
      BY <2>4, <3>1
    <3>3. p + i + f + d + x + y = p + i + f + d + b + g
      BY <1>4, <3>2
    <3> QED BY <3>1, <3>3
  <2>8. p' + i' + f' + d' + b' + g' + z' <= 2 * n'
    BY <1>5, <2>1, <2>2, <2>6, <2>7
  <2>9. p' + i' + f' + d' + b' + g' >= n' <=> p + i + f + d + b + g >= n
    BY <2>1, <2>6, <2>7
  <2> QED BY <1>6, <2>3, <2>5, <2>8, <2>9
<1>22. CASE TimerTick \/ SerialArrives \/ UNCHANGED kVars
  <2>1. /\ UNCHANGED <<vars, typed, port, sc, lost, full, ring, got>>
        /\ ((pc # "isr_data" /\ pc' # "isr_data") \/ UNCHANGED pc)
    BY <1>22 DEF TimerTick, SerialArrives, kVars, keyVars
  <2>2. b' = b /\ g' = g
    BY <1>9, <2>1
  <2> QED BY <1>2, <1>21, <2>1, <2>2
<1>23. KeyRingOK(Polled) /\ Count(Buffered(Polled), CharsWith(k)) = b
  BY <1>11, PollsSerial
<1>24. ASSUME NEW r, KeyRingOK(r), Count(Buffered(r), CharsWith(k)) = b, Takes(r)
       PROVE  b' + g' = b + g /\ b' \in Nat /\ g' \in Nat
  <2>1. /\ KeyRingOK(ring') /\ got' \in Seq(Characters)
        /\ Count(Buffered(ring'), CharsWith(k)) + Count(got', CharsWith(k))
             = Count(Buffered(r), CharsWith(k)) + Count(got, CharsWith(k))
    BY <1>1, <1>24, TakesOne
  <2>2. Buffered(ring') \in Seq(Characters)
    BY <2>1, GetTakes
  <2>3. b' \in Nat /\ g' \in Nat
    BY <1>10, <2>1, <2>2, CountType
  <2> QED BY <1>10, <1>11, <1>24, <2>1, <2>3
<1>25. CASE shell_readline_and_execute
  <2>1. /\ Takes(Polled) /\ pc = "shell" /\ pc' \in {"dispatch", "hlt", "getchar"} /\ (full => full')
        /\ UNCHANGED <<vars, typed, port, sc, lost>>
    BY <1>25 DEF shell_readline_and_execute, keyboard_poll
  <2>2. b' + g' = b + g /\ b' \in Nat /\ g' \in Nat
    BY <1>23, <1>24, <2>1
  <2> QED BY <1>21, <2>1, <2>2
<1>26. CASE keyboard_getchar
  <2>1. /\ pc = "getchar" /\ UNCHANGED <<vars, typed, port, sc, lost>>
    BY <1>26 DEF keyboard_getchar
  <2>2. CASE Empty(ring)
    <3>1. ring' = Polled /\ (full => full') /\ UNCHANGED <<pc, got>>
      BY <1>26, <2>2 DEF keyboard_getchar, keyboard_poll
    <3>2. b' = b /\ g' = g
      BY <1>9, <1>10, <1>23, <3>1
    <3> QED BY <1>2, <1>21, <2>1, <3>1, <3>2
  <2>3. CASE ~Empty(ring)
    <3>1. Takes(ring) /\ pc' = "dispatch" /\ UNCHANGED full
      BY <1>26, <2>3 DEF keyboard_getchar
    <3>2. b' + g' = b + g /\ b' \in Nat /\ g' \in Nat
      BY <1>1, <1>11, <1>24, <3>1
    <3> QED BY <1>21, <2>1, <3>1, <3>2
  <2> QED BY <2>2, <2>3
<1> QED BY <1>13, <1>14, <1>15, <1>16, <1>17, <1>18, <1>19, <1>20, <1>22, <1>25, <1>26 DEF KNext, Main

\* Nothing has been typed at first, and nothing is underway.
LEMMA KeyInit ==
  ASSUME KeySetUp, KInit
  PROVE  KeyTypes /\ NoAlt /\ \A k \in Letters : Counted(k)
<1>1. FIFO_CAPACITY \in Nat \ {0} /\ 0 \in Slots /\ KEY_BUFFER_SIZE \in Nat \ {0} /\ 0 \in Cells
  BY InterruptAssumption DEF Slots, KeySetUp, Cells
<1>2. Wrap(0) = 0
  BY <1>1, Wraps
<1>3. Event(None) \in Events
  BY EventOf
<1>4. RingOK(irq_fifo) /\ irq_fifo.count = 0
  BY <1>1, <1>2, <1>3 DEF KInit, RingOK, Rings
<1>5. Contents(irq_fifo) = <<>>
  <2>1. Contents(irq_fifo) \in Seq(Events) /\ Len(Contents(irq_fifo)) = 0
    BY <1>4, ContentsSeq
  <2> QED BY <2>1
<1>6. ring \in KeyRings /\ Filling(ring) = 0
  BY <1>1 DEF KInit, KeyRings, Cells, Filling
<1>7. Buffered(ring) = <<>>
  <2>1. Buffered(ring) \in Seq(Characters \union {NoChar}) /\ Len(Buffered(ring)) = 0
    BY <1>6, BufferedIs
  <2> QED BY <2>1
<1>8. KeyRingOK(ring)
  BY <1>6, <1>7 DEF KeyRingOK
<1>9. irq_table = [v \in Vectors |-> TwoHandlers] /\ irq_table \in [Vectors -> Seq(Handlers)]
  <2>1. TwoHandlers \in Seq(Handlers)
    BY DEF TwoHandlers, KeySetUp
  <2> QED BY <2>1 DEF KInit, TwoHandlers
<1>10. TypeOK
  BY <1>4, <1>9, RingOfType DEF KInit
<1>11. KeyTypes
  BY <1>8, <1>9, <1>10 DEF KInit, KeyTypes, Ports, Holds, Points
<1>12. NoAlt
  BY <1>5 DEF KInit, NoAlt, None
<1>13. ASSUME NEW k \in Letters PROVE Counted(k)
  <2>1. k # None
    BY NoneIsNoKey DEF Scancodes, Keys
  <2>2. InFifo(k) = 0 /\ InBuffer(k) = 0 /\ AtShell(k) = 0 /\ Count(typed, {k}) = 0
    BY <1>5, <1>7, CountEmpty DEF KInit, InFifo, InBuffer, AtShell
  <2>3. InPort(k) = 0 /\ InIsr(k) = 0 /\ InDispatch(k) = 0 /\ Double(k) = 0
    BY <2>1 DEF KInit, InPort, InIsr, InDispatch, MoreHandlers, Double
  <2>4. Underway(k) = 0
    BY <2>2, <2>3 DEF Underway
  <2> QED BY <2>2, <2>3, <2>4 DEF Counted
<1> QED BY <1>11, <1>12, <1>13

\* The type invariant from what was kept.
LEMMA KeyTypesImply ==
  ASSUME KeySetUp, KeyTypes
  PROVE  KTypeOK
<1>1. /\ TypeOK /\ typed \in Seq(Scancodes) /\ got \in Seq(Characters) /\ port \in Ports
      /\ sc \in Scancodes \union {None} /\ (pc = "isr_raise" <=> sc # None) /\ pc \in Points
      /\ ring \in KeyRings
  BY DEF KeyTypes, KeyRingOK
<1>2. NoChar \notin Characters
  BY DEF KeySetUp, NoChar, Char, Characters, None, Caret, Serial
<1>3. \A i \in 1..Len(got) : got[i] # NoChar
  BY <1>1, <1>2
<1>4. ring.read \in 0..(KEY_BUFFER_SIZE - 1) /\ ring.write \in 0..(KEY_BUFFER_SIZE - 1)
  BY <1>1 DEF KeyRings, Cells
<1> QED BY <1>1, <1>3, <1>4 DEF KTypeOK, Ports, Points

\* Every letter that was typed is somewhere between the controller and the
\* shell, or with the shell, for every number of keys, every size of the two
\* queues and every interleaving of irq_handler_c with the main loop, unless a
\* queue was full or Alt was pressed; and it is there at most twice as often.
THEOREM NoKeyIsLost == KeySetUp => (KSpec => []NoKeyLost)
<1> SUFFICES ASSUME KeySetUp PROVE KSpec => []NoKeyLost
  OBVIOUS
<1> DEFINE KeyInv == KeyTypes /\ NoAlt /\ \A k \in Letters : Counted(k)
<1>1. KInit => KeyInv
  BY KeyInit
<1>2. KeyInv /\ [KNext]_kVars => KeyInv'
  <2> SUFFICES ASSUME KeyInv, [KNext]_kVars PROVE KeyInv'
    OBVIOUS
  <2>1. KeyTypes' /\ NoAlt'
    BY KeyTypesStep, NoAltStep
  <2>2. \A k \in Letters : Counted(k)'
    BY CountedStep
  <2> QED BY <2>1, <2>2
<1>3. KeyInv => NoKeyLost
  <2> SUFFICES ASSUME KeyInv PROVE NoKeyLost
    OBVIOUS
  <2>1. KTypeOK
    BY KeyTypesImply
  <2>2. ASSUME NEW k \in Letters
        PROVE  /\ Underway(k) <= 2 * Count(typed, {k})
               /\ lost \/ full \/ "alt_down" \in Range(typed) \/ Underway(k) >= Count(typed, {k})
    <3>1. /\ Underway(k) + Double(k) <= 2 * Count(typed, {k})
          /\ lost \/ full \/ AltTyped \/ Underway(k) >= Count(typed, {k})
      BY DEF Counted
    <3>2. Underway(k) \in Nat /\ Double(k) \in Nat /\ Count(typed, {k}) \in Nat
      BY WayTypes DEF Underway
    <3>3. Underway(k) <= 2 * Count(typed, {k})
      BY <3>1, <3>2
    <3> QED BY <3>1, <3>3 DEF AltTyped
  <2> QED BY <2>1, <2>2 DEF NoKeyLost
<1> QED BY <1>1, <1>2, <1>3, PTL DEF KSpec

-----------------------------------------------------------------------------
(* Sequences that arise from others.                                       *)

\* What holds of the empty sequence and is kept by Append holds of all.
LEMMA AppendInduction ==
  ASSUME NEW X, NEW S, <<>> \in S,
         \A s \in Seq(X) : \A x \in X : s \in S => Append(s, x) \in S
  PROVE  Seq(X) \subseteq S
<1> SUFFICES ASSUME NEW s \in Seq(X) PROVE s \in S
  OBVIOUS
<1> DEFINE n == Len(s)
           P(i) == SubSeq(s, 1, i)
           T == {i \in 0..n : P(i) \in S}
<1>1. n \in Nat /\ \A i \in 1..n : s[i] \in X
  OBVIOUS
<1>2. P(0) = <<>> /\ P(n) = s
  OBVIOUS
<1>3. ASSUME NEW i \in 0..(n - 1)
      PROVE  /\ i + 1 \in 1..n /\ P(i) \in Seq(X)
             /\ P(i + 1) = Append(P(i), s[i + 1])
  BY <1>1
<1> HIDE DEF P
<1>4. 0 \in T
  BY <1>1, <1>2
<1>5. ASSUME NEW i \in 0..(n - 1), i \in T PROVE i + 1 \in T
  <2>1. Append(P(i), s[i + 1]) \in S
    BY <1>1, <1>3, <1>5
  <2>2. P(i + 1) \in S
    BY <1>3, <2>1, Zenon
  <2>3. i + 1 \in 0..n
    BY <1>1
  <2> QED BY <2>2, <2>3
<1>6. \A i \in 0..n : i \in T
  <2> HIDE DEF T
  <2> QED BY <1>1, <1>4, <1>5, UpToInduction
<1>7. P(n) \in S
  BY <1>1, <1>6
<1> QED BY <1>2, <1>7

\* The walk that leaves the characters of the serial line out.
KeyedSteps(s, k) ==
  /\ k \in [0..Len(s) -> Seq(Characters)] /\ k[0] = <<>>
  /\ \A i \in 1..Len(s) : k[i] = IF s[i] = Serial THEN k[i - 1] ELSE Append(k[i - 1], s[i])

\* Keyed is the end of a walk over its sequence.
LEMMA KeyedWalk ==
  ASSUME NEW s \in Seq(Characters)
  PROVE  \E k : KeyedSteps(s, k) /\ Keyed(s) = k[Len(s)]
<1> DEFINE n == Len(s)
           V == Seq(Characters)
           Go(w, i) == IF s[i] = Serial THEN w ELSE Append(w, s[i])
           g == [v \in V \X (1..n) |-> Go(v[1], v[2])]
           Eq(h) == h = [i \in 0..n |-> IF i = 0 THEN <<>>
                           ELSE IF s[i] = Serial THEN h[i - 1] ELSE Append(h[i - 1], s[i])]
           u == CHOOSE h : Eq(h)
<1>1. n \in Nat /\ <<>> \in V /\ \A i \in 1..n : s[i] \in Characters
  OBVIOUS
<1>2. \A w \in V, i \in 1..n : Go(w, i) \in V
  BY <1>1
<1>3. g \in [V \X (1..n) -> V]
  <2> SUFFICES ASSUME NEW v \in V \X (1..n) PROVE Go(v[1], v[2]) \in V
    OBVIOUS
  <2>1. v[1] \in V /\ v[2] \in 1..n
    OBVIOUS
  <2> HIDE DEF Go, V
  <2> QED BY <1>2, <2>1
<1>4. PICK f \in [0..n -> V] : f[0] = <<>> /\ \A i \in 1..n : f[i] = g[<<f[i - 1], i>>]
  <2>1. Recursions(n, V, <<>>, g) # {}
    <3> HIDE DEF n, g, V
    <3> QED BY <1>1, <1>3, Recursion
  <2> HIDE DEF n, g, V
  <2> QED BY <2>1 DEF Recursions
<1>5. \A i \in 1..n : f[i] = Go(f[i - 1], i)
  <2> SUFFICES ASSUME NEW i \in 1..n PROVE f[i] = Go(f[i - 1], i)
    OBVIOUS
  <2>1. f[i - 1] \in V
    BY <1>1
  <2> HIDE DEF Go, V
  <2> QED BY <1>4, <2>1
<1>6. Eq(f)
  <2>1. ASSUME NEW i \in 0..n
        PROVE  f[i] = IF i = 0 THEN <<>> ELSE IF s[i] = Serial THEN f[i - 1] ELSE Append(f[i - 1], s[i])
    <3>1. CASE i = 0
      BY <1>4, <3>1
    <3>2. CASE i # 0
      <4>1. i \in 1..n
        BY <1>1, <3>2
      <4> QED BY <1>5, <3>2, <4>1
    <3> QED BY <3>1, <3>2
  <2> QED BY <1>4, <2>1
<1>7. Eq(u)
  <2> HIDE DEF Eq
  <2> QED BY <1>6, Zenon
<1>8. DOMAIN u = 0..n /\ u = [i \in 0..n |-> u[i]]
  <2> HIDE DEF u
  <2> QED BY <1>7
<1>9. \A i \in 0..n : u[i] = IF i = 0 THEN <<>>
                          ELSE IF s[i] = Serial THEN u[i - 1] ELSE Append(u[i - 1], s[i])
  <2> HIDE DEF u
  <2> QED BY <1>7
<1> HIDE DEF u
<1>10. u[0] = <<>> /\ \A i \in 1..n : u[i] = IF s[i] = Serial THEN u[i - 1] ELSE Append(u[i - 1], s[i])
  BY <1>1, <1>9
<1>11. \A i \in 0..n : u[i] \in V
  <2> DEFINE S == {i \in 0..n : u[i] \in V}
  <2>1. 0 \in S
    <3> HIDE DEF V
    <3> QED BY <1>1, <1>10
  <2>2. ASSUME NEW i \in 0..(n - 1), i \in S PROVE i + 1 \in S
    <3>1. i + 1 \in 1..n /\ (i + 1) - 1 = i
      BY <1>1
    <3>2. u[i + 1] = Go(u[i], i + 1)
      BY <1>10, <3>1
    <3>3. u[i + 1] \in V
      <4> HIDE DEF Go, V
      <4> QED BY <1>2, <2>2, <3>1, <3>2
    <3> QED BY <3>1, <3>3
  <2>3. \A i \in 0..n : i \in S
    <3> HIDE DEF S
    <3> QED BY <1>1, <2>1, <2>2, UpToInduction
  <2> QED BY <2>3
<1>12. u \in [0..n -> V]
  BY <1>8, <1>11
<1>13. Keyed(s) = u[n]
  BY DEF Keyed, u
<1>14. KeyedSteps(s, u)
  BY <1>10, <1>12 DEF KeyedSteps
<1> QED BY <1>13, <1>14

LEMMA KeyedEmpty == Keyed(<<>>) = <<>>
<1>1. <<>> \in Seq(Characters) /\ Len(<<>>) = 0
  OBVIOUS
<1>2. PICK k : KeyedSteps(<<>>, k) /\ Keyed(<<>>) = k[0]
  BY <1>1, KeyedWalk
<1> QED BY <1>2 DEF KeyedSteps

\* Keyed and the operations on sequences.
LEMMA KeyedAppend ==
  ASSUME NEW s \in Seq(Characters), NEW x \in Characters
  PROVE  /\ Keyed(s) \in Seq(Characters)
         /\ Keyed(Append(s, x)) = IF x = Serial THEN Keyed(s) ELSE Append(Keyed(s), x)
<1> DEFINE n == Len(s)
           t == Append(s, x)
<1>1. n \in Nat /\ Len(t) = n + 1 /\ t[n + 1] = x /\ t \in Seq(Characters)
      /\ \A i \in 1..n : t[i] = s[i]
  OBVIOUS
<1>2. PICK k : KeyedSteps(s, k) /\ Keyed(s) = k[n]
  BY KeyedWalk
<1> HIDE DEF t
<1>3. PICK h : KeyedSteps(t, h) /\ Keyed(t) = h[n + 1]
  BY <1>1, KeyedWalk
<1>4. /\ k[0] = <<>> /\ k \in [0..n -> Seq(Characters)]
      /\ \A i \in 1..n : k[i] = IF s[i] = Serial THEN k[i - 1] ELSE Append(k[i - 1], s[i])
  BY <1>2 DEF KeyedSteps
<1>5. /\ h[0] = <<>>
      /\ \A i \in 1..(n + 1) : h[i] = IF t[i] = Serial THEN h[i - 1] ELSE Append(h[i - 1], t[i])
  BY <1>1, <1>3 DEF KeyedSteps
<1> DEFINE T == {i \in 0..n : h[i] = k[i]}
<1>6. 0 \in T
  BY <1>1, <1>4, <1>5
<1>7. ASSUME NEW i \in 0..(n - 1), i \in T PROVE i + 1 \in T
  <2>1. i + 1 \in 1..n /\ i + 1 \in 1..(n + 1) /\ (i + 1) - 1 = i
    BY <1>1
  <2>2. h[i + 1] = IF t[i + 1] = Serial THEN h[i] ELSE Append(h[i], t[i + 1])
    BY <1>5, <2>1
  <2>3. k[i + 1] = IF s[i + 1] = Serial THEN k[i] ELSE Append(k[i], s[i + 1])
    BY <1>4, <2>1
  <2>4. h[i] = k[i] /\ t[i + 1] = s[i + 1]
    BY <1>1, <1>7, <2>1
  <2> QED BY <1>1, <2>1, <2>2, <2>3, <2>4
<1>8. \A i \in 0..n : i \in T
  <2> HIDE DEF T
  <2> QED BY <1>1, <1>6, <1>7, UpToInduction
<1>9. h[n] = k[n] /\ k[n] \in Seq(Characters)
  BY <1>1, <1>4, <1>8
<1>10. n + 1 \in 1..(n + 1) /\ (n + 1) - 1 = n
  BY <1>1
<1>11. h[n + 1] = IF x = Serial THEN h[n] ELSE Append(h[n], x)
  BY <1>1, <1>5, <1>10
<1> QED BY <1>2, <1>3, <1>9, <1>11 DEF t

\* Keyed keeps concatenations apart.
LEMMA KeyedConcat ==
  ASSUME NEW s \in Seq(Characters), NEW u \in Seq(Characters)
  PROVE  Keyed(s \o u) = Keyed(s) \o Keyed(u)
<1> DEFINE S == {v \in Seq(Characters) : Keyed(s \o v) = Keyed(s) \o Keyed(v)}
<1>1. <<>> \in S
  <2>1. s \o <<>> = s /\ <<>> \in Seq(Characters)
    OBVIOUS
  <2>2. Keyed(s) \in Seq(Characters)
    <3>1. PICK k : KeyedSteps(s, k) /\ Keyed(s) = k[Len(s)]
      BY KeyedWalk
    <3> QED BY <3>1 DEF KeyedSteps
  <2>3. Keyed(s) \o <<>> = Keyed(s)
    BY <2>2
  <2> QED BY <2>1, <2>3, KeyedEmpty
<1>2. ASSUME NEW v \in Seq(Characters), NEW x \in Characters, v \in S PROVE Append(v, x) \in S
  <2>1. s \o v \in Seq(Characters) /\ s \o Append(v, x) = Append(s \o v, x)
        /\ Append(v, x) \in Seq(Characters)
    OBVIOUS
  <2>2. /\ Keyed(s) \in Seq(Characters) /\ Keyed(v) \in Seq(Characters)
        /\ Keyed(Append(v, x)) = IF x = Serial THEN Keyed(v) ELSE Append(Keyed(v), x)
    BY KeyedAppend
  <2>3. Keyed(Append(s \o v, x)) = IF x = Serial THEN Keyed(s \o v) ELSE Append(Keyed(s \o v), x)
    BY <2>1, KeyedAppend
  <2>4. Keyed(s \o v) = Keyed(s) \o Keyed(v)
    BY <1>2
  <2>5. CASE x = Serial
    BY <2>1, <2>2, <2>3, <2>4, <2>5
  <2>6. CASE x # Serial
    <3>1. Keyed(s) \o Append(Keyed(v), x) = Append(Keyed(s) \o Keyed(v), x)
      BY <2>2
    <3> QED BY <2>1, <2>2, <2>3, <2>4, <2>6, <3>1
  <2> QED BY <2>5, <2>6
<1>3. Seq(Characters) \subseteq S
  <2> HIDE DEF S
  <2> QED BY <1>1, <1>2, AppendInduction
<1> QED BY <1>3

\* Nothing is left out of a sequence without characters of the serial line,
\* and everything of one that has only these.
LEMMA KeyedAll ==
  ASSUME NEW u \in Seq(Characters)
  PROVE  /\ (\A i \in 1..Len(u) : u[i] # Serial) => Keyed(u) = u
         /\ (\A i \in 1..Len(u) : u[i] = Serial) => Keyed(u) = <<>>
<1> DEFINE Some(v) == \E i \in 1..Len(v) : v[i] = Serial
           Other(v) == \E i \in 1..Len(v) : v[i] # Serial
           S == {v \in Seq(Characters) : (Some(v) \/ Keyed(v) = v) /\ (Other(v) \/ Keyed(v) = <<>>)}
<1>1. <<>> \in S
  BY KeyedEmpty
<1>2. ASSUME NEW v \in Seq(Characters), NEW x \in Characters, v \in S PROVE Append(v, x) \in S
  <2> DEFINE t == Append(v, x)
  <2>1. /\ t \in Seq(Characters) /\ Len(t) = Len(v) + 1 /\ Len(v) \in Nat /\ t[Len(v) + 1] = x
        /\ \A i \in 1..Len(v) : i \in 1..Len(t) /\ t[i] = v[i]
        /\ Len(v) + 1 \in 1..Len(t)
    OBVIOUS
  <2>2. Keyed(t) = IF x = Serial THEN Keyed(v) ELSE Append(Keyed(v), x)
    BY KeyedAppend
  <2> HIDE DEF t
  <2>3. (Some(v) => Some(t)) /\ (Other(v) => Other(t)) /\ (x = Serial => Some(t)) /\ (x # Serial => Other(t))
    BY <2>1
  <2>4. (Some(v) \/ Keyed(v) = v) /\ (Other(v) \/ Keyed(v) = <<>>)
    BY <1>2
  <2> HIDE DEF Some, Other
  <2>5. CASE x = Serial
    <3>1. Some(t) /\ (Other(t) \/ Keyed(t) = <<>>)
      BY <2>2, <2>3, <2>4, <2>5
    <3> QED BY <2>1, <3>1 DEF t
  <2>6. CASE x # Serial
    <3>1. Other(t) /\ (Some(t) \/ Keyed(t) = t)
      BY <2>2, <2>3, <2>4, <2>6 DEF t
    <3> QED BY <2>1, <3>1 DEF t
  <2> QED BY <2>5, <2>6
<1>3. Seq(Characters) \subseteq S
  <2> HIDE DEF S
  <2> QED BY <1>1, <1>2, AppendInduction
<1> QED BY <1>3

\* Subsequences.
LEMMA SubsequenceConcat ==
  ASSUME NEW X, NEW s \in Seq(X), NEW t \in Seq(X), NEW u \in Seq(X), NEW v \in Seq(X),
         SubsequenceOf(s, t), SubsequenceOf(u, v)
  PROVE  SubsequenceOf(s \o u, t \o v)
<1> DEFINE a == Len(s)
           b == Len(t)
           c == Len(u)
           d == Len(v)
           p == s \o u
           q == t \o v
<1>1. a \in Nat /\ b \in Nat /\ c \in Nat /\ d \in Nat /\ Len(p) = a + c /\ Len(q) = b + d
  OBVIOUS
<1>2. /\ \A i \in 1..(a + c) : p[i] = IF i <= a THEN s[i] ELSE u[i - a]
      /\ \A i \in 1..(b + d) : q[i] = IF i <= b THEN t[i] ELSE v[i - b]
  OBVIOUS
<1>3. PICK f \in [1..a -> 1..b] :
        /\ \A i \in 1..a : s[i] = t[f[i]]
        /\ \A i, j \in 1..a : i < j => f[i] < f[j]
  BY DEF SubsequenceOf
<1>4. PICK g \in [1..c -> 1..d] :
        /\ \A i \in 1..c : u[i] = v[g[i]]
        /\ \A i, j \in 1..c : i < j => g[i] < g[j]
  BY DEF SubsequenceOf
<1> HIDE DEF a, b, c, d, p, q
<1> DEFINE H(i) == IF i <= a THEN f[i] ELSE b + g[i - a]
           h == [i \in 1..(a + c) |-> H(i)]
<1>5. \A i \in 1..(a + c) : (i <= a => i \in 1..a) /\ (i > a => i - a \in 1..c)
  BY <1>1
<1>6. ASSUME NEW i \in 1..(a + c)
      PROVE  H(i) \in 1..(b + d) /\ (i <= a => H(i) <= b /\ H(i) = f[i]) /\ (i > a => H(i) > b /\ H(i) = b + g[i - a])
  <2>1. CASE i <= a
    <3>1. f[i] \in 1..b
      BY <1>5, <2>1
    <3> QED BY <1>1, <2>1, <3>1
  <2>2. CASE i > a
    <3>1. g[i - a] \in 1..d
      BY <1>5, <2>2
    <3> QED BY <1>1, <2>2, <3>1
  <2> QED BY <1>1, <2>1, <2>2
<1> HIDE DEF H
<1>7. h \in [1..(a + c) -> 1..(b + d)] /\ \A i \in 1..(a + c) : h[i] = H(i)
  BY <1>6
<1> HIDE DEF h
<1>8. ASSUME NEW i \in 1..(a + c) PROVE p[i] = q[h[i]]
  <2>1. h[i] = H(i) /\ H(i) \in 1..(b + d)
    BY <1>6, <1>7
  <2>2. CASE i <= a
    <3>1. p[i] = s[i] /\ i \in 1..a /\ H(i) = f[i] /\ H(i) <= b
      BY <1>2, <1>5, <1>6, <2>2
    <3>2. q[H(i)] = t[H(i)]
      BY <1>2, <2>1, <3>1
    <3> QED BY <1>3, <2>1, <3>1, <3>2
  <2>3. CASE i > a
    <3>1. p[i] = u[i - a] /\ i - a \in 1..c /\ H(i) = b + g[i - a] /\ H(i) > b
      BY <1>1, <1>2, <1>5, <1>6, <2>3
    <3>2. g[i - a] \in 1..d /\ u[i - a] = v[g[i - a]]
      BY <1>4, <3>1
    <3>3. ~(H(i) <= b) /\ H(i) - b = g[i - a]
      BY <1>1, <3>1, <3>2
    <3>4. q[H(i)] = v[H(i) - b]
      BY <1>2, <2>1, <3>3
    <3> QED BY <2>1, <3>1, <3>2, <3>3, <3>4
  <2> QED BY <1>1, <2>2, <2>3
<1>9. ASSUME NEW i \in 1..(a + c), NEW j \in 1..(a + c), i < j PROVE h[i] < h[j]
  <2>1. h[i] = H(i) /\ h[j] = H(j) /\ H(i) \in 1..(b + d) /\ H(j) \in 1..(b + d)
    BY <1>6, <1>7
  <2>2. CASE j <= a
    <3>1. i <= a /\ i \in 1..a /\ j \in 1..a
      BY <1>1, <1>9, <2>2
    <3>2. f[i] < f[j]
      BY <1>3, <1>9, <3>1
    <3>3. H(i) = f[i] /\ H(j) = f[j]
      BY <1>6, <2>2, <3>1
    <3> QED BY <2>1, <3>2, <3>3
  <2>3. CASE i > a
    <3>1. j > a /\ i - a \in 1..c /\ j - a \in 1..c /\ i - a < j - a
      BY <1>1, <1>9, <2>3
    <3>2. g[i - a] < g[j - a] /\ g[i - a] \in 1..d /\ g[j - a] \in 1..d
      BY <1>4, <3>1
    <3>3. H(i) = b + g[i - a] /\ H(j) = b + g[j - a]
      BY <1>6, <2>3, <3>1
    <3>4. b + g[i - a] < b + g[j - a]
      BY <1>1, <3>2
    <3> QED BY <2>1, <3>3, <3>4
  <2>4. CASE i <= a /\ j > a
    <3>1. H(i) <= b /\ H(j) > b
      BY <1>6, <2>4
    <3>2. H(i) < H(j)
      BY <1>1, <2>1, <3>1
    <3> QED BY <2>1, <3>2
  <2> QED BY <1>1, <2>2, <2>3, <2>4
<1>10. h \in [1..Len(p) -> 1..Len(q)]
  BY <1>1, <1>7
<1>11. \A i \in 1..Len(p) : p[i] = q[h[i]]
  BY <1>1, <1>8
<1>12. \A i, j \in 1..Len(p) : i < j => h[i] < h[j]
  BY <1>1, <1>9
<1> QED BY <1>10, <1>11, <1>12, Zenon DEF SubsequenceOf, p, q

\* A sequence and the empty one are subsequences of it.
LEMMA SubsequenceSelf ==
  ASSUME NEW X, NEW s \in Seq(X)
  PROVE  SubsequenceOf(s, s) /\ SubsequenceOf(<<>>, s)
<1> DEFINE n == Len(s)
           f == [i \in 1..n |-> i]
           g == [i \in 1..0 |-> i]
<1>1. f \in [1..n -> 1..n] /\ (\A i \in 1..n : s[i] = s[f[i]]) /\ (\A i, j \in 1..n : i < j => f[i] < f[j])
  OBVIOUS
<1>2. SubsequenceOf(s, s)
  <2> HIDE DEF f
  <2> QED BY <1>1, Zenon DEF SubsequenceOf, n
<1>3. 1..0 = {} /\ Len(<<>>) = 0
  OBVIOUS
<1>4. 1..Len(<<>>) = {}
  BY <1>3
<1>5. g \in [1..Len(<<>>) -> 1..n]
  BY <1>3
<1>6. /\ \A i \in 1..Len(<<>>) : <<>>[i] = s[g[i]]
      /\ \A i, j \in 1..Len(<<>>) : i < j => g[i] < g[j]
  BY <1>4, Zenon
<1>7. SubsequenceOf(<<>>, s)
  <2> HIDE DEF g
  <2> QED BY <1>5, <1>6, Zenon DEF SubsequenceOf, n
<1> QED BY <1>2, <1>7

\* A prefix of a subsequence is one.
LEMMA SubsequencePrefix ==
  ASSUME NEW X, NEW s \in Seq(X), NEW u \in Seq(X), NEW t \in Seq(X), SubsequenceOf(s \o u, t)
  PROVE  SubsequenceOf(s, t)
<1> DEFINE a == Len(s)
           p == s \o u
           b == Len(t)
<1>1. a \in Nat /\ Len(u) \in Nat /\ Len(p) = a + Len(u) /\ (\A i \in 1..a : p[i] = s[i])
  OBVIOUS
<1>2. PICK f \in [1..Len(p) -> 1..b] :
        /\ \A i \in 1..Len(p) : p[i] = t[f[i]]
        /\ \A i, j \in 1..Len(p) : i < j => f[i] < f[j]
  BY DEF SubsequenceOf
<1> HIDE DEF a, p, b
<1>3. \A i \in 1..a : i \in 1..Len(p)
  BY <1>1
<1> DEFINE g == [i \in 1..a |-> f[i]]
<1>4. /\ g \in [1..a -> 1..b] /\ (\A i \in 1..a : s[i] = t[g[i]])
      /\ \A i, j \in 1..a : i < j => g[i] < g[j]
  BY <1>1, <1>2, <1>3
<1> HIDE DEF g
<1> QED BY <1>4, Zenon DEF SubsequenceOf, a, b

\* The modifiers after one more scancode, and what the next one means.
LEMMA LastOfNext ==
  ASSUME NEW s \in Seq(Scancodes), NEW i \in 1..Len(s), NEW down, NEW up, down # up
  PROVE  LastOf(s, i + 1, down, up) =
           IF s[i] = down THEN TRUE ELSE IF s[i] = up THEN FALSE ELSE LastOf(s, i, down, up)
<1>1. Len(s) \in Nat /\ i \in Nat \ {0} /\ (i + 1) - 1 = i
  OBVIOUS
<1> DEFINE Ok(j, n) == s[j] = down /\ \A m \in (j + 1)..n : s[m] # up
<1>2. LastOf(s, i + 1, down, up) = (\E j \in 1..i : Ok(j, i))
  BY <1>1 DEF LastOf
<1>3. LastOf(s, i, down, up) = (\E j \in 1..(i - 1) : Ok(j, i - 1))
  BY DEF LastOf
<1>4. CASE s[i] = down
  <2>1. i \in 1..i /\ Ok(i, i)
    BY <1>1, <1>4
  <2> HIDE DEF Ok
  <2> QED BY <1>2, <1>4, <2>1
<1>5. CASE s[i] = up
  <2>1. ASSUME NEW j \in 1..i, Ok(j, i) PROVE FALSE
    <3>1. j # i
      BY <1>5, <2>1
    <3>2. i \in (j + 1)..i
      BY <1>1, <3>1
    <3> QED BY <1>5, <2>1, <3>2
  <2> HIDE DEF Ok
  <2> QED BY <1>2, <1>5, <2>1
<1>6. CASE s[i] # down /\ s[i] # up
  <2>1. ASSUME NEW j \in 1..i, Ok(j, i) PROVE j \in 1..(i - 1) /\ Ok(j, i - 1)
    <3>1. j # i
      BY <1>6, <2>1
    <3> QED BY <1>1, <2>1, <3>1
  <2>2. ASSUME NEW j \in 1..(i - 1), Ok(j, i - 1) PROVE j \in 1..i /\ Ok(j, i)
    <3>1. \A m \in (j + 1)..i : m = i \/ m \in (j + 1)..(i - 1)
      BY <1>1
    <3> QED BY <1>1, <1>6, <2>2, <3>1
  <2> HIDE DEF Ok
  <2> QED BY <1>2, <1>3, <1>6, <2>1, <2>2
<1> QED BY <1>4, <1>5, <1>6

\* The modifiers held after the first m scancodes.
HeldAt(s, m) ==
  [shift |-> LastOf(s, m + 1, "shift_down", "shift_up"),
   ctrl |-> LastOf(s, m + 1, "ctrl_down", "ctrl_up"),
   alt |-> LastOf(s, m + 1, "alt_down", "alt_up")]

\* What kbd_process makes of the next scancode is what the reference
\* makes of it.
LEMMA HeldNext ==
  ASSUME NEW s \in Seq(Scancodes), NEW m \in 0..(Len(s) - 1)
  PROVE  /\ HeldAfter(HeldAt(s, m), s[m + 1]) = HeldAt(s, m + 1)
         /\ CharsOf(HeldAt(s, m), s[m + 1]) = Meaning(s, m + 1)
<1> DEFINE i == m + 1
           x == s[i]
           Shift(n) == LastOf(s, n, "shift_down", "shift_up")
           Ctrl(n) == LastOf(s, n, "ctrl_down", "ctrl_up")
           Alt(n) == LastOf(s, n, "alt_down", "alt_up")
<1>1. i \in 1..Len(s)
  OBVIOUS
<1>2. Shift(i + 1) = IF x = "shift_down" THEN TRUE ELSE IF x = "shift_up" THEN FALSE ELSE Shift(i)
  BY <1>1, LastOfNext
<1>3. Ctrl(i + 1) = IF x = "ctrl_down" THEN TRUE ELSE IF x = "ctrl_up" THEN FALSE ELSE Ctrl(i)
  BY <1>1, LastOfNext
<1>4. Alt(i + 1) = IF x = "alt_down" THEN TRUE ELSE IF x = "alt_up" THEN FALSE ELSE Alt(i)
  BY <1>1, LastOfNext
<1>5. HeldAt(s, m) = [shift |-> Shift(i), ctrl |-> Ctrl(i), alt |-> Alt(i)]
      /\ HeldAt(s, i) = [shift |-> Shift(i + 1), ctrl |-> Ctrl(i + 1), alt |-> Alt(i + 1)]
  BY DEF HeldAt
<1>6. Shift(i) \in BOOLEAN /\ Ctrl(i) \in BOOLEAN /\ Alt(i) \in BOOLEAN
  BY DEF LastOf
<1>7. Meaning(s, i) = IF x \in Letters /\ Ctrl(i) THEN <<Caret, Char(x, TRUE)>>
                      ELSE IF x \in Keys /\ ~Ctrl(i) /\ ~Alt(i) THEN <<Char(x, Shift(i))>>
                      ELSE <<>>
  BY DEF Meaning
<1> HIDE DEF i, x, Shift, Ctrl, Alt
<1> DEFINE h == HeldAt(s, m)
<1>8. h.shift = Shift(i) /\ h.ctrl = Ctrl(i) /\ h.alt = Alt(i)
  BY <1>5
<1> HIDE DEF h
<1>9. HeldAfter(h, x) = [shift |-> Shift(i + 1), ctrl |-> Ctrl(i + 1), alt |-> Alt(i + 1)]
  <2>1. (IF x \in {"shift_down", "shift_up"} THEN x = "shift_down" ELSE h.shift) = Shift(i + 1)
    BY <1>2, <1>6, <1>8
  <2>2. (IF x \in {"ctrl_down", "ctrl_up"} THEN x = "ctrl_down" ELSE h.ctrl) = Ctrl(i + 1)
    BY <1>3, <1>6, <1>8
  <2>3. (IF x \in {"alt_down", "alt_up"} THEN x = "alt_down" ELSE h.alt) = Alt(i + 1)
    BY <1>4, <1>6, <1>8
  <2> QED BY <2>1, <2>2, <2>3, Zenon DEF HeldAfter
<1>10. CharsOf(h, x) = Meaning(s, i)
  <2>1. CASE x \notin Keys \/ (h.ctrl /\ x \notin Letters) \/ (~h.ctrl /\ h.alt)
    <3>1. CharsOf(h, x) = <<>>
      BY <2>1 DEF CharsOf
    <3>2. ~(x \in Letters /\ Ctrl(i)) /\ ~(x \in Keys /\ ~Ctrl(i) /\ ~Alt(i))
      BY <1>6, <1>8, <2>1 DEF Keys
    <3> QED BY <1>7, <3>1, <3>2, Zenon
  <2>2. CASE x \in Keys /\ ~(h.ctrl /\ x \notin Letters) /\ ~(~h.ctrl /\ h.alt)
    <3>1. CASE h.ctrl
      <4>1. CharsOf(h, x) = <<Caret, Char(x, TRUE)>>
        BY <2>2, <3>1, Zenon DEF CharsOf
      <4>2. x \in Letters /\ Ctrl(i)
        BY <1>6, <1>8, <2>2, <3>1
      <4> QED BY <1>7, <4>1, <4>2, Zenon
    <3>2. CASE ~h.ctrl
      <4>1. CharsOf(h, x) = <<Char(x, h.shift)>>
        BY <2>2, <3>2, Zenon DEF CharsOf
      <4>2. ~(x \in Letters /\ Ctrl(i)) /\ (x \in Keys /\ ~Ctrl(i) /\ ~Alt(i))
        BY <1>6, <1>8, <2>2, <3>2
      <4> QED BY <1>7, <1>8, <4>1, <4>2, Zenon
    <3> QED BY <3>1, <3>2
  <2> QED BY <2>1, <2>2
<1> QED BY <1>5, <1>9, <1>10 DEF i, x, h

\* What comes later changes neither.
LEMMA EarlierMeaning ==
  ASSUME NEW s \in Seq(Scancodes), NEW x \in Scancodes
  PROVE  /\ \A i \in 1..(Len(s) + 1) : \A down, up :
              LastOf(Append(s, x), i, down, up) = LastOf(s, i, down, up)
         /\ \A i \in 1..Len(s) : Meaning(Append(s, x), i) = Meaning(s, i)
         /\ \A m \in 0..Len(s) : HeldAt(Append(s, x), m) = HeldAt(s, m)
<1> DEFINE t == Append(s, x)
           n == Len(s)
<1>1. n \in Nat /\ \A i \in 1..n : t[i] = s[i]
  OBVIOUS
<1> HIDE DEF t
<1>2. ASSUME NEW i \in 1..(n + 1), NEW down, NEW up PROVE LastOf(t, i, down, up) = LastOf(s, i, down, up)
  <2>1. \A j \in 1..(i - 1) : j \in 1..n /\ t[j] = s[j]
    BY <1>1
  <2>2. \A j \in 1..(i - 1) : \A m \in (j + 1)..(i - 1) : m \in 1..n /\ t[m] = s[m]
    BY <1>1
  <2> QED BY <2>1, <2>2 DEF LastOf
<1>3. ASSUME NEW i \in 1..n PROVE Meaning(t, i) = Meaning(s, i)
  <2>1. t[i] = s[i] /\ i \in 1..(n + 1)
    BY <1>1
  <2>2. /\ LastOf(t, i, "ctrl_down", "ctrl_up") = LastOf(s, i, "ctrl_down", "ctrl_up")
        /\ LastOf(t, i, "alt_down", "alt_up") = LastOf(s, i, "alt_down", "alt_up")
        /\ LastOf(t, i, "shift_down", "shift_up") = LastOf(s, i, "shift_down", "shift_up")
    BY <1>2, <2>1
  <2> QED BY <2>1, <2>2 DEF Meaning
<1>4. ASSUME NEW m \in 0..n PROVE HeldAt(t, m) = HeldAt(s, m)
  <2>1. m + 1 \in 1..(n + 1)
    BY <1>1
  <2>2. /\ LastOf(t, m + 1, "ctrl_down", "ctrl_up") = LastOf(s, m + 1, "ctrl_down", "ctrl_up")
        /\ LastOf(t, m + 1, "alt_down", "alt_up") = LastOf(s, m + 1, "alt_down", "alt_up")
        /\ LastOf(t, m + 1, "shift_down", "shift_up") = LastOf(s, m + 1, "shift_down", "shift_up")
    BY <1>2, <2>1
  <2> QED BY <2>2 DEF HeldAt
<1> QED BY <1>2, <1>3, <1>4 DEF t

\* Fits says that the characters leave one cell free.
LEMMA FitsMeans ==
  ASSUME KeySetUp, NEW r, KeyRingOK(r), NEW cs \in Seq(Characters)
  PROVE  Fits(r, cs) => Filling(r) + Len(cs) <= KEY_BUFFER_SIZE - 1
<1> DEFINE c == KEY_BUFFER_SIZE
           n == Len(cs)
           d == r.read - r.write - 1
<1>1. n \in Nat /\ c \in Nat \ {0}
  BY DEF KeySetUp
<1>2. /\ r \in KeyRings /\ r.read \in 0..(c - 1) /\ r.write \in 0..(c - 1)
  BY DEF KeyRingOK, KeyRings, Cells
<1>3. CASE d >= 1 - c
  <2>1. d \in (1 - c)..(2 * c - 1)
    BY <1>1, <1>2, <1>3
  <2>2. d % c = IF d < 0 THEN d + c ELSE IF d < c THEN d ELSE d - c
    <3> HIDE DEF d
    <3> QED BY <1>1, <2>1, Remainders
  <2> QED BY <1>1, <1>2, <2>2 DEF Fits, Filling
<1>4. CASE d < 1 - c
  <2>1. d = 0 - c /\ Filling(r) = c - 1
    BY <1>1, <1>2, <1>4 DEF Filling
  <2>2. (0 - c) % c = 0
    BY <1>1, SMT
  <2> QED BY <1>1, <2>1, <2>2 DEF Fits
<1> QED BY <1>1, <1>2, <1>3, <1>4

LEMMA Concatenation ==
  ASSUME NEW X, NEW a \in Seq(X), NEW b \in Seq(X), NEW c \in Seq(X)
  PROVE  a \o <<>> = a /\ a \o b \in Seq(X) /\ b \o c \in Seq(X) /\ (a \o b) \o c = a \o (b \o c)
OBVIOUS

\* A scancode means characters of the keyboard.
LEMMA MeaningIs ==
  ASSUME KeySetUp, NEW s \in Seq(Scancodes), NEW i \in 1..Len(s)
  PROVE  /\ Meaning(s, i) \in Seq(Characters)
         /\ \A j \in 1..Len(Meaning(s, i)) : Meaning(s, i)[j] # Serial
<1>1. i - 1 \in 0..(Len(s) - 1) /\ (i - 1) + 1 = i
  OBVIOUS
<1>2. CharsOf(HeldAt(s, i - 1), s[i]) = Meaning(s, i)
  BY <1>1, HeldNext
<1>3. HeldAt(s, i - 1) \in Holds /\ s[i] \in Scancodes \union {None}
  BY DEF HeldAt, Holds, LastOf
<1> QED BY <1>2, <1>3, CharsOfIs

\* Decoded goes on by one scancode at a time.
LEMMA DecodedIs ==
  ASSUME KeySetUp, NEW s \in Seq(Scancodes)
  PROVE  /\ Decoded(s)[0] = <<>>
         /\ \A i \in 1..Len(s) : Decoded(s)[i] = Decoded(s)[i - 1] \o Meaning(s, i)
         /\ \A i \in 0..Len(s) : Decoded(s)[i] \in Seq(Characters)
<1> DEFINE n == Len(s)
           V == Seq(Characters)
           Go(w, i) == w \o Meaning(s, i)
           g == [v \in V \X (1..n) |-> Go(v[1], v[2])]
           Eq(h) == h = [i \in 0..n |-> IF i = 0 THEN <<>> ELSE h[i - 1] \o Meaning(s, i)]
           u == CHOOSE h : Eq(h)
<1>1. n \in Nat /\ <<>> \in V /\ \A i \in 1..n : Meaning(s, i) \in V
  BY MeaningIs
<1>2. \A w \in V, i \in 1..n : Go(w, i) \in V
  BY <1>1
<1> HIDE DEF V
<1>3. g \in [V \X (1..n) -> V]
  <2> SUFFICES ASSUME NEW v \in V \X (1..n) PROVE Go(v[1], v[2]) \in V
    OBVIOUS
  <2>1. v[1] \in V /\ v[2] \in 1..n
    OBVIOUS
  <2> HIDE DEF Go
  <2> QED BY <1>2, <2>1
<1>4. PICK f \in [0..n -> V] : f[0] = <<>> /\ \A i \in 1..n : f[i] = g[<<f[i - 1], i>>]
  <2>1. Recursions(n, V, <<>>, g) # {}
    <3> HIDE DEF n, g
    <3> QED BY <1>1, <1>3, Recursion
  <2> HIDE DEF n, g
  <2> QED BY <2>1 DEF Recursions
<1>5. \A i \in 1..n : f[i] = Go(f[i - 1], i)
  <2> SUFFICES ASSUME NEW i \in 1..n PROVE f[i] = Go(f[i - 1], i)
    OBVIOUS
  <2>1. f[i - 1] \in V
    BY <1>1
  <2> HIDE DEF Go
  <2> QED BY <1>4, <2>1
<1>6. Eq(f)
  <2>1. ASSUME NEW i \in 0..n PROVE f[i] = IF i = 0 THEN <<>> ELSE f[i - 1] \o Meaning(s, i)
    <3>1. CASE i = 0
      BY <1>4, <3>1
    <3>2. CASE i # 0
      <4>1. i \in 1..n
        BY <1>1, <3>2
      <4> QED BY <1>5, <3>2, <4>1
    <3> QED BY <3>1, <3>2
  <2> QED BY <1>4, <2>1
<1>7. Eq(u)
  <2> HIDE DEF Eq
  <2> QED BY <1>6, Zenon
<1>8. \A i \in 0..n : u[i] = IF i = 0 THEN <<>> ELSE u[i - 1] \o Meaning(s, i)
  <2> HIDE DEF u
  <2> QED BY <1>7
<1> HIDE DEF u
<1>9. u[0] = <<>> /\ \A i \in 1..n : u[i] = u[i - 1] \o Meaning(s, i)
  <2>1. 0 \in 0..n /\ \A i \in 1..n : i \in 0..n /\ i # 0
    BY <1>1
  <2> QED BY <1>8, <2>1, Zenon
<1>10. \A i \in 0..n : u[i] \in V
  <2> DEFINE S == {i \in 0..n : u[i] \in V}
  <2>1. 0 \in S
    BY <1>1, <1>9
  <2>2. ASSUME NEW i \in 0..(n - 1), i \in S PROVE i + 1 \in S
    <3>1. i + 1 \in 1..n /\ (i + 1) - 1 = i
      BY <1>1
    <3>2. u[i + 1] = Go(u[i], i + 1)
      BY <1>9, <3>1
    <3>3. u[i + 1] \in V
      <4> HIDE DEF Go
      <4> QED BY <1>2, <2>2, <3>1, <3>2
    <3> QED BY <3>1, <3>3
  <2>3. \A i \in 0..n : i \in S
    <3> HIDE DEF S
    <3> QED BY <1>1, <2>1, <2>2, UpToInduction
  <2> QED BY <2>3
<1>11. Decoded(s) = u
  BY DEF Decoded, u
<1> QED BY <1>9, <1>10, <1>11 DEF V

\* A scancode that arrives later changes nothing of it.
LEMMA DecodedKept ==
  ASSUME KeySetUp, NEW s \in Seq(Scancodes), NEW x \in Scancodes
  PROVE  \A i \in 0..Len(s) : Decoded(Append(s, x))[i] = Decoded(s)[i]
<1> DEFINE t == Append(s, x)
           n == Len(s)
           d == Decoded(s)
           e == Decoded(t)
           T == {i \in 0..n : e[i] = d[i]}
<1>1. n \in Nat /\ Len(t) = n + 1 /\ t \in Seq(Scancodes)
  OBVIOUS
<1>2. d[0] = <<>> /\ \A i \in 1..n : d[i] = d[i - 1] \o Meaning(s, i)
  BY DecodedIs
<1>3. \A i \in 1..n : Meaning(t, i) = Meaning(s, i)
  BY EarlierMeaning
<1> HIDE DEF t
<1>4. e[0] = <<>> /\ \A i \in 1..(n + 1) : e[i] = e[i - 1] \o Meaning(t, i)
  BY <1>1, DecodedIs
<1> HIDE DEF d, e
<1>5. 0 \in T
  BY <1>1, <1>2, <1>4
<1>6. ASSUME NEW i \in 0..(n - 1), i \in T PROVE i + 1 \in T
  <2>1. i + 1 \in 1..n /\ i + 1 \in 1..(n + 1) /\ (i + 1) - 1 = i
    BY <1>1
  <2>2. e[i + 1] = e[i] \o Meaning(t, i + 1) /\ d[i + 1] = d[i] \o Meaning(s, i + 1)
    BY <1>2, <1>4, <2>1
  <2>3. e[i] = d[i] /\ Meaning(t, i + 1) = Meaning(s, i + 1)
    BY <1>3, <1>6, <2>1
  <2>4. e[i + 1] = d[i + 1]
    BY <2>2, <2>3, Zenon
  <2>5. i + 1 \in 0..n
    BY <1>1
  <2> QED BY <2>4, <2>5
<1>7. \A i \in 0..n : i \in T
  <2> HIDE DEF T
  <2> QED BY <1>1, <1>5, <1>6, UpToInduction
<1> QED BY <1>7 DEF d, e, t

\* What a prefix means is a prefix of what the whole means.
LEMMA DecodedGrows ==
  ASSUME KeySetUp, NEW s \in Seq(Scancodes), NEW m \in 0..Len(s)
  PROVE  \E v \in Seq(Characters) : Decode(s) = Decoded(s)[m] \o v
<1> DEFINE n == Len(s)
           d == Decoded(s)
           Ok(i) == \E v \in Seq(Characters) : d[i] = d[m] \o v
           T == {j \in 0..(n - m) : Ok(m + j)}
<1>1. n \in Nat /\ m \in 0..n /\ n - m \in Nat /\ m + 0 = m /\ m + (n - m) = n
  OBVIOUS
<1>2. (\A i \in 1..n : d[i] = d[i - 1] \o Meaning(s, i)) /\ (\A i \in 0..n : d[i] \in Seq(Characters))
  BY DecodedIs
<1>3. \A i \in 1..n : Meaning(s, i) \in Seq(Characters)
  BY MeaningIs
<1> HIDE DEF d
<1>4. 0 \in T
  <2>1. d[m] = d[m] \o <<>> /\ <<>> \in Seq(Characters)
    BY <1>2
  <2>2. Ok(m)
    BY <2>1
  <2> HIDE DEF Ok
  <2> QED BY <1>1, <2>2
<1>5. ASSUME NEW j \in 0..((n - m) - 1), j \in T PROVE j + 1 \in T
  <2> DEFINE i == m + j
  <2>1. i + 1 \in 1..n /\ (i + 1) - 1 = i /\ m + (j + 1) = i + 1 /\ j + 1 \in 0..(n - m) /\ m \in 0..n
    BY <1>1
  <2>2. Ok(i)
    <3> HIDE DEF Ok
    <3> QED BY <1>5
  <2>3. PICK v \in Seq(Characters) : d[i] = d[m] \o v
    BY <2>2
  <2> HIDE DEF i
  <2>4. d[i + 1] = d[i] \o Meaning(s, i + 1) /\ Meaning(s, i + 1) \in Seq(Characters)
    BY <1>2, <1>3, <2>1
  <2> DEFINE w == v \o Meaning(s, i + 1)
  <2>5. w \in Seq(Characters) /\ (d[m] \o v) \o Meaning(s, i + 1) = d[m] \o w
    <3>1. d[m] \in Seq(Characters)
      BY <1>2, <2>1
    <3> DEFINE y == Meaning(s, i + 1)
               z == d[m]
    <3>2. y \in Seq(Characters) /\ z \in Seq(Characters)
      BY <2>4, <3>1
    <3> HIDE DEF y, z
    <3>3. v \o y \in Seq(Characters)
      BY <3>2
    <3>4. (z \o v) \o y = z \o (v \o y)
      BY <3>2
    <3> QED BY <3>3, <3>4 DEF y, z
  <2>6. d[i + 1] = d[m] \o w
    BY <2>3, <2>4, <2>5
  <2>7. Ok(i + 1)
    <3> HIDE DEF w
    <3> QED BY <2>5, <2>6
  <2> HIDE DEF Ok
  <2> QED BY <2>1, <2>7
<1>6. \A j \in 0..(n - m) : j \in T
  <2> HIDE DEF T
  <2> QED BY <1>1, <1>4, <1>5, UpToInduction
<1>7. Ok(n)
  <2> HIDE DEF Ok
  <2>1. n - m \in 0..(n - m)
    BY <1>1
  <2>2. Ok(m + (n - m))
    <3>1. n - m \in T
      BY <1>6, <2>1
    <3> QED BY <3>1
  <2> QED BY <1>1, <2>2
<1> QED BY <1>7 DEF d, Decode

\* The characters arrive in the buffer in their order, and all of them do
\* unless it is too full.
LEMMA PutsOrder ==
  ASSUME KeySetUp, NEW r, KeyRingOK(r), NEW cs \in Seq(Characters)
  PROVE  \E u \in Seq(Characters) :
           /\ Buffered(buffer_puts(r, cs)) = Buffered(r) \o u
           /\ SubsequenceOf(u, cs)
           /\ Fits(r, cs) => u = cs
<1> DEFINE n == Len(cs)
           c == KEY_BUFFER_SIZE
           P(i) == SubSeq(cs, 1, i)
<1>1. PICK f \in [0..n -> GoodRings] :
        /\ f[0] = r /\ \A i \in 1..n : f[i] = buffer_put(f[i - 1], cs[i])
        /\ buffer_puts(r, cs) = f[n]
  BY PutsWalk
<1> DEFINE B(i) == Buffered(f[i])
           Went(i, u) == /\ B(i) = B(0) \o u
                         /\ SubsequenceOf(u, P(i))
                         /\ Len(B(0)) + i <= c - 1 => u = P(i)
           T == {i \in 0..n : \E u \in Seq(Characters) : Went(i, u)}
<1>2. n \in Nat /\ c \in Nat \ {0} /\ \A i \in 1..n : cs[i] \in Characters
  BY DEF KeySetUp
<1>3. ASSUME NEW i \in 0..n
      PROVE  /\ KeyRingOK(f[i]) /\ B(i) \in Seq(Characters) /\ Len(B(i)) = Filling(f[i])
             /\ Len(B(i)) \in 0..(c - 1)
  <2>1. f[i] \in KeyRings /\ KeyRingOK(f[i])
    BY <1>1 DEF GoodRings
  <2>2. B(i) \in Seq(Characters)
    BY <2>1, GetTakes
  <2>3. Len(B(i)) = Filling(f[i]) /\ Filling(f[i]) \in 0..(c - 1)
    BY <2>1, BufferedIs
  <2> QED BY <2>1, <2>2, <2>3
<1>4. P(0) = <<>> /\ P(n) = cs /\ \A i \in 0..n : P(i) \in Seq(Characters) /\ Len(P(i)) = i
  BY <1>2
<1>5. ASSUME NEW i \in 0..(n - 1)
      PROVE  /\ i \in 0..n /\ i + 1 \in 0..n /\ i + 1 \in 1..n /\ P(i + 1) = P(i) \o <<cs[i + 1]>>
             /\ <<cs[i + 1]>> \in Seq(Characters)
  BY <1>2
<1>6. ASSUME NEW i \in 0..(n - 1)
      PROVE  B(i + 1) = IF Len(B(i)) < c - 1 THEN B(i) \o <<cs[i + 1]>> ELSE B(i)
  <2>1. i \in 0..n /\ i + 1 \in 1..n /\ (i + 1) - 1 = i
    BY <1>2
  <2>2. f[i + 1] = buffer_put(f[i], cs[i + 1]) /\ cs[i + 1] \in Characters
    BY <1>1, <1>2, <2>1
  <2>3. KeyRingOK(f[i]) /\ B(i) \in Seq(Characters) /\ Len(B(i)) = Filling(f[i])
    BY <1>3, <2>1
  <2>4. B(i + 1) = IF Filling(f[i]) < c - 1 THEN Append(B(i), cs[i + 1]) ELSE B(i)
    BY <2>2, <2>3, PutAppends
  <2>5. Append(B(i), cs[i + 1]) = B(i) \o <<cs[i + 1]>>
    <3> HIDE DEF B
    <3> QED BY <2>2, <2>3
  <2> HIDE DEF B
  <2> QED BY <2>3, <2>4, <2>5
<1>7. B(0) = Buffered(r) /\ B(n) = Buffered(buffer_puts(r, cs)) /\ Len(B(0)) = Filling(r)
  <2>1. 0 \in 0..n
    BY <1>2
  <2> QED BY <1>1, <1>3, <2>1
<1> HIDE DEF B, P
<1>8. 0 \in T
  <2>1. 0 \in 0..n /\ <<>> \in Seq(Characters)
    BY <1>2
  <2>2. B(0) = B(0) \o <<>> /\ SubsequenceOf(<<>>, <<>>)
    <3>1. B(0) \in Seq(Characters)
      BY <1>3, <2>1
    <3>2. B(0) \o <<>> = B(0)
      BY <2>1, <3>1, Concatenation
    <3> QED BY <2>1, <3>2, SubsequenceSelf
  <2>3. Went(0, <<>>)
    BY <1>4, <2>2
  <2> HIDE DEF Went
  <2> QED BY <2>1, <2>3
<1>9. ASSUME NEW i \in 0..(n - 1), i \in T PROVE i + 1 \in T
  <2> DEFINE x == <<cs[i + 1]>>
  <2>1. /\ i \in 0..n /\ i + 1 \in 0..n /\ P(i + 1) = P(i) \o x /\ x \in Seq(Characters)
        /\ P(i) \in Seq(Characters)
    BY <1>4, <1>5
  <2>2. PICK u \in Seq(Characters) : Went(i, u)
    BY <1>9
  <2>3. /\ B(i) = B(0) \o u /\ SubsequenceOf(u, P(i)) /\ (Len(B(0)) + i <= c - 1 => u = P(i))
    BY <2>2
  <2>4. B(0) \in Seq(Characters) /\ Len(B(0)) \in Nat /\ B(i) \in Seq(Characters) /\ Len(B(i)) \in Nat
    BY <1>2, <1>3, <2>1
  <2> HIDE DEF x
  <2>5. SubsequenceOf(x, x) /\ SubsequenceOf(<<>>, x) /\ u \o <<>> = u /\ <<>> \in Seq(Characters)
    BY <2>1, SubsequenceSelf
  <2>6. SubsequenceOf(u \o x, P(i) \o x)
    BY <2>1, <2>3, <2>5, SubsequenceConcat
  <2>7. SubsequenceOf(u \o <<>>, P(i) \o x)
    BY <2>1, <2>3, <2>5, SubsequenceConcat
  <2>8. CASE Len(B(i)) < c - 1
    <3>1. B(i + 1) = B(i) \o x
      BY <1>6, <2>8 DEF x
    <3>2. B(i + 1) = B(0) \o (u \o x) /\ u \o x \in Seq(Characters)
      <4>1. B(0) \in Seq(Characters) /\ x \in Seq(Characters)
        BY <2>1, <2>4
      <4>2. u \o x \in Seq(Characters)
        BY <4>1
      <4>3. (B(0) \o u) \o x = B(0) \o (u \o x)
        BY <4>1
      <4> QED BY <2>3, <3>1, <4>2, <4>3, Zenon
    <3>3. Len(B(0)) + (i + 1) <= c - 1 => u \o x = P(i + 1)
      <4>1. Len(B(0)) + (i + 1) <= c - 1 => Len(B(0)) + i <= c - 1
        BY <1>2, <2>4
      <4> QED BY <2>1, <2>3, <4>1
    <3>4. Went(i + 1, u \o x)
      BY <2>1, <2>6, <3>2, <3>3
    <3> HIDE DEF Went
    <3> QED BY <2>1, <3>2, <3>4
  <2>9. CASE ~(Len(B(i)) < c - 1)
    <3>1. B(i + 1) = B(i)
      BY <1>6, <2>9
    <3>2. ~(Len(B(0)) + (i + 1) <= c - 1)
      <4> SUFFICES ASSUME Len(B(0)) + (i + 1) <= c - 1 PROVE FALSE
        OBVIOUS
      <4>1. Len(B(0)) + i <= c - 1
        BY <1>2, <2>4
      <4>2. u = P(i) /\ Len(P(i)) = i
        BY <1>4, <2>1, <2>3, <4>1
      <4>3. Len(B(i)) = Len(B(0)) + Len(u)
        BY <2>3, <2>4
      <4>4. Len(B(i)) = Len(B(0)) + i
        BY <4>2, <4>3
      <4> HIDE DEF n, c
      <4> QED BY <1>2, <2>4, <2>9, <4>4
    <3>3. Went(i + 1, u)
      BY <2>1, <2>3, <2>5, <2>7, <3>1, <3>2
    <3> HIDE DEF Went
    <3> QED BY <2>1, <3>3
  <2> QED BY <2>8, <2>9
<1>10. \A i \in 0..n : i \in T
  <2> HIDE DEF T
  <2> QED BY <1>2, <1>8, <1>9, UpToInduction
<1>11. PICK u \in Seq(Characters) : Went(n, u)
  <2> HIDE DEF Went
  <2> QED BY <1>2, <1>10
<1>12. Fits(r, cs) => Filling(r) + n <= c - 1
  BY FitsMeans
<1> QED BY <1>4, <1>7, <1>11, <1>12

-----------------------------------------------------------------------------
(* The order of the keys.                                                  *)

\* The scancodes t after the first m are on their way: in hand (h of them), in
\* the FIFO and in the port.
Line(t, m, h, e, c, p) ==
  /\ Len(t) = m + h + Len(c) + (IF p.full THEN 1 ELSE 0)
  /\ h = 1 => e.payload = t[m + 1]
  /\ \A i \in 1..Len(c) : c[i].payload = t[m + h + i]
  /\ p.full => p.byte = t[Len(t)]

\* An event that kbd_process has yet to see.
InHand == IF MoreHandlers THEN 1 ELSE 0

\* What has gone through kbd_process.
Through == Keyed(got \o Buffered(ring))

InLine(m) ==
  /\ Line(typed, m, InHand, evt, Contents(irq_fifo), port)
  /\ held = HeldAt(typed, m)
  /\ SubsequenceOf(Through, Decoded(typed)[m])
  /\ full \/ Through = Decoded(typed)[m]

\* As long as kbd_isr has not raced with the interrupt and the FIFO has
\* dropped nothing, kbd_process sees the scancodes in the order typed.
Ordered ==
  \/ raced \/ lost
  \/ /\ irq1 <=> port.full
     /\ sc = None
     /\ \E m \in 0..Len(typed) : InLine(m)

\* A character that is taken changes nothing of what has gone through.
LEMMA TakesKeeps ==
  ASSUME KeySetUp, NEW r, KeyRingOK(r), got \in Seq(Characters), Takes(r)
  PROVE  got' \o Buffered(ring') = got \o Buffered(r)
<1>1. Buffered(r) \in Seq(Characters) /\ (Empty(r) <=> Buffered(r) = <<>>)
  BY GetTakes
<1>2. CASE Empty(r)
  BY <1>2 DEF Takes, Drained
<1>3. CASE ~Empty(r)
  <2> DEFINE b == Buffered(r)
             x == buffer_get(r)
  <2>1. x = Head(b) /\ x \in Characters /\ Buffered(Drained(r)) = Tail(b)
    BY <1>3, GetTakes
  <2>2. got' = Append(got, x) /\ ring' = Drained(r)
    BY <1>3 DEF Takes
  <2>3. b \in Seq(Characters) /\ b # <<>>
    BY <1>1, <1>3
  <2>4. PICK s \in Seq(Characters) : s = got
    OBVIOUS
  <2> HIDE DEF b, x
  <2>5. Append(s, Head(b)) \o Tail(b) = s \o b
    BY <2>3
  <2>6. Buffered(ring') = Tail(b)
    BY <2>1, <2>2
  <2> QED BY <2>1, <2>2, <2>4, <2>5, <2>6 DEF b
<1> QED BY <1>2, <1>3

\* What is in a subsequence is in the sequence.
LEMMA SubsequenceMember ==
  ASSUME NEW X, NEW u \in Seq(X), NEW v \in Seq(X), SubsequenceOf(u, v), NEW i \in 1..Len(u)
  PROVE  \E j \in 1..Len(v) : u[i] = v[j]
<1>1. PICK f \in [1..Len(u) -> 1..Len(v)] : \A k \in 1..Len(u) : u[k] = v[f[k]]
  BY DEF SubsequenceOf
<1> QED BY <1>1

\* What a polling adds is not from the keyboard.
LEMMA PollKeeps ==
  ASSUME KeySetUp, KeyTypes
  PROVE  Keyed(got \o Buffered(Polled)) = Keyed(got \o Buffered(ring))
<1>1. /\ SerialChars \in Seq(Characters) /\ KeyRingOK(ring) /\ got \in Seq(Characters)
      /\ \A i \in 1..Len(SerialChars) : SerialChars[i] = Serial
  BY SerialCharsAre DEF KeyTypes
<1>2. PICK u \in Seq(Characters) : Buffered(Polled) = Buffered(ring) \o u /\ SubsequenceOf(u, SerialChars)
  BY <1>1, PutsOrder DEF Polled
<1>3. \A i \in 1..Len(u) : u[i] = Serial
  BY <1>1, <1>2, SubsequenceMember
<1>4. Keyed(u) = <<>>
  BY <1>3, KeyedAll
<1>5. Buffered(ring) \in Seq(Characters)
  BY <1>1, GetTakes
<1> DEFINE s == got \o Buffered(ring)
<1>6. s \in Seq(Characters) /\ got \o (Buffered(ring) \o u) = s \o u
  <2>1. PICK a \in Seq(Characters) : a = got
    BY <1>1
  <2>2. PICK b \in Seq(Characters) : b = Buffered(ring)
    BY <1>5
  <2>3. a \o b \in Seq(Characters) /\ a \o (b \o u) = (a \o b) \o u
    OBVIOUS
  <2> QED BY <2>1, <2>2, <2>3
<1> HIDE DEF s
<1>7. Keyed(s \o u) = Keyed(s) \o <<>>
  BY <1>4, <1>6, KeyedConcat
<1>8. Keyed(s) \o <<>> = Keyed(s)
  <2>1. PICK k : KeyedSteps(s, k) /\ Keyed(s) = k[Len(s)]
    BY <1>6, KeyedWalk
  <2>2. Keyed(s) \in Seq(Characters)
    BY <1>6, <2>1 DEF KeyedSteps
  <2> QED BY <2>2
<1> QED BY <1>2, <1>6, <1>7, <1>8 DEF s

\* Putting the characters k into the buffer r adds some of them, and all if
\* they fit, behind what has gone through.
NoSerial(k) == \A i \in 1..Len(k) : k[i] # Serial
Adds(r, g, k) ==
  \E u \in Seq(Characters) :
    /\ Keyed(g \o Buffered(buffer_puts(r, k))) = Keyed(g \o Buffered(r)) \o u
    /\ SubsequenceOf(u, k)
    /\ Fits(r, k) => u = k

LEMMA ProcessAdds ==
  ASSUME KeySetUp, NEW r, KeyRingOK(r), NEW a \in Seq(Characters), NEW cs \in Seq(Characters),
         NoSerial(cs)
  PROVE  Adds(r, a, cs)
<1>1. PICK u \in Seq(Characters) :
        /\ Buffered(buffer_puts(r, cs)) = Buffered(r) \o u
        /\ SubsequenceOf(u, cs) /\ (Fits(r, cs) => u = cs)
  BY PutsOrder
<1>2. \A i \in 1..Len(u) : u[i] # Serial
  BY <1>1, SubsequenceMember DEF NoSerial
<1>3. Keyed(u) = u
  BY <1>2, KeyedAll
<1>4. PICK b \in Seq(Characters) : b = Buffered(r)
  BY GetTakes
<1>5. a \o b \in Seq(Characters) /\ a \o (b \o u) = (a \o b) \o u
  OBVIOUS
<1>6. Keyed((a \o b) \o u) = Keyed(a \o b) \o u
  BY <1>3, <1>5, KeyedConcat
<1> QED BY <1>1, <1>4, <1>5, <1>6 DEF Adds

\* An event is in hand until the second handler has been called.
LEMMA InHandNext ==
  ASSUME KeySetUp, KeyTypes, [KNext]_kVars
  PROVE  /\ InHand = IF evt # NoEvent /\ idx < 2 THEN 1 ELSE 0
         /\ InHand' = IF evt' # NoEvent /\ idx' < 2 THEN 1 ELSE 0
<1>1. KeyTypes'
  BY KeyTypesStep
<1>2. irq_table = [v \in Vectors |-> TwoHandlers] /\ evt \in Events \union {NoEvent} /\ idx \in Nat
  BY DEF KeyTypes, TypeOK
<1>3. irq_table' = [v \in Vectors |-> TwoHandlers] /\ evt' \in Events \union {NoEvent} /\ idx' \in Nat
  BY <1>1 DEF KeyTypes, TypeOK
<1>4. MoreHandlers <=> evt # NoEvent /\ idx < 2
  BY <1>2, HandlersLeft DEF MoreHandlers
<1>5. (evt' # NoEvent /\ idx' < Len(irq_table'[evt'.vec])) <=> (evt' # NoEvent /\ idx' < 2)
  BY <1>3, HandlersLeft
<1>6. MoreHandlers' <=> evt' # NoEvent /\ idx' < 2
  BY <1>5 DEF MoreHandlers
<1> QED BY <1>4, <1>6 DEF InHand

\* The line when a scancode arrives, is raised, is taken and is processed.
LEMMA LineArrives ==
  ASSUME NEW t \in Seq(Scancodes), NEW m \in 0..Len(t), NEW h \in {0, 1}, NEW e,
         NEW c \in Seq(Events), NEW p, ~p.full, Line(t, m, h, e, c, p), NEW s \in Scancodes
  PROVE  Line(Append(t, s), m, h, e, c, [full |-> TRUE, byte |-> s])
<1> DEFINE n == Len(t)
           t2 == Append(t, s)
           p2 == [full |-> TRUE, byte |-> s]
<1>1. n \in Nat /\ Len(c) \in Nat /\ m \in Nat /\ h \in Nat /\ Len(t2) = n + 1 /\ t2[n + 1] = s
      /\ \A i \in 1..n : t2[i] = t[i]
  OBVIOUS
<1>2. /\ n = m + h + Len(c) /\ (h = 1 => e.payload = t[m + 1])
      /\ \A i \in 1..Len(c) : c[i].payload = t[m + h + i]
  BY <1>1 DEF Line
<1>3. p2.full /\ p2.byte = s
  OBVIOUS
<1> HIDE DEF t2, p2, n
<1>4. h = 1 => e.payload = t2[m + 1]
  <2>1. h = 1 => m + 1 \in 1..n
    BY <1>1, <1>2
  <2> QED BY <1>1, <1>2, <2>1
<1>5. \A i \in 1..Len(c) : c[i].payload = t2[m + h + i]
  <2>1. \A i \in 1..Len(c) : m + h + i \in 1..n
    BY <1>1, <1>2
  <2> QED BY <1>1, <1>2, <2>1
<1>6. Len(t2) = m + h + Len(c) + 1
  BY <1>1, <1>2
<1>7. p2.full => p2.byte = t2[Len(t2)]
  BY <1>1, <1>3
<1>8. Line(t2, m, h, e, c, p2)
  BY <1>3, <1>4, <1>5, <1>6, <1>7 DEF Line
<1> QED BY <1>8 DEF t2, p2

LEMMA LineRaised ==
  ASSUME KeySetUp, NEW t \in Seq(Scancodes), NEW m \in 0..Len(t), NEW h \in {0, 1}, NEW e,
         NEW c \in Seq(Events), NEW p, NEW q, p.full, ~q.full, p.byte \in Scancodes,
         Line(t, m, h, e, c, p)
  PROVE  Line(t, m, h, e, Append(c, Event(p.byte)), q)
<1> DEFINE x == Event(p.byte)
           d == Append(c, x)
           n == Len(c)
<1>1. x \in Events /\ x.payload = p.byte
  BY EventOf
<1> HIDE DEF x
<1>2. n \in Nat /\ m \in Nat /\ h \in Nat /\ Len(t) \in Nat /\ Len(d) = n + 1 /\ d[n + 1] = x
      /\ \A i \in 1..n : d[i] = c[i]
  BY <1>1
<1>3. /\ Len(t) = m + h + n + 1 /\ (h = 1 => e.payload = t[m + 1])
      /\ (\A i \in 1..n : c[i].payload = t[m + h + i]) /\ p.byte = t[Len(t)]
  BY DEF Line
<1> HIDE DEF d, n
<1>4. ASSUME NEW i \in 1..(n + 1) PROVE d[i].payload = t[m + h + i]
  <2>1. CASE i = n + 1
    <3>1. m + h + i = Len(t)
      BY <1>2, <1>3, <2>1
    <3> QED BY <1>1, <1>2, <1>3, <2>1, <3>1
  <2>2. CASE i # n + 1
    <3>1. i \in 1..n
      BY <1>2, <2>2
    <3> QED BY <1>2, <1>3, <3>1
  <2> QED BY <2>1, <2>2
<1>5. Len(t) = m + h + (n + 1) + 0
  BY <1>2, <1>3
<1>6. Line(t, m, h, e, d, q)
  BY <1>2, <1>3, <1>4, <1>5 DEF Line
<1> QED BY <1>6 DEF d, x

LEMMA LineTaken ==
  ASSUME NEW t \in Seq(Scancodes), NEW m \in 0..Len(t), NEW e, NEW c \in Seq(Events), c # <<>>,
         NEW p, p.full \in BOOLEAN, Line(t, m, 0, e, c, p)
  PROVE  Line(t, m, 1, Head(c), Tail(c), p)
<1> DEFINE n == Len(c)
           d == Tail(c)
           w == IF p.full THEN 1 ELSE 0
<1>1. n \in Nat \ {0} /\ m \in Nat /\ Len(d) = n - 1 /\ Head(c) = c[1] /\ w \in Nat
      /\ \A i \in 1..(n - 1) : d[i] = c[i + 1]
  OBVIOUS
<1>2. /\ Len(t) = m + 0 + n + w /\ (p.full => p.byte = t[Len(t)])
      /\ \A i \in 1..n : c[i].payload = t[m + 0 + i]
  BY DEF Line
<1> HIDE DEF n, d, w
<1>3. Head(c).payload = t[m + 1]
  <2>1. 1 \in 1..n /\ m + 0 + 1 = m + 1
    BY <1>1
  <2> QED BY <1>1, <1>2, <2>1
<1>4. ASSUME NEW i \in 1..(n - 1) PROVE d[i].payload = t[m + 1 + i]
  <2>1. i + 1 \in 1..n /\ m + 0 + (i + 1) = m + 1 + i
    BY <1>1
  <2>2. c[i + 1].payload = t[m + 0 + (i + 1)]
    BY <1>2, <2>1
  <2> QED BY <1>1, <2>1, <2>2
<1>5. Len(t) = m + 1 + (n - 1) + w
  BY <1>1, <1>2
<1> QED BY <1>1, <1>2, <1>3, <1>4, <1>5 DEF Line, d, w

LEMMA LineProcessed ==
  ASSUME NEW t \in Seq(Scancodes), NEW m \in 0..Len(t), NEW e, NEW c \in Seq(Events),
         NEW p, p.full \in BOOLEAN, Line(t, m, 1, e, c, p)
  PROVE  m \in 0..(Len(t) - 1) /\ e.payload = t[m + 1] /\ Line(t, m + 1, 0, e, c, p)
<1> DEFINE n == Len(c)
           w == IF p.full THEN 1 ELSE 0
<1>1. n \in Nat /\ m \in Nat /\ w \in Nat
  OBVIOUS
<1>2. /\ Len(t) = m + 1 + n + w /\ (p.full => p.byte = t[Len(t)])
      /\ (\A i \in 1..n : c[i].payload = t[m + 1 + i]) /\ e.payload = t[m + 1]
  BY DEF Line
<1> HIDE DEF n, w
<1>3. m \in 0..(Len(t) - 1) /\ Len(t) = (m + 1) + 0 + n + w
  BY <1>1, <1>2
<1>4. \A i \in 1..n : c[i].payload = t[(m + 1) + 0 + i]
  <2>1. \A i \in 1..n : (m + 1) + 0 + i = m + 1 + i
    BY <1>1
  <2> QED BY <1>2, <2>1
<1> QED BY <1>2, <1>3, <1>4 DEF Line, n, w

\* Every step keeps the order of the keys.
LEMMA OrderedStep ==
  ASSUME KeySetUp, KeyTypes, Ordered, [KNext]_kVars
  PROVE  Ordered'
<1> DEFINE c == Contents(irq_fifo)
           Goal == /\ irq1' <=> port'.full
                   /\ sc' = None
                   /\ \E k \in 0..Len(typed') : InLine(k)'
<1>1. /\ RingOK(irq_fifo) /\ typed \in Seq(Scancodes) /\ port \in Ports /\ port.full \in BOOLEAN
      /\ held \in Holds /\ KeyRingOK(ring) /\ got \in Seq(Characters)
      /\ evt \in Events \union {NoEvent} /\ NoEvent \notin Events
      /\ (port.full \/ pc = "isr_data" => port.byte # None) /\ (pc = "isr_raise" <=> sc # None)
      /\ port.byte \in Scancodes \union {None}
  BY RingOfType, InterruptAssumption DEF KeyTypes, TypeOK, Ports
<1>2. c \in Seq(Events) /\ Buffered(ring) \in Seq(Characters)
  BY <1>1, ContentsSeq, GetTakes
<1>3. (raced => raced') /\ (lost => lost')
  <2>1. CASE \E s \in Scancodes : KeyArrives(s)
    <3>1. PICK s \in Scancodes : KeyArrives(s)
      BY <2>1
    <3> QED BY <3>1, Zenon DEF KeyArrives
  <2>2. CASE IrqTaken
    BY <2>2, Zenon DEF IrqTaken, Irq33
  <2>3. CASE IsrData
    BY <2>3, Zenon DEF IsrData
  <2>4. CASE IsrRaise
    BY <2>4, Zenon DEF IsrRaise
  <2>5. CASE TimerTick \/ SerialArrives \/ Dispatch \/ IsrStatus \/ DispatchEnds
    <3>1. UNCHANGED <<raced, lost>>
      BY <2>5 DEF TimerTick, SerialArrives, Dispatch, IsrStatus, DispatchEnds, MainOnly
    <3> QED BY <3>1
  <2>7. CASE kbd_process
    BY <2>7, Zenon DEF kbd_process
  <2>8. CASE shell_readline_and_execute
    BY <2>8, Zenon DEF shell_readline_and_execute
  <2>9. CASE keyboard_getchar
    BY <2>9, Zenon DEF keyboard_getchar
  <2>10. CASE UNCHANGED kVars
    BY <2>10 DEF kVars, keyVars
  <2> QED BY <2>1, <2>2, <2>3, <2>4, <2>5, <2>7, <2>8, <2>9, <2>10, Zenon DEF KNext, Main
<1>4. SUFFICES ASSUME ~raced', ~lost' PROVE Goal
  BY DEF Ordered
<1>5. (irq1 <=> port.full) /\ sc = None /\ \E m \in 0..Len(typed) : InLine(m)
  BY <1>3, <1>4 DEF Ordered
<1>6. PICK m \in 0..Len(typed) : InLine(m)
  BY <1>5
<1>7. /\ Line(typed, m, InHand, evt, c, port) /\ held = HeldAt(typed, m)
      /\ SubsequenceOf(Through, Decoded(typed)[m])
      /\ full \/ Through = Decoded(typed)[m]
  BY <1>6 DEF InLine
<1>8. /\ InHand = (IF evt # NoEvent /\ idx < 2 THEN 1 ELSE 0) /\ InHand \in {0, 1}
      /\ InHand' = (IF evt' # NoEvent /\ idx' < 2 THEN 1 ELSE 0)
  BY InHandNext
<1>9. Contents(irq_fifo)' = Contents(irq_fifo') /\ (UNCHANGED irq_fifo => Contents(irq_fifo') = c)
  OBVIOUS
<1>10. Through' = Keyed(got' \o Buffered(ring')) /\ (UNCHANGED <<got, ring>> => Through' = Through)
  BY DEF Through
<1>11. ASSUME UNCHANGED <<typed, held, sc>>, Through' = Through, full => full', irq1' <=> port'.full,
              Line(typed, m, InHand', evt', Contents(irq_fifo'), port')
       PROVE  Goal
  <2>1. InLine(m)'
    BY <1>7, <1>9, <1>11 DEF InLine
  <2> QED BY <1>5, <1>11, <2>1
<1> HIDE DEF c
<1>12. ASSUME NEW s \in Scancodes, KeyArrives(s) PROVE Goal
  <2>1. /\ ~port.full /\ typed' = Append(typed, s) /\ port' = [full |-> TRUE, byte |-> s] /\ irq1' = TRUE
        /\ UNCHANGED <<irq_fifo, evt, idx, sc, ring, held, got, full>>
    BY <1>12 DEF KeyArrives, vars
  <2>2. InHand' = InHand /\ Through' = Through
    BY <1>8, <1>10, <2>1
  <2>3. Line(Append(typed, s), m, InHand, evt, c, [full |-> TRUE, byte |-> s])
    BY <1>1, <1>2, <1>7, <1>8, <2>1, LineArrives
  <2>4. Line(typed', m, InHand', evt', Contents(irq_fifo'), port')
    BY <1>9, <2>1, <2>2, <2>3
  <2>5. HeldAt(typed', m) = HeldAt(typed, m) /\ Decoded(typed')[m] = Decoded(typed)[m]
    BY <1>1, <2>1, EarlierMeaning, DecodedKept
  <2>6. InLine(m)'
    BY <1>7, <1>9, <2>1, <2>2, <2>4, <2>5 DEF InLine
  <2>7. m \in 0..Len(typed') /\ port'.full
    BY <1>1, <2>1
  <2> QED BY <1>5, <2>1, <2>6, <2>7
<1>13. CASE IrqTaken
  <2>1. /\ irq1 /\ irq_fifo' = fifo_push(irq_fifo, Event(IF port.full THEN port.byte ELSE None))
        /\ UNCHANGED <<evt, idx, sc, ring, got, typed, full, held>>
        /\ port' = [port EXCEPT !.full = FALSE] /\ irq1' = FALSE
        /\ lost' = (lost \/ (fifo_is_full(irq_fifo) /\ Event(IF port.full THEN port.byte ELSE None).payload # None))
    BY <1>13 DEF IrqTaken, Irq33
  <2>2. port.full
    BY <1>5, <2>1
  <2>3. irq_fifo' = fifo_push(irq_fifo, Event(port.byte)) /\ port.byte \in Scancodes
        /\ Event(port.byte).payload = port.byte /\ Event(port.byte) \in Events
    BY <1>1, <2>1, <2>2, EventOf
  <2>4. ~fifo_is_full(irq_fifo)
    BY <1>1, <1>4, <2>1, <2>2, <2>3
  <2>5. Contents(irq_fifo') = Append(c, Event(port.byte))
    <3>1. Len(c) = irq_fifo.count /\ irq_fifo.count \in Nat /\ FIFO_CAPACITY \in Nat
      BY <1>1, ContentsSeq, InterruptAssumption DEF RingOK, Rings, c
    <3>2. Len(c) < FIFO_CAPACITY
      BY <2>4, <3>1 DEF fifo_is_full
    <3> QED BY <1>1, <2>3, <3>2, PushAppends DEF c
  <2>6. ~port'.full
    BY <1>1, <2>1 DEF Ports
  <2>7. Line(typed, m, InHand, evt, Append(c, Event(port.byte)), port')
    BY <1>1, <1>2, <1>7, <1>8, <2>2, <2>3, <2>6, LineRaised
  <2>8. InHand' = InHand /\ Through' = Through
    BY <1>8, <1>10, <2>1
  <2> QED BY <1>11, <2>1, <2>5, <2>6, <2>7, <2>8
<1>14. CASE Dispatch
  <2>1. UNCHANGED <<port, sc, ring, got, typed, full, held, irq1>> /\ evt = NoEvent
    BY <1>14 DEF Dispatch, MainOnly
  <2>2. Through' = Through
    BY <1>10, <2>1
  <2>3. CASE Pop
    <3>1. /\ ~fifo_is_empty(irq_fifo) /\ evt' = irq_fifo.buf[irq_fifo.head]
          /\ irq_fifo' = fifo_popped(irq_fifo) /\ idx' = 0
      BY <2>3 DEF Pop
    <3>2. c # <<>> /\ evt' = Head(c) /\ evt' \in Events /\ Contents(irq_fifo') = Tail(c)
      BY <1>1, <3>1, PopTakes DEF c
    <3>3. InHand = 0 /\ InHand' = 1
      BY <1>1, <1>8, <2>1, <3>1, <3>2
    <3>4. Line(typed, m, 1, Head(c), Tail(c), port)
      BY <1>1, <1>2, <1>7, <3>2, <3>3, LineTaken
    <3>5. Line(typed, m, InHand', evt', Contents(irq_fifo'), port')
      BY <2>1, <3>2, <3>3, <3>4
    <3> QED BY <1>5, <1>11, <2>1, <2>2, <3>5
  <2>4. CASE UNCHANGED vars
    <3>1. UNCHANGED <<irq_fifo, evt, idx>>
      BY <2>4 DEF vars
    <3>2. Line(typed, m, InHand', evt', Contents(irq_fifo'), port')
      BY <1>7, <1>8, <1>9, <2>1, <3>1
    <3> QED BY <1>5, <1>11, <2>1, <2>2, <3>2
  <2> QED BY <1>14, <2>3, <2>4 DEF Dispatch
<1>15. CASE IsrStatus
  <2>1. /\ UNCHANGED <<port, sc, ring, got, typed, full, held, irq1, irq_fifo, evt>>
        /\ MoreHandlers /\ NextHandler = "kbd_isr" /\ (idx' = idx \/ idx' = idx + 1)
    BY <1>15 DEF IsrStatus, MainOnly
  <2>2. idx = 0
    BY <2>1, Dispatching
  <2>3. InHand' = InHand /\ Through' = Through
    BY <1>8, <1>10, <2>1, <2>2
  <2>4. Line(typed, m, InHand', evt', Contents(irq_fifo'), port')
    BY <1>7, <1>9, <2>1, <2>3
  <2> QED BY <1>5, <1>11, <2>1, <2>3, <2>4
<1>16. ~IsrData
  BY <1>4 DEF IsrData
<1>17. ~IsrRaise
  BY <1>1, <1>5 DEF IsrRaise
<1>18. CASE kbd_process
  <2> DEFINE cs == CharsOf(held, evt.payload)
             d == Decoded(typed)
             a == Through
  <2>1. /\ ring' = buffer_puts(ring, cs) /\ full' = (full \/ ~Fits(ring, cs))
        /\ held' = HeldAfter(held, evt.payload)
        /\ UNCHANGED <<irq_fifo, evt, port, sc, got, typed, irq1>> /\ idx' = idx + 1
        /\ MoreHandlers /\ NextHandler = "kbd_process" /\ evt # NoEvent
    BY <1>18 DEF kbd_process, Calls, MoreHandlers
  <2>2. idx = 1
    BY <2>1, Dispatching
  <2>3. InHand = 1 /\ InHand' = 0
    BY <1>8, <2>1, <2>2
  <2>4. m \in 0..(Len(typed) - 1) /\ evt.payload = typed[m + 1] /\ Line(typed, m + 1, 0, evt, c, port)
    <3>1. Line(typed, m, 1, evt, c, port)
      BY <1>7, <2>3
    <3>2. typed \in Seq(Scancodes) /\ c \in Seq(Events) /\ port.full \in BOOLEAN
      BY <1>1, <1>2
    <3>3. PICK t \in Seq(Scancodes) : t = typed
      BY <3>2
    <3>4. PICK q \in Seq(Events) : q = c
      BY <3>2
    <3>5. PICK p, e : p = port /\ e = evt
      OBVIOUS
    <3>6. m \in 0..Len(t) /\ p.full \in BOOLEAN /\ Line(t, m, 1, e, q, p)
      BY <3>1, <3>2, <3>3, <3>4, <3>5
    <3>7. m \in 0..(Len(t) - 1) /\ e.payload = t[m + 1] /\ Line(t, m + 1, 0, e, q, p)
      BY <3>6, LineProcessed
    <3> QED BY <3>3, <3>4, <3>5, <3>7
  <2>5. held' = HeldAt(typed, m + 1) /\ cs = Meaning(typed, m + 1)
    BY <1>1, <1>7, <2>1, <2>4, HeldNext
  <2>6. m + 1 \in 1..Len(typed) /\ (m + 1) - 1 = m /\ m + 1 \in 0..Len(typed)
    BY <1>1, <2>4
  <2>7. cs \in Seq(Characters) /\ \A i \in 1..Len(cs) : cs[i] # Serial
    BY <1>1, <2>5, <2>6, MeaningIs
  <2>8. d[m + 1] = d[m] \o cs /\ d[m] \in Seq(Characters)
    BY <1>1, <2>5, <2>6, DecodedIs
  <2> HIDE DEF cs, d, a
  <2>9. PICK u \in Seq(Characters) :
          /\ Keyed(got \o Buffered(buffer_puts(ring, cs))) = Keyed(got \o Buffered(ring)) \o u
          /\ SubsequenceOf(u, cs) /\ (Fits(ring, cs) => u = cs)
    <3>1. KeyRingOK(ring) /\ got \in Seq(Characters) /\ cs \in Seq(Characters)
          /\ \A i \in 1..Len(cs) : cs[i] # Serial
      BY <1>1, <2>7
    <3>2. NoSerial(cs)
      BY <3>1 DEF NoSerial
    <3>3. Adds(ring, got, cs)
      BY <3>1, <3>2, ProcessAdds
    <3> QED BY <3>3 DEF Adds
  <2>10. Through' = a \o u
    BY <1>10, <2>1, <2>9 DEF a, Through
  <2>11. a \in Seq(Characters)
    <3>1. got \o Buffered(ring) \in Seq(Characters)
      BY <1>1, <1>2
    <3>2. PICK k : /\ KeyedSteps(got \o Buffered(ring), k)
                   /\ Keyed(got \o Buffered(ring)) = k[Len(got \o Buffered(ring))]
      BY <3>1, KeyedWalk
    <3> DEFINE g == got \o Buffered(ring)
    <3>3. g \in Seq(Characters) /\ KeyedSteps(g, k) /\ a = k[Len(g)]
      BY <3>1, <3>2 DEF a, Through
    <3> HIDE DEF g
    <3> QED BY <3>3 DEF KeyedSteps
  <2>12. SubsequenceOf(a, d[m]) /\ (full \/ a = d[m])
    BY <1>7 DEF a, d
  <2>13. SubsequenceOf(a \o u, d[m] \o cs)
    BY <2>7, <2>8, <2>9, <2>11, <2>12, SubsequenceConcat, Zenon
  <2>14. full' \/ a \o u = d[m] \o cs
    <3>1. full' \/ (~full /\ Fits(ring, cs))
      BY <2>1, Zenon
    <3> QED BY <2>9, <2>12, <3>1, Zenon
  <2>15. Line(typed', m + 1, InHand', evt', Contents(irq_fifo'), port')
    BY <1>9, <2>1, <2>3, <2>4
  <2>16. Decoded(typed')[m + 1] = d[m] \o cs /\ HeldAt(typed', m + 1) = held'
    BY <2>1, <2>5, <2>8 DEF d
  <2>17. InLine(m + 1)'
    <3>1. SubsequenceOf(Through', Decoded(typed')[m + 1])
      BY <2>10, <2>13, <2>16, Zenon
    <3>2. full' \/ Through' = Decoded(typed')[m + 1]
      BY <2>10, <2>14, <2>16, Zenon
    <3> QED BY <1>9, <2>15, <2>16, <3>1, <3>2 DEF InLine
  <2>18. m + 1 \in 0..Len(typed')
    BY <2>1, <2>6
  <2> QED BY <1>5, <2>1, <2>17, <2>18
<1>19. CASE DispatchEnds
  <2>1. /\ UNCHANGED <<port, sc, ring, got, typed, full, held, irq1, irq_fifo>>
        /\ evt # NoEvent /\ ~MoreHandlers /\ evt' = NoEvent
    BY <1>19 DEF DispatchEnds, MainOnly, Finished
  <2>2. InHand = 0 /\ InHand' = 0 /\ Through' = Through
    BY <1>8, <1>10, <2>1, Dispatching
  <2>3. Line(typed, m, 0, evt', c, port)
    BY <1>7, <2>2 DEF Line
  <2>4. Line(typed, m, InHand', evt', Contents(irq_fifo'), port')
    BY <1>9, <2>1, <2>2, <2>3
  <2> QED BY <1>5, <1>11, <2>1, <2>2, <2>4
<1>20. ASSUME UNCHANGED <<vars, typed, port, sc, held, irq1>>, full => full', Through' = Through
       PROVE  Goal
  <2>1. UNCHANGED <<irq_fifo, evt, idx>>
    BY <1>20 DEF vars
  <2>2. Line(typed, m, InHand', evt', Contents(irq_fifo'), port')
    BY <1>7, <1>8, <1>9, <1>20, <2>1
  <2> QED BY <1>5, <1>11, <1>20, <2>2
<1>21. CASE TimerTick \/ SerialArrives \/ UNCHANGED kVars
  <2>1. UNCHANGED <<vars, typed, port, sc, held, irq1, full, ring, got>>
    BY <1>21 DEF TimerTick, SerialArrives, kVars, keyVars
  <2> QED BY <1>10, <1>20, <2>1
<1>22. KeyRingOK(Polled) /\ Keyed(got \o Buffered(Polled)) = Through
  BY PollsSerial, PollKeeps DEF Through
<1>23. CASE shell_readline_and_execute
  <2>1. Takes(Polled) /\ (full => full') /\ UNCHANGED <<vars, typed, port, sc, held, irq1>>
    BY <1>23 DEF shell_readline_and_execute, keyboard_poll
  <2>2. Through' = Through
    BY <1>1, <1>10, <1>22, <2>1, TakesKeeps
  <2> QED BY <1>20, <2>1, <2>2
<1>24. CASE keyboard_getchar
  <2>1. UNCHANGED <<vars, typed, port, sc, held, irq1>>
    BY <1>24 DEF keyboard_getchar
  <2>2. CASE Empty(ring)
    <3>1. ring' = Polled /\ (full => full') /\ UNCHANGED got
      BY <1>24, <2>2 DEF keyboard_getchar, keyboard_poll
    <3>2. Through' = Through
      BY <1>10, <1>22, <3>1
    <3> QED BY <1>20, <2>1, <3>1, <3>2
  <2>3. CASE ~Empty(ring)
    <3>1. Takes(ring) /\ UNCHANGED full
      BY <1>24, <2>3 DEF keyboard_getchar
    <3>2. Through' = Keyed(got \o Buffered(ring))
      BY <1>1, <1>10, <3>1, TakesKeeps
    <3>3. Through' = Through
      BY <3>2 DEF Through
    <3> QED BY <1>20, <2>1, <3>1, <3>3
  <2> QED BY <2>2, <2>3
<1> QED BY <1>12, <1>13, <1>14, <1>15, <1>16, <1>17, <1>18, <1>19, <1>21, <1>23, <1>24 DEF KNext, Main

\* At first nothing is on its way.
LEMMA OrderedInit ==
  ASSUME KeySetUp, KInit
  PROVE  Ordered
<1>1. KeyTypes
  BY KeyInit
<1>2. Contents(irq_fifo) = <<>>
  <2>1. RingOK(irq_fifo) /\ irq_fifo.count = 0
    BY <1>1, RingOfType DEF KeyTypes, TypeOK, KInit
  <2>2. Contents(irq_fifo) \in Seq(Events) /\ Len(Contents(irq_fifo)) = 0
    BY <2>1, ContentsSeq
  <2> QED BY <2>2
<1>3. Buffered(ring) = <<>>
  <2>1. KeyRingOK(ring) /\ Empty(ring)
    BY <1>1 DEF KeyTypes, KInit, Empty
  <2> QED BY <2>1, GetTakes
<1>4. got = <<>> /\ typed = <<>> /\ irq1 = FALSE /\ port = [full |-> FALSE, byte |-> None] /\ evt = NoEvent
      /\ sc = None /\ held = [shift |-> FALSE, ctrl |-> FALSE, alt |-> FALSE] /\ full = FALSE
  BY DEF KInit
<1>5. Through = <<>>
  <2>1. got \o Buffered(ring) = <<>>
    BY <1>3, <1>4
  <2> QED BY <2>1, KeyedEmpty DEF Through
<1>6. Decoded(typed)[0] = <<>>
  <2>1. typed \in Seq(Scancodes)
    BY <1>1 DEF KeyTypes
  <2> QED BY <2>1, DecodedIs
<1>7. SubsequenceOf(Through, Decoded(typed)[0])
  <2>1. <<>> \in Seq(Characters)
    OBVIOUS
  <2>2. SubsequenceOf(<<>>, <<>>)
    BY <2>1, SubsequenceSelf
  <2> QED BY <1>5, <1>6, <2>2
<1>8. held = HeldAt(typed, 0)
  <2>1. \A down, up : LastOf(typed, 0 + 1, down, up) = FALSE
    BY DEF LastOf
  <2> QED BY <1>4, <2>1 DEF HeldAt
<1>9. Line(typed, 0, InHand, evt, Contents(irq_fifo), port)
  <2>1. InHand = 0
    BY <1>4 DEF InHand, MoreHandlers
  <2> QED BY <1>2, <1>4, <2>1 DEF Line
<1>10. InLine(0)
  BY <1>5, <1>6, <1>7, <1>8, <1>9 DEF InLine
<1>11. 0 \in 0..Len(typed) /\ (irq1 <=> port.full)
  BY <1>4
<1> QED BY <1>4, <1>10, <1>11 DEF Ordered

\* What the shell has is a beginning of what has gone through.
LEMMA OrderedImplies ==
  ASSUME KeySetUp, KeyTypes, Ordered
  PROVE  TypedOrder
<1>1. SUFFICES ASSUME ~raced, ~lost
               PROVE  \/ IsPrefix(FromKeyboard, Decode(typed))
                      \/ full /\ SubsequenceOf(FromKeyboard, Decode(typed))
  BY DEF TypedOrder
<1>2. PICK m \in 0..Len(typed) : InLine(m)
  BY <1>1 DEF Ordered
<1>3. SubsequenceOf(Through, Decoded(typed)[m]) /\ (full \/ Through = Decoded(typed)[m])
  BY <1>2 DEF InLine
<1>4. typed \in Seq(Scancodes) /\ got \in Seq(Characters) /\ Buffered(ring) \in Seq(Characters)
  BY GetTakes DEF KeyTypes
<1>5. Through = Keyed(got) \o Keyed(Buffered(ring))
  BY <1>4, KeyedConcat DEF Through
<1>6. Keyed(got) \in Seq(Characters) /\ Keyed(Buffered(ring)) \in Seq(Characters)
  <2>1. Serial \in Characters
    BY DEF Characters, Serial, Char
  <2> QED BY <1>4, <2>1, KeyedAppend
<1>7. PICK v \in Seq(Characters) : Decode(typed) = Decoded(typed)[m] \o v
  BY <1>4, DecodedGrows
<1>8. Decoded(typed)[m] \in Seq(Characters)
  BY <1>4, DecodedIs
<1>9. PICK k \in Seq(Characters) : k = Keyed(got)
  BY <1>6
<1>10. PICK b \in Seq(Characters) : b = Keyed(Buffered(ring))
  BY <1>6
<1>11. PICK d \in Seq(Characters) : d = Decoded(typed)[m]
  BY <1>8
<1>12. FromKeyboard = k /\ Decode(typed) = d \o v /\ SubsequenceOf(k \o b, d) /\ (full \/ k \o b = d)
  BY <1>3, <1>5, <1>7, <1>9, <1>10, <1>11 DEF FromKeyboard
<1>13. CASE full
  <2>1. SubsequenceOf(k, d)
    BY <1>12, SubsequencePrefix
  <2>2. SubsequenceOf(<<>>, v) /\ <<>> \in Seq(Characters)
    BY SubsequenceSelf
  <2>3. SubsequenceOf(k \o <<>>, d \o v)
    BY <2>1, <2>2, SubsequenceConcat, Zenon
  <2>4. k \o <<>> = k
    OBVIOUS
  <2> QED BY <1>12, <1>13, <2>3, <2>4
<1>14. CASE ~full
  <2>1. Decode(typed) = (k \o b) \o v
    BY <1>12, <1>14
  <2>2. (k \o b) \o v = k \o (b \o v) /\ b \o v \in Seq(Characters)
    BY Concatenation
  <2>3. PICK w \in Seq(Characters) : w = b \o v
    BY <2>2
  <2>4. Len(k) <= Len(k \o w) /\ SubSeq(k, 1, Len(k)) = SubSeq(k \o w, 1, Len(k))
    OBVIOUS
  <2>5. Decode(typed) = k \o w
    BY <2>1, <2>2, <2>3
  <2> QED BY <1>12, <2>4, <2>5 DEF IsPrefix
<1> QED BY <1>13, <1>14

\* The shell is given the characters that were typed, as the modifiers held at
\* the time make them and in the order typed, for every number of keys, every
\* size of the two queues and every interleaving of irq_handler_c with the
\* main loop, unless kbd_isr got to the port before the interrupt or the event
\* FIFO was full; a full key_buffer only leaves characters out.
THEOREM KeysStayInOrder == KeySetUp => (KSpec => []TypedOrder)
<1> SUFFICES ASSUME KeySetUp PROVE KSpec => []TypedOrder
  OBVIOUS
<1> DEFINE OrderInv == KeyTypes /\ Ordered
<1>1. KInit => OrderInv
  BY KeyInit, OrderedInit
<1>2. OrderInv /\ [KNext]_kVars => OrderInv'
  BY KeyTypesStep, OrderedStep
<1>3. OrderInv => TypedOrder
  BY OrderedImplies
<1> QED BY <1>1, <1>2, <1>3, PTL DEF KSpec
=============================================================================
