----------------------------- MODULE Interrupts -----------------------------
(***************************************************************************)
(* The deferred interrupt events of src/kernel/interrupt/interrupt.c: a    *)
(* ring buffer that interrupt_raise fills, from interrupt context or from  *)
(* a handler, and that the main loop empties by calling the handlers       *)
(* registered for the vector of each event.  Sections between irq_save and *)
(* irq_restore are one step; interrupts fall between the steps, also       *)
(* between two handlers of one event.                                      *)
(***************************************************************************)
EXTENDS Integers, Sequences, FiniteSets

CONSTANTS
  FIFO_CAPACITY, MAX_HANDLERS_PER_IRQ,
  Vectors,       \* the vectors in use, all below MAX_IRQS
  Payloads,      \* the low 16 bits of an event
  Handlers,      \* the functions handlers can be
  NoEvent        \* nothing is being dispatched

Events == [vec : Vectors, payload : Payloads]

ASSUME InterruptAssumption ==
  /\ FIFO_CAPACITY \in Nat \ {0}
  /\ MAX_HANDLERS_PER_IRQ \in Nat
  /\ NoEvent \notin Events

VARIABLES
  irq_fifo,    \* buf, head, tail and count
  irq_table,   \* irq_table[vec]: the first irq_count[vec] handlers
  evt,         \* the event interrupt_dispatch_one is handling
  idx          \* its loop variable, from 0

vars == <<irq_fifo, irq_table, evt, idx>>

-----------------------------------------------------------------------------
(* The ring buffer.                                                        *)

Slots == 0..(FIFO_CAPACITY - 1)
Wrap(i) == i % FIFO_CAPACITY

fifo_is_full(f) == f.count >= FIFO_CAPACITY
fifo_is_empty(f) == f.count = 0

fifo_push(f, v) ==
  IF fifo_is_full(f) THEN f
  ELSE [buf |-> [f.buf EXCEPT ![f.tail] = v], head |-> f.head,
        tail |-> Wrap(f.tail + 1), count |-> f.count + 1]

\* Mutant: the event that is taken stays in front.
fifo_popped_stays(f) ==
  [buf |-> f.buf, head |-> f.head, tail |-> f.tail, count |-> f.count - 1]

fifo_popped(f) ==
  [buf |-> f.buf, head |-> Wrap(f.head + 1), tail |-> f.tail,
   count |-> f.count - 1]

\* The events in the buffer, the oldest first.
Contents(f) ==
  [k \in 1..f.count |-> f.buf[Wrap(f.head + k - 1)]]

-----------------------------------------------------------------------------
interrupt_raise(e) ==
  /\ irq_fifo' = fifo_push(irq_fifo, e)
  /\ UNCHANGED <<irq_table, evt, idx>>

\* A handler that is registered already, or one too many, changes nothing.
interrupt_register(vec, h) ==
  /\ \A i \in 1..Len(irq_table[vec]) : irq_table[vec][i] # h
  /\ Len(irq_table[vec]) < MAX_HANDLERS_PER_IRQ
  /\ irq_table' = [irq_table EXCEPT ![vec] = Append(@, h)]
  /\ UNCHANGED <<irq_fifo, evt, idx>>

interrupt_unregister(vec) ==
  /\ irq_table' = [irq_table EXCEPT ![vec] = <<>>]
  /\ UNCHANGED <<irq_fifo, evt, idx>>

\* interrupt_dispatch_one takes an event ...
Pop ==
  /\ evt = NoEvent
  /\ ~fifo_is_empty(irq_fifo)
  /\ evt' = irq_fifo.buf[irq_fifo.head]
  /\ irq_fifo' = fifo_popped(irq_fifo)
  /\ idx' = 0
  /\ UNCHANGED irq_table

\* ... calls the handlers one after the other, looking at irq_count again
\* before each call ...
MoreHandlers == evt # NoEvent /\ idx < Len(irq_table[evt.vec])
NextHandler == irq_table[evt.vec][idx + 1]

\* Mutant: the loop advances twice when a handler has been called.
CallsEveryOther(h) ==
  /\ MoreHandlers
  /\ h = NextHandler
  /\ idx' = idx + 2
  /\ UNCHANGED <<irq_table, evt>>

Calls(h) ==
  /\ MoreHandlers
  /\ h = NextHandler
  /\ idx' = idx + 1
  /\ UNCHANGED <<irq_table, evt>>

\* ... and returns.
Finished ==
  /\ evt # NoEvent
  /\ ~MoreHandlers
  /\ evt' = NoEvent
  /\ idx' = 0
  /\ UNCHANGED <<irq_fifo, irq_table>>

\* interrupt_init.
Init ==
  /\ irq_fifo \in [buf : {[i \in Slots |-> e] : e \in Events},
                   head : {0}, tail : {0}, count : {0}]
  /\ irq_table = [v \in Vectors |-> <<>>]
  /\ evt = NoEvent
  /\ idx = 0

\* A handler may raise an event itself, or do nothing here.
Next ==
  \/ \E e \in Events : interrupt_raise(e)
  \/ \E v \in Vectors, h \in Handlers : interrupt_register(v, h)
  \/ \E v \in Vectors : interrupt_unregister(v)
  \/ Pop
  \/ \E h \in Handlers :
       Calls(h) /\ \/ UNCHANGED irq_fifo
                   \/ \E e \in Events : irq_fifo' = fifo_push(irq_fifo, e)
  \/ Finished

Spec == Init /\ [][Next]_vars

-----------------------------------------------------------------------------
(* Properties.                                                             *)

\* Type invariant.
TypeOK ==
  /\ irq_fifo \in [buf : [Slots -> Events], head : Slots, tail : Slots,
                   count : 0..FIFO_CAPACITY]
  /\ irq_fifo.tail = Wrap(irq_fifo.head + irq_fifo.count)
  /\ irq_table \in [Vectors -> Seq(Handlers)]
  /\ evt \in Events \union {NoEvent}
  /\ idx \in Nat

\* The ring buffer is a queue of FIFO_CAPACITY events.
Queue == INSTANCE EventQueue WITH
  Capacity <- FIFO_CAPACITY, queue <- Contents(irq_fifo), taken <- evt
QueueSpec == Queue!Spec
=============================================================================
