----------------------------- MODULE EventQueue -----------------------------
(***************************************************************************)
(* What the interrupt event FIFO promises: events are taken in the order   *)
(* they were raised, each once, and an event is lost only when the queue   *)
(* is full at the moment it is raised.  Interrupts is shown to implement   *)
(* this specification.                                                     *)
(***************************************************************************)
EXTENDS Naturals, Sequences

CONSTANTS Events, Capacity, NoEvent

VARIABLES
  queue,   \* the events raised and not yet taken
  taken    \* the event being handled, or NoEvent

Init == queue = <<>> /\ taken = NoEvent

Raise(e) ==
  /\ queue' = IF Len(queue) < Capacity THEN Append(queue, e) ELSE queue
  /\ UNCHANGED taken

Take ==
  /\ taken = NoEvent
  /\ queue # <<>>
  /\ taken' = Head(queue)
  /\ queue' = Tail(queue)

Finish ==
  /\ taken # NoEvent
  /\ taken' = NoEvent
  /\ UNCHANGED queue

Next == (\E e \in Events : Raise(e)) \/ Take \/ Finish

Spec == Init /\ [][Next]_<<queue, taken>>
=============================================================================
