---------------------------- MODULE HandlerCalls ----------------------------
(***************************************************************************)
(* Interrupts with a history of the handlers that have yet to be called    *)
(* for the event that is being dispatched.                                 *)
(***************************************************************************)
EXTENDS Interrupts

VARIABLE owed   \* registered since evt was popped, and not called for it

dispatchVars == <<irq_fifo, irq_table, evt, idx, owed>>

Registered(t, vec) == {t[vec][i] : i \in 1..Len(t[vec])}

OwedInit == Init /\ owed = {}

OwedNext ==
  /\ Next
  /\ owed' = IF evt' = NoEvent THEN {}
             ELSE IF evt = NoEvent THEN Registered(irq_table, evt'.vec)
             ELSE IF idx' # idx THEN owed \ {NextHandler}
             ELSE owed \intersect Registered(irq_table', evt.vec)

OwedSpec == OwedInit /\ [][OwedNext]_dispatchVars

\* When the dispatch of an event ends, every handler that was registered for
\* its vector all the while has been called, whatever was raised, registered
\* or unregistered while the handlers ran.
AllHandlersCalled ==
  [][evt # NoEvent /\ evt' = NoEvent => owed = {}]_dispatchVars
=============================================================================
