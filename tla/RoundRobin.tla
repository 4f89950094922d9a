----------------------------- MODULE RoundRobin -----------------------------
(***************************************************************************)
(* What the scheduler promises: the tasks that can run stand in one line,  *)
(* the first is served next, a task that gives up the CPU goes to the end, *)
(* and a dead task never comes back.  Idle alone may be woken when nothing *)
(* else is left.  Scheduler is shown to implement this specification.      *)
(***************************************************************************)
EXTENDS Naturals, Sequences

CONSTANTS Tasks, Idle

VARIABLES
  ready,     \* the tasks waiting for the CPU, in the order they are served
  running,   \* the task that has the CPU
  dead       \* the tasks that have exited

rrVars == <<ready, running, dead>>

Waiting == {ready[i] : i \in 1..Len(ready)}

Init == ready = <<>> /\ running = Idle /\ dead = {}

Admit(t) ==
  /\ t \notin Waiting \union dead \union {running}
  /\ ready' = Append(ready, t)
  /\ UNCHANGED <<running, dead>>

\* Whoever runs goes to the end of the line s, unless it has exited.
Requeue(s) == IF running \in dead THEN s ELSE Append(s, running)

Serve ==
  /\ ready # <<>>
  /\ running' = Head(ready)
  /\ ready' = Requeue(Tail(ready))
  /\ UNCHANGED dead

WakeIdle ==
  /\ ready = <<>>
  /\ Idle \in dead
  /\ running' = Idle
  /\ ready' = Requeue(ready)
  /\ dead' = dead \ {Idle}

Exit ==
  /\ dead' = dead \union {running}
  /\ UNCHANGED <<ready, running>>

Next ==
  \/ \E t \in Tasks : Admit(t)
  \/ Serve
  \/ WakeIdle
  \/ Exit

Spec == Init /\ [][Next]_rrVars
=============================================================================
