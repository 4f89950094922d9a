----------------------------- MODULE Scheduler ------------------------------
(***************************************************************************)
(* The round-robin scheduler of src/kernel/task/multi_task.c: task control *)
(* blocks, the ready queue (a singly linked list threaded through them),   *)
(* and the switch of the CPU between the stacks of the tasks.              *)
(*                                                                         *)
(* There is one CPU.  A critical section (irq_save .. irq_restore) is one  *)
(* step; outside of them the timer interrupt may arrive between any two    *)
(* steps, when the APIC timer is armed (Preemptive).  What a task computes *)
(* is left out: a context is the stack it runs on and the place in the     *)
(* scheduler's code the stack is at.  Failed allocations leave task_create *)
(* before it touches this state, and are left out.                         *)
(***************************************************************************)
EXTENDS Integers, Sequences, FiniteSets

CONSTANTS
  Tasks,        \* the control blocks task_create may hand out
  Idle,         \* idle_task, the context kmain runs in
  Null,         \* the null task_t *
  MaxTasks,     \* MAX_TASKS, the length of tasks[]
  Preemptive    \* the APIC timer interrupts (vector 48)

ASSUME TaskAssumption ==
  /\ IsFiniteSet(Tasks)
  /\ Idle \notin Tasks
  /\ Null \notin Tasks \union {Idle}
ASSUME LimitAssumption == MaxTasks \in Nat /\ Preemptive \in BOOLEAN

All == Tasks \union {Idle}

VARIABLES
  created,   \* the tasks in tasks[1..]: no slot is ever given back
  readied,   \* the tasks their creator has passed to task_ready
  state,     \* task->state
  queue,     \* ready_queue_head, ready_queue_tail and the task->next links
  current,   \* current_task
  regs,      \* task->regs, as the context they restore
  frame,     \* per stack, the locals of its last call of task_schedule
  cpu        \* the context the CPU executes

vars == <<created, readied, state, queue, current, regs, frame, cpu>>
taskVars == <<created, readied>>

(***************************************************************************)
(* Where a stack can be:                                                   *)
(*   "run"     in code outside of the scheduler                            *)
(*   "exit"    in task_exit, before it calls task_schedule                 *)
(*   "switch"  in task_schedule after irq_restore, a task chosen           *)
(*   "label"   at label 1 of its asm block, task_restore still to be called*)
(*   "hlt"     in the loop at the end of task_exit                         *)
(*   "null"    nowhere: the initial idle_task.regs.rip is 0                *)
(***************************************************************************)
Places == {"run", "exit", "switch", "label", "hlt", "null"}
Context == [stack : All, at : Places, intact : BOOLEAN]

At(p) == [cpu EXCEPT !.at = p]

\* The order in which PUSH_ALL pushes the registers, and the order in which
\* irq_timer_entry takes them from the stack: it reads upwards from the last
\* one pushed.
PushAll == <<"rax", "rcx", "rdx", "rbx", "rbp", "rsi", "rdi", "r8", "r9",
             "r10", "r11", "r12", "r13", "r14", "r15">>
ReadBack == <<"rax", "rcx", "rdx", "rbx", "rbp", "rsi", "rdi", "r8", "r9",
              "r10", "r11", "r12", "r13", "r14", "r15">>
OnStack(i) == PushAll[Len(PushAll) + 1 - i]
IrqKeepsRegisters == \A i \in 1..Len(ReadBack) : ReadBack[i] = OnStack(i)

-----------------------------------------------------------------------------
(* The ready queue.                                                        *)

\* Mutant: the last task is taken out and the tail keeps pointing at it.
DequeueKeepsTail(q) ==
  [head |-> q.next[q.head], tail |-> q.tail,
   next |-> [q.next EXCEPT ![q.head] = Null]]

Dequeue(q) ==
  LET rest == q.next[q.head] IN
  [head |-> rest,
   tail |-> IF rest = Null THEN Null ELSE q.tail,
   next |-> [q.next EXCEPT ![q.head] = Null]]

\* Mutant: a task is put in front of the queue.
EnqueueFront(q, t) ==
  [head |-> t,
   tail |-> IF q.tail = Null THEN t ELSE q.tail,
   next |-> [q.next EXCEPT ![t] = q.head]]

Enqueue(q, t) ==
  [head |-> IF q.tail = Null THEN t ELSE q.head,
   tail |-> t,
   next |-> [u \in All |-> IF u = t THEN Null
                           ELSE IF u = q.tail THEN t ELSE q.next[u]]]

\* The task both schedulers choose: the head of the queue, idle when the
\* queue is empty, or none at all when idle itself is running.
Chosen ==
  IF queue.head # Null THEN queue.head
  ELSE IF state[current] = "DEAD" \/ current # Idle THEN Idle
  ELSE Null

\* Mutant: the task that gives up the CPU stays marked RUNNING.
SwitchKeepsRunning(n) ==
  LET q == IF queue.head # Null THEN Dequeue(queue) ELSE queue
  IN  /\ queue' = IF state[current] = "RUNNING" THEN Enqueue(q, current) ELSE q
      /\ state' = [state EXCEPT ![n] = "RUNNING"]
      /\ current' = n

\* Mutant: a task is put back into the queue without a look at its state.
SwitchRequeuesDead(n) ==
  LET q == IF queue.head # Null THEN Dequeue(queue) ELSE queue
  IN  /\ queue' = Enqueue(q, current)
      /\ state' = [t \in All |-> IF t = n THEN "RUNNING"
                                 ELSE IF t = current THEN "READY" ELSE state[t]]
      /\ current' = n

\* The critical section of task_schedule, which task_schedule_from_irq
\* repeats: n is taken from the queue, a running task goes to its end.
Switch(n) ==
  LET q == IF queue.head # Null THEN Dequeue(queue) ELSE queue
      runs == state[current] = "RUNNING"
  IN  /\ queue' = IF runs THEN Enqueue(q, current) ELSE q
      /\ state' = [t \in All |-> IF t = n THEN "RUNNING"
                                 ELSE IF t = current /\ runs THEN "READY"
                                 ELSE state[t]]
      /\ current' = n

-----------------------------------------------------------------------------
(* Calls made by the code that runs on the CPU.                            *)

Running == cpu.at = "run" /\ cpu.intact

\* task_create: the first free slot is taken for good.
task_create(t) ==
  /\ Running
  /\ t \notin created
  /\ Cardinality(created) < MaxTasks - 1
  /\ created' = created \union {t}
  /\ state' = [state EXCEPT ![t] = "READY"]
  /\ queue' = [queue EXCEPT !.next[t] = Null]
  /\ regs' = [regs EXCEPT ![t] = [stack |-> t, at |-> "run", intact |-> TRUE]]
  /\ UNCHANGED <<readied, current, frame, cpu>>

\* task_ready does not look at the state of the task: its callers pass each
\* task once, after creating it.
task_ready(t) ==
  /\ Running
  /\ t \in created \ readied
  /\ readied' = readied \union {t}
  /\ state' = [state EXCEPT ![t] = "READY"]
  /\ queue' = Enqueue(queue, t)
  /\ UNCHANGED <<created, current, regs, frame, cpu>>

\* task_schedule up to irq_restore, called from place p: it returns to
\* place back at once when there is nothing to switch to.
Schedule(back) ==
  /\ IF Chosen = Null
       THEN UNCHANGED <<state, queue, current>>
       ELSE Switch(Chosen)
  /\ IF Chosen \in {Null, current}
       THEN cpu' = At(back) /\ UNCHANGED frame
       ELSE /\ cpu' = At("switch")
            /\ frame' = [frame EXCEPT ![cpu.stack] =
                           [old |-> current, next |-> Chosen]]
  /\ UNCHANGED <<taskVars, regs>>

task_yield == Running /\ Schedule("run")

\* task_exit marks the current task, whoever that is, and then schedules.
task_exit ==
  /\ Running
  /\ state' = [state EXCEPT ![current] = "DEAD"]
  /\ cpu' = At("exit")
  /\ UNCHANGED <<taskVars, queue, current, regs, frame>>

ExitSchedules == cpu.at = "exit" /\ cpu.intact /\ Schedule("hlt")

\* The asm block of task_schedule saves the registers with label 1 as RIP.
SaveContext ==
  /\ cpu.at = "switch" /\ cpu.intact
  /\ regs' = [regs EXCEPT ![frame[cpu.stack].old] = At("label")]
  /\ cpu' = At("label")
  /\ UNCHANGED <<taskVars, state, queue, current, frame>>

\* What follows label 1, for the first time and whenever a saved context is
\* resumed there: the task in this call's frame is restored.
task_restore ==
  /\ cpu.at = "label" /\ cpu.intact
  /\ cpu' = regs[frame[cpu.stack].next]
  /\ UNCHANGED <<taskVars, state, queue, current, regs, frame>>

-----------------------------------------------------------------------------
\* isr48: the context is saved in the control block of current_task, and
\* task_schedule_from_irq restores the next task, or returns to the stub.
irq_timer_entry ==
  LET saved == [regs EXCEPT ![current] =
                  [cpu EXCEPT !.intact = @ /\ IrqKeepsRegisters]]
  IN  /\ Preemptive
      /\ cpu.at # "null"
      /\ regs' = saved
      /\ IF Chosen = Null
           THEN UNCHANGED <<state, queue, current>>
           ELSE Switch(Chosen)
      /\ cpu' = IF Chosen \in {Null, current} THEN cpu ELSE saved[Chosen]
      /\ UNCHANGED <<taskVars, frame>>

\* task_init: kmain goes on as the idle task.
Init ==
  /\ created = {}
  /\ readied = {}
  /\ state = [t \in All |-> IF t = Idle THEN "RUNNING" ELSE "READY"]
  /\ queue = [head |-> Null, tail |-> Null, next |-> [t \in All |-> Null]]
  /\ current = Idle
  /\ regs = [t \in All |-> [stack |-> t, at |-> "null", intact |-> TRUE]]
  /\ frame = [t \in All |-> [old |-> Null, next |-> Null]]
  /\ cpu = [stack |-> Idle, at |-> "run", intact |-> TRUE]

Next ==
  \/ \E t \in Tasks : task_create(t) \/ task_ready(t)
  \/ task_yield
  \/ task_exit
  \/ ExitSchedules
  \/ SaveContext
  \/ task_restore
  \/ irq_timer_entry

Spec == Init /\ [][Next]_vars

-----------------------------------------------------------------------------
(* Properties.                                                             *)

\* Type invariant.
TypeOK ==
  /\ created \subseteq Tasks
  /\ readied \subseteq created
  /\ state \in [All -> {"READY", "RUNNING", "DEAD"}]
  /\ queue \in [head : All \union {Null}, tail : All \union {Null},
               next : [All -> All \union {Null}]]
  /\ current \in All
  /\ regs \in [All -> Context]
  /\ frame \in [All -> [old : All \union {Null}, next : All \union {Null}]]
  /\ cpu \in Context

\* The list from ready_queue_head to ready_queue_tail is s.
IsList(q, s) ==
  /\ \A i, j \in 1..Len(s) : s[i] = s[j] => i = j
  /\ q.head = IF s = <<>> THEN Null ELSE s[1]
  /\ q.tail = IF s = <<>> THEN Null ELSE s[Len(s)]
  /\ \A i \in 1..Len(s) : q.next[s[i]] = IF i < Len(s) THEN s[i + 1] ELSE Null

Lists == UNION {[1..n -> All] : n \in 0..Cardinality(All)}

\* The tasks that wait for the CPU.
Waiting == {t \in readied \union {Idle} : state[t] = "READY"}

\* The links form one list without cycles that ends at the tail, and it holds
\* exactly the tasks that wait: none is lost and none is queued twice,
\* wherever interrupts fall between yields, exits and task_ready.
QueueHoldsWaiting ==
  /\ TypeOK
  /\ \E s \in Lists : IsList(queue, s) /\ {s[i] : i \in 1..Len(s)} = Waiting

\* At most one task is RUNNING, and it is current_task; the current task is
\* DEAD only from task_exit to the next switch.
OneRunning ==
  /\ state[current] \in {"RUNNING", "DEAD"}
  /\ \A t \in All \ {current} : state[t] # "RUNNING"

\* A task that has exited is never scheduled again; idle alone is woken.
DeadStaysDead ==
  [][\A t \in Tasks : state[t] = "DEAD" => state'[t] = "DEAD"]_vars

\* The tasks in the queue, in the order of its links.
ListOf(q) == CHOOSE s \in Lists : IsList(q, s)

\* The scheduler serves tasks in the order of the round robin.
RR == INSTANCE RoundRobin WITH
  ready <- ListOf(queue),
  running <- current,
  dead <- {t \in All : state[t] = "DEAD"}
RoundRobinSpec == RR!Spec

\* Wherever the CPU calls task_restore, it restores the current task: one
\* switch ends in the task the scheduler has just made current.
RestoresCurrent == cpu.at = "label" => frame[cpu.stack].next = current
=============================================================================
