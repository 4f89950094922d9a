-------------------------- MODULE SchedulerProofs ---------------------------
(***************************************************************************)
(* Proofs about Scheduler, for every number of tasks and with the timer    *)
(* interrupt between any two steps: the linked ready queue holds exactly   *)
(* the tasks that wait, and the scheduler is a round robin.                *)
(***************************************************************************)
EXTENDS Scheduler, FiniteSetTheorems, WellFoundedInduction, TLAPS

Queues == [head : All \union {Null}, tail : All \union {Null},
           next : [All -> All \union {Null}]]

Elements(s) == {s[i] : i \in 1..Len(s)}

LEMMA NullApart == Null \notin All /\ Idle \in All
  BY TaskAssumption DEF All

-----------------------------------------------------------------------------
(* Linked lists.                                                           *)

LEMMA OneOrMore == \A n \in Nat : n >= 1 => n = 1 \/ n > 1
  BY SMT

\* Enqueue puts a task that is not in the list at its end.
LEMMA EnqueueAppends ==
  ASSUME NEW q \in Queues, NEW s \in Seq(All), IsList(q, s),
         NEW t \in All, t \notin Elements(s)
  PROVE  /\ Enqueue(q, t) \in Queues
         /\ Append(s, t) \in Seq(All)
         /\ IsList(Enqueue(q, t), Append(s, t))
         /\ Elements(Append(s, t)) = Elements(s) \union {t}
<1> DEFINE r == Append(s, t)
           g == Enqueue(q, t)
<1>1. /\ r \in Seq(All) /\ Len(r) = Len(s) + 1 /\ r[Len(s) + 1] = t /\ r # <<>>
      /\ \A i \in 1..Len(s) : r[i] = s[i] /\ s[i] \in All /\ s[i] # t
      /\ Len(s) \in Nat /\ r[Len(r)] = t
  <2>1. /\ r \in Seq(All) /\ Len(r) = Len(s) + 1 /\ r[Len(s) + 1] = t
        /\ Len(s) \in Nat /\ \A i \in 1..Len(s) : r[i] = s[i] /\ s[i] \in All
    OBVIOUS
  <2>2. r # <<>> /\ r[Len(r)] = t
    BY <2>1
  <2>3. \A i \in 1..Len(s) : s[i] # t
    BY DEF Elements
  <2> QED BY <2>1, <2>2, <2>3
<1>2. /\ g.head = IF q.tail = Null THEN t ELSE q.head
      /\ g.tail = t
      /\ \A u \in All : g.next[u] = IF u = t THEN Null
                                    ELSE IF u = q.tail THEN t ELSE q.next[u]
      /\ g \in Queues
  BY DEF Enqueue, Queues
<1>3. /\ \A i, j \in 1..Len(s) : s[i] = s[j] => i = j
      /\ q.head = IF s = <<>> THEN Null ELSE s[1]
      /\ q.tail = IF s = <<>> THEN Null ELSE s[Len(s)]
      /\ \A i \in 1..Len(s) : q.next[s[i]] = IF i < Len(s) THEN s[i + 1] ELSE Null
  BY DEF IsList
<1> HIDE DEF r, g
<1>4. Elements(r) = Elements(s) \union {t}
  BY <1>1 DEF Elements
<1>5. \A i, j \in 1..Len(r) : r[i] = r[j] => i = j
  BY <1>1, <1>3
<1>6. g.head = r[1]
  <2>1. CASE s = <<>>
    <3>1. Len(s) = 0
      BY <2>1
    <3> QED BY <1>1, <1>2, <1>3, <2>1, <3>1
  <2>2. CASE s # <<>>
    <3>1. Len(s) >= 1
      BY <2>2
    <3>2. q.tail # Null
      BY <1>1, <1>3, <2>2, <3>1, NullApart
    <3> QED BY <1>1, <1>2, <1>3, <2>2, <3>1, <3>2
  <2> QED BY <2>1, <2>2
<1>7. ASSUME NEW i \in 1..Len(r)
      PROVE  g.next[r[i]] = IF i < Len(r) THEN r[i + 1] ELSE Null
  <2>1. CASE i = Len(r)
    BY <1>1, <1>2, <2>1
  <2>2. CASE i < Len(r)
    <3>1. i \in 1..Len(s) /\ r[i] = s[i] /\ s[i] \in All /\ s[i] # t
      BY <1>1, <2>2
    <3>2. s # <<>> /\ q.tail = s[Len(s)] /\ Len(s) \in 1..Len(s)
      BY <1>1, <1>3, <3>1
    <3>3. CASE i = Len(s)
      BY <1>1, <1>2, <3>1, <3>2, <3>3
    <3>4. CASE i < Len(s)
      <4>1. s[i] # q.tail
        BY <1>1, <1>3, <3>1, <3>2, <3>4
      <4>2. i + 1 \in 1..Len(s) /\ r[i + 1] = s[i + 1]
        BY <1>1, <3>1, <3>4
      <4>3. g.next[r[i]] = q.next[s[i]]
        BY <1>2, <3>1, <4>1
      <4> QED BY <1>3, <2>2, <3>1, <3>4, <4>2, <4>3
    <3> QED BY <1>1, <3>1, <3>3, <3>4
  <2> QED BY <1>1, <2>1, <2>2
<1>8. IsList(g, r)
  BY <1>1, <1>2, <1>5, <1>6, <1>7 DEF IsList
<1> QED BY <1>1, <1>2, <1>4, <1>8 DEF r, g

\* Dequeue takes the first task out and leaves the others as they are.
LEMMA DequeueTakes ==
  ASSUME NEW q \in Queues, NEW s \in Seq(All), IsList(q, s), q.head # Null
  PROVE  /\ s # <<>> /\ q.head = Head(s) /\ Head(s) \in Elements(s)
         /\ Dequeue(q) \in Queues
         /\ Tail(s) \in Seq(All)
         /\ IsList(Dequeue(q), Tail(s))
         /\ Elements(Tail(s)) = Elements(s) \ {Head(s)}
<1> DEFINE r == Tail(s)
           g == Dequeue(q)
<1>1. /\ \A i, j \in 1..Len(s) : s[i] = s[j] => i = j
      /\ q.head = IF s = <<>> THEN Null ELSE s[1]
      /\ q.tail = IF s = <<>> THEN Null ELSE s[Len(s)]
      /\ \A i \in 1..Len(s) : q.next[s[i]] = IF i < Len(s) THEN s[i + 1] ELSE Null
  BY DEF IsList
<1>2. s # <<>> /\ q.head = s[1] /\ Head(s) = s[1] /\ Len(s) \in Nat /\ Len(s) >= 1
  BY <1>1
<1>3. /\ r \in Seq(All) /\ Len(r) = Len(s) - 1
      /\ \A i \in 1..Len(r) : r[i] = s[i + 1] /\ i + 1 \in 1..Len(s)
      /\ \A i \in 1..Len(s) : s[i] \in All
      /\ r = <<>> <=> Len(s) = 1
  <2>1. /\ r \in Seq(All) /\ Len(r) = Len(s) - 1
        /\ \A i \in 1..Len(r) : r[i] = s[i + 1]
        /\ \A i \in 1..Len(s) : s[i] \in All
    BY <1>2
  <2>2. \A i \in 1..Len(r) : i + 1 \in 1..Len(s)
    BY <1>2, <2>1
  <2>3. r = <<>> <=> Len(r) = 0
    BY <2>1
  <2> HIDE DEF r
  <2> QED BY <1>2, <2>1, <2>2, <2>3
<1>4. /\ q.head \in All
      /\ g = [head |-> q.next[q.head],
              tail |-> IF q.next[q.head] = Null THEN Null ELSE q.tail,
              next |-> [q.next EXCEPT ![q.head] = Null]]
  BY <1>2, <1>3 DEF Dequeue
<1>5. g \in Queues
  BY <1>4 DEF Queues
<1>6. /\ g.head = q.next[s[1]]
      /\ g.tail = IF q.next[s[1]] = Null THEN Null ELSE q.tail
      /\ \A u \in All : u # s[1] => g.next[u] = q.next[u]
  BY <1>2, <1>4 DEF Queues
<1> HIDE DEF r, g
<1>7. Elements(r) = Elements(s) \ {s[1]}
  <2>1. ASSUME NEW x \in Elements(r) PROVE x \in Elements(s) /\ x # s[1]
    <3>1. PICK i \in 1..Len(r) : x = r[i]
      BY DEF Elements
    <3>2. x = s[i + 1] /\ i + 1 \in 1..Len(s) /\ i + 1 # 1 /\ 1 \in 1..Len(s)
      BY <1>2, <1>3, <3>1
    <3> QED BY <1>1, <3>2 DEF Elements
  <2>2. ASSUME NEW x \in Elements(s), x # s[1] PROVE x \in Elements(r)
    <3>1. PICK i \in 1..Len(s) : x = s[i]
      BY DEF Elements
    <3>2. i - 1 \in 1..Len(r)
      BY <1>2, <1>3, <2>2, <3>1
    <3>3. r[i - 1] = x
      BY <1>3, <3>1, <3>2
    <3> QED BY <3>2, <3>3 DEF Elements
  <2> QED BY <2>1, <2>2
<1>8. \A i, j \in 1..Len(r) : r[i] = r[j] => i = j
  BY <1>1, <1>2, <1>3
<1>9. 1 \in 1..Len(s) /\ q.next[s[1]] = IF 1 < Len(s) THEN s[2] ELSE Null
  BY <1>1, <1>2
<1>10. g.head = IF r = <<>> THEN Null ELSE r[1]
  BY <1>2, <1>3, <1>6, <1>9
<1>11. g.tail = IF r = <<>> THEN Null ELSE r[Len(r)]
  <2>1. CASE Len(s) = 1
    BY <1>3, <1>6, <1>9, <2>1
  <2>2. CASE Len(s) > 1
    <3>1. s[2] \in All /\ s[2] # Null /\ r # <<>>
      BY <1>2, <1>3, <2>2, NullApart
    <3>2. g.tail = s[Len(s)]
      BY <1>1, <1>2, <1>6, <1>9, <2>2, <3>1
    <3>3. r[Len(r)] = s[Len(s)]
      BY <1>2, <1>3, <2>2
    <3> QED BY <3>1, <3>2, <3>3
  <2>4. Len(s) \in Nat /\ Len(s) >= 1
    BY <1>2, Zenon
  <2>3. Len(s) = 1 \/ Len(s) > 1
    BY <2>4, OneOrMore, Zenon
  <2> QED BY <2>1, <2>2, <2>3
<1>12. ASSUME NEW i \in 1..Len(r)
       PROVE  g.next[r[i]] = IF i < Len(r) THEN r[i + 1] ELSE Null
  <2>1. r[i] = s[i + 1] /\ i + 1 \in 1..Len(s) /\ s[i + 1] \in All
    BY <1>3
  <2>2. s[i + 1] # s[1]
    BY <1>1, <1>2, <1>9, <2>1
  <2>3. g.next[r[i]] = q.next[s[i + 1]]
    BY <1>6, <2>1, <2>2
  <2>4. q.next[s[i + 1]] = IF i + 1 < Len(s) THEN s[i + 1 + 1] ELSE Null
    BY <1>1, <2>1
  <2>5. i < Len(r) => r[i + 1] = s[i + 1 + 1]
    BY <1>2, <1>3
  <2> QED BY <1>2, <1>3, <2>3, <2>4, <2>5
<1>13. IsList(g, r)
  BY <1>8, <1>10, <1>11, <1>12 DEF IsList
<1>14. s[1] \in Elements(s)
  BY <1>9 DEF Elements
<1> QED BY <1>2, <1>3, <1>5, <1>7, <1>13, <1>14 DEF r, g

\* A list is as long as All has elements at most, so Lists has it.
LEMMA ListInLists ==
  ASSUME NEW q, NEW s \in Seq(All), IsList(q, s)
  PROVE  s \in Lists
<1>1. IsFiniteSet(All) /\ Cardinality(All) \in Nat
  <2>1. IsFiniteSet(All)
    BY TaskAssumption, FS_AddElement DEF All
  <2> QED BY <2>1, FS_CardinalityType
<1>2. Len(s) \in Nat /\ s \in [1..Len(s) -> All]
  OBVIOUS
<1>3. IsFiniteSet(1..Len(s)) /\ Cardinality(1..Len(s)) = Len(s)
  BY <1>2, FS_Interval
<1>4. s \in Injection(1..Len(s), All)
  BY <1>2 DEF IsList, Injection, IsInjective
<1>5. Len(s) <= Cardinality(All)
  BY <1>1, <1>3, <1>4, FS_Injection
<1>6. Len(s) \in 0..Cardinality(All)
  BY <1>1, <1>2, <1>5
<1> QED BY <1>2, <1>6 DEF Lists

LEMMA ListsAreSeqs ==
  ASSUME NEW s \in Lists
  PROVE  s \in Seq(All)
<1>1. Cardinality(All) \in Nat
  <2>1. IsFiniteSet(All)
    BY TaskAssumption, FS_AddElement DEF All
  <2> QED BY <2>1, FS_CardinalityType
<1>2. PICK n \in 0..Cardinality(All) : s \in [1..n -> All]
  BY DEF Lists
<1> QED BY <1>1, <1>2

LEMMA LeastIn ==
  ASSUME NEW S \in SUBSET Nat, S # {}
  PROVE  \E x \in S : \A y \in S : x <= y
<1> DEFINE R == {ss \in Nat \X Nat : ss[1] < ss[2]}
<1>1. IsWellFoundedOn(R, Nat)
  BY NatLessThanWellFounded, Zenon DEF OpToRel
<1>2. PICK x \in S : \A y \in S : ~(<<y, x>> \in R)
  <2> HIDE DEF R
  <2> QED BY <1>1, WFMin
<1>3. \A y \in S : ~(y < x)
  BY <1>2
<1>4. \A y \in S : x <= y
  BY <1>3
<1> QED BY <1>4

\* The head and the links determine the list.
LEMMA ListUnique ==
  ASSUME NEW q, NEW s \in Seq(All), IsList(q, s),
         NEW r \in Seq(All), IsList(q, r), Len(s) <= Len(r)
  PROVE  s = r
<1>1. Len(s) \in Nat /\ Len(r) \in Nat
  OBVIOUS
<1>2. /\ q.head = IF s = <<>> THEN Null ELSE s[1]
      /\ \A i \in 1..Len(s) : q.next[s[i]] = IF i < Len(s) THEN s[i + 1] ELSE Null
      /\ q.head = IF r = <<>> THEN Null ELSE r[1]
      /\ \A i \in 1..Len(r) : q.next[r[i]] = IF i < Len(r) THEN r[i + 1] ELSE Null
      /\ \A i \in 1..Len(r) : r[i] \in All /\ r[i] # Null
  BY NullApart DEF IsList
<1>3. s = <<>> <=> Len(s) = 0
  OBVIOUS
<1>4. r = <<>> <=> Len(r) = 0
  OBVIOUS
<1>5. \A i \in 1..Len(s) : s[i] = r[i]
  <2> DEFINE D == {i \in 1..Len(s) : s[i] # r[i]}
  <2> SUFFICES ASSUME D # {} PROVE FALSE
    OBVIOUS
  <2>1. D \in SUBSET Nat
    BY <1>1
  <2>2. PICK m \in D : \A y \in D : m <= y
    <3> HIDE DEF D
    <3> QED BY <2>1, LeastIn
  <2>3. m \in 1..Len(s) /\ m \in 1..Len(r) /\ s[m] # r[m]
    BY <1>1, <2>2
  <2>4. CASE m = 1
    BY <1>1, <1>2, <1>3, <1>4, <2>3, <2>4
  <2>5. CASE m > 1
    <3>1. m - 1 \in 1..Len(s) /\ m - 1 \in 1..Len(r)
      BY <1>1, <2>3, <2>5
    <3>2. s[m - 1] = r[m - 1]
      BY <1>1, <2>2, <2>3, <3>1
    <3>5. m - 1 < Len(s) /\ m - 1 < Len(r) /\ (m - 1) + 1 = m
      BY <1>1, <2>3, <3>1
    <3>3. q.next[s[m - 1]] = s[(m - 1) + 1]
      BY <1>2, <3>1, <3>5, Zenon
    <3>4. q.next[r[m - 1]] = r[(m - 1) + 1]
      BY <1>2, <3>1, <3>5, Zenon
    <3> QED BY <2>3, <3>2, <3>5, <3>3, <3>4
  <2> QED BY <1>1, <2>3, <2>4, <2>5
<1>6. Len(s) = Len(r)
  <2> SUFFICES ASSUME Len(s) < Len(r) PROVE FALSE
    BY <1>1
  <2>1. CASE Len(s) = 0
    <3>1. 1 \in 1..Len(r)
      BY <1>1, <2>1
    <3> QED BY <1>1, <1>2, <1>3, <1>4, <2>1, <3>1
  <2>2. CASE Len(s) > 0
    <3>1. Len(s) \in 1..Len(s) /\ Len(s) \in 1..Len(r) /\ Len(s) + 1 \in 1..Len(r)
      BY <1>1, <2>2
    <3>2. q.next[s[Len(s)]] = Null
      BY <1>1, <1>2, <3>1
    <3>3. q.next[r[Len(s)]] = r[Len(s) + 1]
      BY <1>1, <1>2, <3>1
    <3> QED BY <1>2, <1>5, <3>1, <3>2, <3>3
  <2> QED BY <1>1, <2>1, <2>2
<1> QED BY <1>1, <1>5, <1>6

LEMMA ListOfIs ==
  ASSUME NEW q, NEW s \in Seq(All), IsList(q, s)
  PROVE  ListOf(q) = s
<1>1. s \in Lists
  BY ListInLists
<1>2. ListOf(q) \in Lists /\ IsList(q, ListOf(q))
  BY <1>1 DEF ListOf
<1>3. ListOf(q) \in Seq(All)
  BY <1>2, ListsAreSeqs
<1>4. Len(s) \in Nat /\ Len(ListOf(q)) \in Nat
  BY <1>3
<1>5. CASE Len(s) <= Len(ListOf(q))
  BY <1>2, <1>3, <1>5, ListUnique
<1>6. CASE Len(ListOf(q)) <= Len(s)
  BY <1>2, <1>3, <1>6, ListUnique
<1> QED BY <1>4, <1>5, <1>6

-----------------------------------------------------------------------------
(* The inductive invariant.                                                *)

\* The links hold what waits.
QueueOK == \E s \in Seq(All) : IsList(queue, s) /\ Elements(s) = Waiting

\* Only idle and tasks that have been readied run or die.
Known ==
  /\ current \in readied \union {Idle}
  /\ \A t \in All : state[t] = "DEAD" => t \in readied \union {Idle}

\* A stack inside task_schedule has chosen a task.
Chose(c) == c.at \in {"switch", "label"} => frame[c.stack].next # Null
FrameOK == Chose(cpu) /\ \A t \in All : Chose(regs[t])

\* The tasks and the queue, and the contexts.
TaskInv ==
  /\ created \subseteq Tasks /\ readied \subseteq created
  /\ state \in [All -> {"READY", "RUNNING", "DEAD"}]
  /\ queue \in Queues
  /\ OneRunning /\ QueueOK /\ Known

CpuInv ==
  /\ regs \in [All -> Context]
  /\ frame \in [All -> [old : All \union {Null}, next : All \union {Null}]]
  /\ cpu \in Context
  /\ FrameOK

IInv == TaskInv /\ CpuInv

LEMMA CurrentIsTask == TaskInv => current \in All
  BY NullApart DEF TaskInv, Known, All

\* Whoever waits is not the current task.
LEMMA CurrentNotWaiting == TaskInv => current \notin Waiting
  BY DEF TaskInv, OneRunning, Waiting

LEMMA InitInv == Init => IInv
<1> SUFFICES ASSUME Init PROVE IInv
  OBVIOUS
<1>1. QueueOK
  <2>1. <<>> \in Seq(All) /\ Len(<<>>) = 0
    OBVIOUS
  <2>2. IsList(queue, <<>>)
    BY <2>1 DEF Init, IsList
  <2>3. Elements(<<>>) = {}
    BY <2>1 DEF Elements
  <2>4. Waiting = {}
    BY NullApart DEF Init, Waiting
  <2> QED BY <2>1, <2>2, <2>3, <2>4 DEF QueueOK
<1>2. OneRunning /\ Known
  BY NullApart DEF Init, OneRunning, Known
<1>3. /\ state \in [All -> {"READY", "RUNNING", "DEAD"}] /\ queue \in Queues
      /\ created \subseteq Tasks /\ readied \subseteq created
  BY NullApart DEF Init, Queues
<1>4. regs \in [All -> Context] /\ cpu \in Context
  BY NullApart DEF Init, Context, Places
<1>5. frame \in [All -> [old : All \union {Null}, next : All \union {Null}]]
  BY DEF Init
<1>6. FrameOK
  BY NullApart DEF Init, FrameOK, Chose
<1> QED BY <1>1, <1>2, <1>3, <1>4, <1>5, <1>6 DEF IInv, TaskInv, CpuInv

-----------------------------------------------------------------------------
(* The steps of the tasks, and what they are to the round robin.           *)

Dead == {t \in All : state[t] = "DEAD"}

\* task_create takes a control block nobody knows of yet.
LEMMA CreateStep ==
  ASSUME TaskInv, NEW t \in Tasks, task_create(t)
  PROVE  TaskInv' /\ ListOf(queue)' = ListOf(queue) /\ Dead' = Dead
<1>1. PICK s \in Seq(All) : IsList(queue, s) /\ Elements(s) = Waiting
  BY DEF TaskInv, QueueOK
<1>2. /\ t \in All /\ t # Idle /\ t \notin created /\ t \notin readied
      /\ created' = created \union {t} /\ readied' = readied
      /\ current' = current /\ current \in All
  BY TaskAssumption, CurrentIsTask DEF task_create, TaskInv, All
<1>3. /\ state' \in [All -> {"READY", "RUNNING", "DEAD"}]
      /\ state'[t] = "READY" /\ \A u \in All : u # t => state'[u] = state[u]
  BY <1>2 DEF task_create, TaskInv
<1>4. /\ queue \in Queues /\ queue' \in Queues
      /\ queue'.head = queue.head /\ queue'.tail = queue.tail
      /\ \A u \in All : u # t => queue'.next[u] = queue.next[u]
  BY <1>2 DEF task_create, TaskInv, Queues
<1>5. current # t /\ state[t] # "DEAD"
  BY <1>2 DEF TaskInv, Known
<1>6. Waiting' = Waiting
  BY <1>2, <1>3 DEF Waiting, TaskInv, All
<1>7. \A i \in 1..Len(s) : s[i] \in All /\ s[i] # t
  <2>1. t \notin Waiting
    BY <1>2 DEF Waiting
  <2> QED BY <1>1, <2>1 DEF Elements
<1>8. IsList(queue', s)
  BY <1>1, <1>4, <1>7 DEF IsList
<1>9. QueueOK'
  BY <1>1, <1>6, <1>8 DEF QueueOK
<1>10. ListOf(queue)' = ListOf(queue)
  BY <1>1, <1>8, ListOfIs
<1>11. OneRunning' /\ Known'
  BY <1>2, <1>3, <1>5 DEF TaskInv, OneRunning, Known
<1>12. Dead' = Dead
  BY <1>2, <1>3, <1>5 DEF Dead
<1> QED BY <1>2, <1>3, <1>4, <1>9, <1>10, <1>11, <1>12 DEF TaskInv

\* task_ready puts a new task at the end of the queue.
LEMMA ReadyStep ==
  ASSUME TaskInv, NEW t \in Tasks, task_ready(t)
  PROVE  TaskInv' /\ RR!Admit(t) /\ Dead' = Dead
<1>1. PICK s \in Seq(All) : IsList(queue, s) /\ Elements(s) = Waiting
  BY DEF TaskInv, QueueOK
<1>2. /\ t \in All /\ t # Idle /\ t \in created /\ t \notin readied
      /\ created' = created /\ readied' = readied \union {t}
      /\ current' = current /\ current \in All
      /\ queue' = Enqueue(queue, t) /\ queue \in Queues
  BY TaskAssumption, CurrentIsTask DEF task_ready, TaskInv, All
<1>3. /\ state' \in [All -> {"READY", "RUNNING", "DEAD"}]
      /\ state'[t] = "READY" /\ \A u \in All : u # t => state'[u] = state[u]
  BY <1>2 DEF task_ready, TaskInv
<1>4. current # t /\ state[t] # "DEAD" /\ t \notin Waiting
  BY <1>2 DEF TaskInv, Known, Waiting
<1>5. Waiting' = Waiting \union {t}
  BY <1>2, <1>3 DEF Waiting, TaskInv, All
<1>6. /\ queue' \in Queues /\ Append(s, t) \in Seq(All)
      /\ IsList(queue', Append(s, t))
      /\ Elements(Append(s, t)) = Elements(s) \union {t}
  BY <1>1, <1>2, <1>4, EnqueueAppends
<1>7. QueueOK'
  BY <1>1, <1>5, <1>6 DEF QueueOK
<1>8. OneRunning' /\ Known'
  BY <1>2, <1>3, <1>4 DEF TaskInv, OneRunning, Known
<1>9. Dead' = Dead
  BY <1>2, <1>3, <1>4 DEF Dead
<1>10. ListOf(queue) = s /\ ListOf(queue)' = Append(s, t)
  BY <1>1, <1>6, ListOfIs
<1>11. RR!Waiting = Waiting
  BY <1>1, <1>10 DEF RR!Waiting, Elements
<1>12. RR!Admit(t)
  BY <1>2, <1>4, <1>9, <1>10, <1>11 DEF RR!Admit, Dead
<1> QED BY <1>2, <1>3, <1>6, <1>7, <1>8, <1>9, <1>12 DEF TaskInv

\* task_exit marks the current task.
LEMMA ExitStep ==
  ASSUME TaskInv, task_exit
  PROVE  TaskInv' /\ RR!Exit /\ Dead \subseteq Dead'
<1>1. /\ created' = created /\ readied' = readied /\ queue' = queue
      /\ current' = current /\ current \in All
  BY CurrentIsTask DEF task_exit, taskVars
<1>2. /\ state' \in [All -> {"READY", "RUNNING", "DEAD"}]
      /\ state'[current] = "DEAD"
      /\ \A u \in All : u # current => state'[u] = state[u]
  BY <1>1 DEF task_exit, TaskInv
<1>3. Waiting' = Waiting
  BY <1>1, <1>2, CurrentNotWaiting DEF Waiting, TaskInv, All
<1>4. OneRunning' /\ Known' /\ QueueOK'
  BY <1>1, <1>2, <1>3 DEF TaskInv, OneRunning, Known, QueueOK
<1>5. Dead' = Dead \union {current}
  BY <1>1, <1>2 DEF Dead
<1>6. RR!Exit
  BY <1>1, <1>5 DEF RR!Exit, Dead
<1> QED BY <1>1, <1>2, <1>4, <1>5, <1>6 DEF TaskInv

\* The critical section of both schedulers.  With a task in the queue, the
\* first is served; with none, idle is dead and is woken.
LEMMA SwitchStep ==
  ASSUME TaskInv, Chosen # Null, Switch(Chosen),
         created' = created, readied' = readied
  PROVE  /\ TaskInv'
         /\ RR!Serve \/ RR!WakeIdle
         /\ Dead \ {Idle} \subseteq Dead'
<1> DEFINE n == Chosen
           runs == state[current] = "RUNNING"
           q == IF queue.head # Null THEN Dequeue(queue) ELSE queue
<1>1. PICK s \in Seq(All) : IsList(queue, s) /\ Elements(s) = Waiting
  BY DEF TaskInv, QueueOK
<1>2. /\ current \in All /\ Idle \in All /\ Null \notin All
      /\ queue \in Queues /\ state \in [All -> {"READY", "RUNNING", "DEAD"}]
      /\ state[current] # "READY"
      /\ \A t \in All : t # current => state[t] # "RUNNING"
      /\ readied \subseteq All
  BY CurrentIsTask, NullApart DEF TaskInv, OneRunning, All
<1>3. /\ current' = n
      /\ queue' = IF runs THEN Enqueue(q, current) ELSE q
      /\ state' = [t \in All |-> IF t = n THEN "RUNNING"
                                 ELSE IF t = current /\ runs THEN "READY"
                                 ELSE state[t]]
  BY DEF Switch
<1> DEFINE r == IF queue.head # Null THEN Tail(s) ELSE s
<1>4. /\ q \in Queues /\ r \in Seq(All) /\ IsList(q, r)
      /\ Elements(r) = Waiting \ {n}
      /\ n \in All
      /\ n # current \/ (current = Idle /\ n = Idle)
      /\ n \in Waiting \/ n = Idle
      /\ queue.head # Null => s # <<>> /\ n = Head(s) /\ n \in Waiting
      /\ queue.head = Null => s = <<>> /\ n = Idle /\ state[Idle] = "DEAD"
  <2>1. CASE queue.head # Null
    <3>1. n = queue.head
      BY <2>1 DEF Chosen
    <3>2. /\ s # <<>> /\ n = Head(s) /\ n \in Waiting
          /\ q \in Queues /\ r \in Seq(All) /\ IsList(q, r)
          /\ Elements(r) = Waiting \ {n}
      BY <1>1, <1>2, <2>1, <3>1, DequeueTakes
    <3>3. n \in All /\ n # current
      BY <1>2, <3>2, CurrentNotWaiting DEF Waiting
    <3> QED BY <2>1, <3>2, <3>3
  <2>2. CASE queue.head = Null
    <3>1. s = <<>>
      <4>1. s # <<>> => Len(s) >= 1 /\ s[1] \in All
        OBVIOUS
      <4> QED BY <1>1, <1>2, <2>2, <4>1 DEF IsList
    <3>2. Waiting = {}
      <4>1. Len(s) = 0
        BY <3>1
      <4> QED BY <1>1, <4>1 DEF Elements
    <3>3. n = Idle /\ (state[current] = "DEAD" \/ current # Idle)
      BY <2>2 DEF Chosen
    <3>4. state[Idle] # "READY"
      BY <3>2 DEF Waiting
    <3>5. state[Idle] = "DEAD"
      BY <1>2, <3>3, <3>4
    <3>6. q = queue /\ r = s
      BY <2>2
    <3> QED BY <1>1, <1>2, <2>2, <3>1, <3>2, <3>3, <3>5, <3>6
  <2> QED BY <2>1, <2>2
<1>5. /\ n \in All /\ state[n] # "RUNNING"
      /\ n \in Waiting => state[n] = "READY"
      /\ runs => n # current
  BY <1>2, <1>4 DEF Waiting
<1>6. /\ state' \in [All -> {"READY", "RUNNING", "DEAD"}]
      /\ state'[n] = "RUNNING"
      /\ \A t \in All : t # n /\ ~(t = current /\ runs) => state'[t] = state[t]
      /\ runs => state'[current] = "READY"
  BY <1>2, <1>3, <1>5
<1> DEFINE z == IF runs THEN Append(r, current) ELSE r
<1>7. Waiting' = IF runs THEN (Waiting \ {n}) \union {current} ELSE Waiting \ {n}
  <2>1. current \in readied \union {Idle} /\ readied' = readied
    BY DEF TaskInv, Known
  <2>2. CASE runs
    BY <1>2, <1>4, <1>5, <1>6, <2>1, <2>2 DEF Waiting
  <2>3. CASE ~runs
    BY <1>2, <1>4, <1>5, <1>6, <2>1, <2>3 DEF Waiting
  <2> QED BY <2>2, <2>3
<1>8. /\ queue' \in Queues /\ z \in Seq(All) /\ IsList(queue', z)
      /\ Elements(z) = Waiting'
  <2>1. CASE runs
    <3>1. current \notin Elements(r)
      BY <1>4, CurrentNotWaiting
    <3> HIDE DEF q, r
    <3> QED BY <1>2, <1>3, <1>4, <1>7, <2>1, <3>1, EnqueueAppends
  <2>2. CASE ~runs
    BY <1>3, <1>4, <1>7, <2>2
  <2> QED BY <2>1, <2>2
<1> HIDE DEF q
<1>9. QueueOK'
  BY <1>8 DEF QueueOK
<1>10. OneRunning'
  BY <1>2, <1>3, <1>5, <1>6 DEF OneRunning
<1>11. Known'
  <2>1. n \in readied \union {Idle}
    BY <1>4 DEF Waiting
  <2>2. \A t \in All : state'[t] = "DEAD" => state[t] = "DEAD"
    BY <1>2, <1>5, <1>6
  <2> QED BY <1>3, <2>1, <2>2 DEF TaskInv, Known
<1>12. TaskInv'
  BY <1>6, <1>8, <1>9, <1>10, <1>11 DEF TaskInv
<1>13. ListOf(queue) = s /\ ListOf(queue)' = z
  BY <1>1, <1>8, ListOfIs
<1>14. runs <=> current \notin Dead
  BY <1>2 DEF Dead
<1>15. Dead' = Dead \ {n}
  BY <1>2, <1>5, <1>6 DEF Dead
<1>16. n \in Waiting => n \notin Dead
  BY <1>5 DEF Dead
<1>17. CASE queue.head # Null
  <2>1. Dead' = Dead /\ s # <<>> /\ n = Head(s)
    BY <1>4, <1>15, <1>16, <1>17
  <2>2. z = IF current \in Dead THEN Tail(s) ELSE Append(Tail(s), current)
    BY <1>14, <1>17
  <2>3. RR!Serve
    BY <1>3, <1>13, <2>1, <2>2 DEF RR!Serve, RR!Requeue, Dead
  <2> QED BY <1>12, <2>1, <2>3
<1>18. CASE queue.head = Null
  <2>1. Dead' = Dead \ {Idle} /\ s = <<>> /\ n = Idle /\ Idle \in Dead
    BY <1>2, <1>4, <1>15, <1>18 DEF Dead
  <2>2. z = IF current \in Dead THEN s ELSE Append(s, current)
    BY <1>14, <1>18
  <2>3. RR!WakeIdle
    BY <1>3, <1>13, <2>1, <2>2 DEF RR!WakeIdle, RR!Requeue, Dead
  <2> QED BY <1>12, <2>1, <2>3
<1> QED BY <1>17, <1>18

-----------------------------------------------------------------------------
(* The contexts.                                                           *)

LEMMA AtIsContext ==
  ASSUME NEW c \in Context, NEW p \in Places
  PROVE  /\ [c EXCEPT !.at = p] \in Context
         /\ [c EXCEPT !.at = p].at = p
         /\ [c EXCEPT !.at = p].stack = c.stack
  BY DEF Context

LEMMA IrqContext ==
  ASSUME NEW c \in Context
  PROVE  /\ [c EXCEPT !.intact = @ /\ IrqKeepsRegisters] \in Context
         /\ [c EXCEPT !.intact = @ /\ IrqKeepsRegisters].at = c.at
         /\ [c EXCEPT !.intact = @ /\ IrqKeepsRegisters].stack = c.stack
<1>1. (c.intact /\ IrqKeepsRegisters) \in BOOLEAN
  OBVIOUS
<1> QED BY <1>1 DEF Context

LEMMA ChosenIsTask == TaskInv => Chosen \in All \union {Null}
  BY NullApart DEF Chosen, TaskInv, Queues

LEMMA CpuStep ==
  ASSUME TaskInv, CpuInv, Next
  PROVE  CpuInv'
<1> USE DEF Places
<1>1. /\ regs \in [All -> Context] /\ cpu \in Context
      /\ frame \in [All -> [old : All \union {Null}, next : All \union {Null}]]
      /\ Chose(cpu) /\ \A t \in All : Chose(regs[t])
      /\ current \in All /\ Null \notin All
      /\ cpu.stack \in All /\ \A t \in All : regs[t].stack \in All
  BY CurrentIsTask, NullApart DEF CpuInv, FrameOK, Context
<1>2. ASSUME NEW t \in Tasks, task_create(t) PROVE CpuInv'
  <2> DEFINE new == [stack |-> t, at |-> "run", intact |-> TRUE]
  <2>1. new \in Context /\ new.at = "run" /\ t \in All
    BY DEF Context, All
  <2>2. regs' = [regs EXCEPT ![t] = new] /\ frame' = frame /\ cpu' = cpu
    BY <1>2 DEF task_create
  <2> HIDE DEF new
  <2> QED BY <1>1, <2>1, <2>2 DEF CpuInv, FrameOK, Chose
<1>3. ASSUME UNCHANGED <<regs, frame, cpu>> PROVE CpuInv'
  BY <1>1, <1>3 DEF CpuInv, FrameOK, Chose
<1>4. ASSUME NEW b \in {"run", "hlt"}, Schedule(b) PROVE CpuInv'
  <2>1. regs' = regs
    BY <1>4 DEF Schedule
  <2>2. CASE Chosen \in {Null, current}
    <3>1. frame' = frame /\ cpu' = At(b)
      BY <1>4, <2>2 DEF Schedule
    <3>2. At(b) \in Context /\ At(b).at = b
      <4>1. b \in Places
        OBVIOUS
      <4> HIDE DEF Places
      <4> QED BY <1>1, <4>1, AtIsContext, Zenon DEF At
    <3> HIDE DEF Places
    <3> QED BY <1>1, <2>1, <3>1, <3>2 DEF CpuInv, FrameOK, Chose
  <2>3. CASE Chosen \notin {Null, current}
    <3> DEFINE fr == [old |-> current, next |-> Chosen]
    <3>1. cpu' = At("switch") /\ frame' = [frame EXCEPT ![cpu.stack] = fr]
      BY <1>4, <2>3 DEF Schedule
    <3>2. At("switch") \in Context /\ At("switch").stack = cpu.stack
      BY <1>1, AtIsContext DEF At
    <3>3. /\ fr \in [old : All \union {Null}, next : All \union {Null}]
          /\ fr.next # Null
      BY <1>1, <2>3, ChosenIsTask
    <3> HIDE DEF fr
    <3>4. /\ frame' \in [All -> [old : All \union {Null}, next : All \union {Null}]]
          /\ frame'[cpu.stack] = fr
          /\ \A u \in All : u # cpu.stack => frame'[u] = frame[u]
      BY <1>1, <3>1, <3>3
    <3>5. Chose(cpu)'
      BY <3>1, <3>2, <3>3, <3>4 DEF Chose
    <3>6. \A t \in All : Chose(regs[t])'
      BY <1>1, <2>1, <3>3, <3>4 DEF Chose
    <3> QED BY <1>1, <2>1, <3>1, <3>2, <3>4, <3>5, <3>6 DEF CpuInv, FrameOK
  <2> QED BY <2>2, <2>3
<1>5. CASE task_exit
  <2>1. regs' = regs /\ frame' = frame /\ cpu' = At("exit")
    BY <1>5 DEF task_exit
  <2>2. At("exit") \in Context /\ At("exit").at = "exit"
    BY <1>1, AtIsContext DEF At
  <2> QED BY <1>1, <2>1, <2>2 DEF CpuInv, FrameOK, Chose
<1>6. CASE SaveContext
  <2>1. /\ regs' = [regs EXCEPT ![frame[cpu.stack].old] = At("label")]
        /\ frame' = frame /\ cpu' = At("label") /\ cpu.at = "switch"
    BY <1>6 DEF SaveContext
  <2>2. /\ At("label") \in Context /\ At("label").at = "label"
        /\ At("label").stack = cpu.stack
    BY <1>1, AtIsContext DEF At
  <2>3. frame[cpu.stack].next # Null
    BY <1>1, <2>1 DEF Chose
  <2>4. regs' \in [All -> Context]
    BY <1>1, <2>1, <2>2
  <2>5. \A t \in All : regs'[t] = regs[t] \/ regs'[t] = At("label")
    BY <1>1, <2>1
  <2>6. Chose(cpu)'
    BY <2>1, <2>2, <2>3 DEF Chose
  <2>7. \A t \in All : Chose(regs[t])'
    BY <1>1, <2>1, <2>2, <2>3, <2>5 DEF Chose
  <2> QED BY <1>1, <2>1, <2>2, <2>4, <2>6, <2>7 DEF CpuInv, FrameOK
<1>7. CASE task_restore
  <2>1. /\ regs' = regs /\ frame' = frame
        /\ cpu' = regs[frame[cpu.stack].next] /\ cpu.at = "label"
    BY <1>7 DEF task_restore
  <2>2. frame[cpu.stack].next \in All
    BY <1>1, <2>1 DEF Chose
  <2> QED BY <1>1, <2>1, <2>2 DEF CpuInv, FrameOK, Chose
<1>8. CASE irq_timer_entry
  <2> DEFINE c == [cpu EXCEPT !.intact = @ /\ IrqKeepsRegisters]
             saved == [regs EXCEPT ![current] = c]
  <2>1. /\ regs' = saved /\ frame' = frame
        /\ cpu' = IF Chosen \in {Null, current} THEN cpu ELSE saved[Chosen]
    BY <1>8 DEF irq_timer_entry
  <2>2. c \in Context /\ c.at = cpu.at /\ c.stack = cpu.stack
    BY <1>1, IrqContext
  <2> HIDE DEF c
  <2>3. saved \in [All -> Context]
    BY <1>1, <2>2
  <2>4. \A t \in All : saved[t] = regs[t] \/ saved[t] = c
    BY <1>1
  <2>5. Chose(c)
    BY <1>1, <2>2 DEF Chose
  <2>6. \A t \in All : Chose(saved[t])
    BY <1>1, <2>4, <2>5
  <2> HIDE DEF saved
  <2>7. cpu' = cpu \/ \E t \in All : cpu' = saved[t]
    BY <2>1, ChosenIsTask
  <2>8. cpu' \in Context /\ Chose(cpu')
    BY <1>1, <2>3, <2>6, <2>7
  <2> QED BY <1>1, <2>1, <2>3, <2>6, <2>8 DEF CpuInv, FrameOK, Chose
<1>9. ASSUME NEW t \in Tasks, task_ready(t) PROVE CpuInv'
  BY <1>3, <1>9 DEF task_ready
<1> QED BY <1>2, <1>4, <1>5, <1>6, <1>7, <1>8, <1>9
        DEF Next, task_yield, ExitSchedules

-----------------------------------------------------------------------------
(* All steps.                                                              *)

\* The tasks stay consistent, a step is one of the round robin or none, and
\* only idle comes back from the dead.
LEMMA TaskStep ==
  ASSUME TaskInv, Next
  PROVE  /\ TaskInv'
         /\ [RR!Next]_<<ListOf(queue), current, Dead>>
         /\ Dead \ {Idle} \subseteq Dead'
<1>1. ASSUME UNCHANGED <<created, readied, state, queue, current>>
      PROVE  /\ TaskInv'
             /\ UNCHANGED <<ListOf(queue), current, Dead>>
  BY <1>1 DEF TaskInv, OneRunning, QueueOK, Waiting, Known, Dead, ListOf, IsList
<1>2. ASSUME NEW t \in Tasks, task_create(t)
      PROVE  TaskInv' /\ UNCHANGED <<ListOf(queue), current, Dead>>
  BY <1>2, CreateStep DEF task_create
<1>3. ASSUME NEW t \in Tasks, task_ready(t)
      PROVE  TaskInv' /\ RR!Next /\ Dead' = Dead
  BY <1>3, ReadyStep DEF RR!Next
<1>4. ASSUME created' = created, readied' = readied,
             IF Chosen = Null THEN UNCHANGED <<state, queue, current>>
             ELSE Switch(Chosen)
      PROVE  /\ TaskInv'
             /\ [RR!Next]_<<ListOf(queue), current, Dead>>
             /\ Dead \ {Idle} \subseteq Dead'
  <2>1. CASE Chosen = Null
    BY <1>1, <1>4, <2>1
  <2>2. CASE Chosen # Null
    BY <1>4, <2>2, SwitchStep DEF RR!Next
  <2> QED BY <2>1, <2>2
<1>5. CASE task_exit
  BY <1>5, ExitStep DEF RR!Next
<1>6. CASE task_yield \/ ExitSchedules \/ irq_timer_entry
  BY <1>4, <1>6 DEF task_yield, ExitSchedules, irq_timer_entry, Schedule, taskVars
<1>7. CASE SaveContext \/ task_restore
  BY <1>1, <1>7 DEF SaveContext, task_restore, taskVars
<1> QED BY <1>2, <1>3, <1>5, <1>6, <1>7 DEF Next

LEMMA StepInv ==
  ASSUME IInv, [Next]_vars
  PROVE  IInv'
<1>1. CASE Next
  BY <1>1, TaskStep, CpuStep DEF IInv
<1>2. CASE UNCHANGED vars
  BY <1>2 DEF vars, IInv, TaskInv, OneRunning, QueueOK, IsList, Waiting, Known,
              CpuInv, FrameOK, Chose
<1> QED BY <1>1, <1>2

LEMMA SpecInv == Spec => []IInv
<1>1. IInv /\ [Next]_vars => IInv'
  BY StepInv
<1> QED BY <1>1, InitInv, PTL DEF Spec

-----------------------------------------------------------------------------
(* The theorems.                                                           *)

\* For any number of tasks, and with a timer interrupt between any two steps
\* of task_schedule, task_exit and task_restore, the linked ready queue is one
\* list that holds exactly the tasks waiting for the CPU.
THEOREM QueueHoldsWaitingTasks == Spec => []QueueHoldsWaiting
<1>1. IInv => QueueHoldsWaiting
  <2> SUFFICES ASSUME IInv PROVE QueueHoldsWaiting
    OBVIOUS
  <2>1. TypeOK
    BY CurrentIsTask DEF IInv, TaskInv, CpuInv, TypeOK, Queues
  <2>2. PICK s \in Seq(All) : IsList(queue, s) /\ Elements(s) = Waiting
    BY DEF IInv, TaskInv, QueueOK
  <2>3. s \in Lists
    BY <2>2, ListInLists
  <2> QED BY <2>1, <2>2, <2>3 DEF QueueHoldsWaiting, Elements
<1> QED BY <1>1, SpecInv, PTL

\* No task but current_task is ever RUNNING, and current_task is never READY.
THEOREM OneTaskRuns == Spec => []OneRunning
<1>1. IInv => OneRunning
  BY DEF IInv, TaskInv
<1> QED BY <1>1, SpecInv, PTL

\* A task that has called task_exit is not scheduled again.
THEOREM ExitIsFinal == Spec => DeadStaysDead
<1>1. IInv /\ [Next]_vars
        => [\A t \in Tasks : state[t] = "DEAD" => state'[t] = "DEAD"]_vars
  <2> SUFFICES ASSUME IInv, Next, NEW t \in Tasks, state[t] = "DEAD"
               PROVE  state'[t] = "DEAD"
    OBVIOUS
  <2>1. Dead \ {Idle} \subseteq Dead'
    BY TaskStep DEF IInv
  <2>2. t \in Dead \ {Idle}
    BY TaskAssumption DEF Dead, All
  <2> QED BY <2>1, <2>2 DEF Dead
<1> QED BY <1>1, SpecInv, PTL DEF Spec, DeadStaysDead

\* The scheduler is a round robin: whatever the interleaving of yields, exits
\* and interrupts, the task that becomes current has waited longest, and one
\* that gives up the CPU goes behind all others.
THEOREM SchedulerIsRoundRobin == Spec => RoundRobinSpec
<1>1. Init => RR!Init
  <2> SUFFICES ASSUME Init PROVE RR!Init
    OBVIOUS
  <2>1. <<>> \in Seq(All) /\ Len(<<>>) = 0
    OBVIOUS
  <2>2. IsList(queue, <<>>)
    BY <2>1 DEF Init, IsList
  <2>3. ListOf(queue) = <<>>
    BY <2>1, <2>2, ListOfIs
  <2>4. {t \in All : state[t] = "DEAD"} = {}
    BY DEF Init
  <2> QED BY <2>3, <2>4 DEF Init, RR!Init
<1>2. IInv /\ [Next]_vars => [RR!Next]_RR!rrVars
  <2> SUFFICES ASSUME IInv, [Next]_vars PROVE [RR!Next]_RR!rrVars
    OBVIOUS
  <2>1. CASE Next
    BY <2>1, TaskStep DEF IInv, RR!rrVars, Dead
  <2>2. CASE UNCHANGED vars
    BY <2>2 DEF vars, RR!rrVars, ListOf, IsList
  <2> QED BY <2>1, <2>2
<1> QED BY <1>1, <1>2, SpecInv, PTL DEF Spec, RoundRobinSpec, RR!Spec
=============================================================================
