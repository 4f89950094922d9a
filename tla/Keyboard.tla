------------------------------ MODULE Keyboard ------------------------------
(***************************************************************************)
(* The way of a key from the PS/2 controller to the shell: the interrupt   *)
(* handler irq_handler_c (interrupt/idt.c) raises an event, the main loop  *)
(* kloop (main.c) dispatches it to kbd_isr and kbd_process                 *)
(* (device/keyboard.c), and the shell takes characters from the ring       *)
(* buffer key_buffer, which the serial line fills as well.  An interrupt   *)
(* may arrive between any two steps of the main loop.                      *)
(*                                                                         *)
(* A scancode is the key it comes from: a letter or another printing key,  *)
(* or a modifier going down or up.  A character is a key with the shift it *)
(* was typed with.                                                         *)
(***************************************************************************)
EXTENDS Interrupts, SequencesExt

CONSTANTS
  KEY_BUFFER_SIZE,
  Letters,         \* keys that give a letter
  Digits,          \* keys that give any other character
  MaxKeys,         \* bound on the scancodes the keyboard sends
  MaxSerial        \* bound on the characters the serial line sends

None == "none"     \* scancode 0: no data
Modifiers == {"shift_down", "shift_up", "ctrl_down", "ctrl_up",
              "alt_down", "alt_up"}
Keys == Letters \union Digits
Scancodes == Keys \union Modifiers
Char(k, shift) == [key |-> k, shift |-> shift]
NoChar == Char(None, FALSE)
Caret == Char("caret", FALSE)
Serial == Char("serial", FALSE)

\* The constants of Interrupts as the keyboard uses them: one vector, both
\* handlers, and scancodes as payloads.
KeySetUp ==
  /\ KEY_BUFFER_SIZE \in Nat \ {0}
  /\ Payloads = Scancodes \union {None}
  /\ Vectors = {33}
  /\ {"kbd_isr", "kbd_process"} \subseteq Handlers
  /\ Keys \intersect {None, Caret.key, Serial.key} = {}

VARIABLES
  typed,     \* history: the scancodes the keyboard has sent
  port,      \* the controller: full (status bit 0) and the byte at port 0x60
  irq1,      \* the interrupt of the byte in the port is pending
  sc,        \* the local of kbd_isr
  serial,    \* characters sent over the serial line so far, and not read yet
  held,      \* shift_down, ctrl_down and alt_down
  ring,      \* key_buffer, buffer_read_pos, buffer_write_pos
  pc,        \* where the main loop is
  activity,  \* its local: this round has dispatched something
  got,       \* history: the characters the shell was given
  raced,     \* history: kbd_isr got to the port before its interrupt did
  lost,      \* history: the event FIFO was full and dropped a scancode
  full       \* history: key_buffer was full and dropped a character

keyVars ==
  <<typed, port, irq1, sc, serial, held, ring, pc, activity, got, raced, lost, full>>
kVars == <<vars, keyVars>>

-----------------------------------------------------------------------------
(* The ring buffer of characters: one cell always stays free.              *)

Advance(pos) == (pos + 1) % KEY_BUFFER_SIZE

buffer_put(r, c) ==
  IF Advance(r.write) = r.read THEN r
  ELSE [cell |-> [r.cell EXCEPT ![r.write] = c], read |-> r.read,
        write |-> Advance(r.write)]

\* The characters of cs one after the other.
buffer_puts(r, cs) ==
  LET after[i \in 0..Len(cs)] ==
        IF i = 0 THEN r ELSE buffer_put(after[i - 1], cs[i])
  IN  after[Len(cs)]

Empty(r) == r.read = r.write
buffer_get(r) == IF Empty(r) THEN NoChar ELSE r.cell[r.read]
Drained(r) == IF Empty(r) THEN r ELSE [r EXCEPT !.read = Advance(@)]

\* Mutant: releases are ignored, a modifier stays down.
HeldForever(h, s) ==
  [shift |-> h.shift \/ s = "shift_down", ctrl |-> h.ctrl \/ s = "ctrl_down",
   alt |-> h.alt \/ s = "alt_down"]

\* What kbd_process makes of one scancode: the modifiers held afterwards and
\* the characters it puts.
HeldAfter(h, s) ==
  [shift |-> IF s \in {"shift_down", "shift_up"} THEN s = "shift_down" ELSE h.shift,
   ctrl  |-> IF s \in {"ctrl_down", "ctrl_up"} THEN s = "ctrl_down" ELSE h.ctrl,
   alt   |-> IF s \in {"alt_down", "alt_up"} THEN s = "alt_down" ELSE h.alt]

CharsOf(h, s) ==
  IF s \notin Keys \/ (h.ctrl /\ s \notin Letters) \/ (~h.ctrl /\ h.alt) THEN <<>>
  ELSE IF h.ctrl THEN <<Caret, Char(s, TRUE)>>
  ELSE <<Char(s, h.shift)>>

Fits(r, cs) == Len(cs) <= (r.read - r.write - 1) % KEY_BUFFER_SIZE

\* The end of keyboard_poll: what the serial line has goes into the buffer.
SerialChars == [i \in 1..serial.waiting |-> Serial]

-----------------------------------------------------------------------------
(* The device and its interrupt.                                           *)

Event(s) == [vec |-> 33, payload |-> s]

\* vec 33 in irq_handler_c: whatever is in the port, or 0, is raised.
Irq33(p) ==
  LET e == Event(IF p.full THEN p.byte ELSE None) IN
  /\ irq_fifo' = fifo_push(irq_fifo, e)
  /\ lost' = (lost \/ (fifo_is_full(irq_fifo) /\ e.payload # None))
  /\ port' = [p EXCEPT !.full = FALSE]
  /\ irq1' = FALSE
  /\ pc' = IF pc = "hlt" THEN "dispatch" ELSE pc

\* The keyboard sends its next scancode once the last one has been read.  The
\* CPU may execute a little further before it takes the interrupt.
KeyArrives(s) ==
  /\ Len(typed) < MaxKeys
  /\ ~port.full /\ ~irq1
  /\ typed' = Append(typed, s)
  /\ port' = [full |-> TRUE, byte |-> s]
  /\ irq1' = TRUE
  /\ UNCHANGED <<vars, sc, serial, held, ring, pc, activity, got, raced, lost, full>>

IrqTaken ==
  /\ irq1
  /\ Irq33(port)
  /\ UNCHANGED <<irq_table, evt, idx, typed, sc, serial, held, ring, activity, got, raced, full>>

\* Mutant: the CPU is halted with interrupts disabled.
TimerMasked == pc = "hlt" /\ UNCHANGED kVars

\* The timer interrupt, which wakes a halted CPU.
TimerTick ==
  /\ pc = "hlt"
  /\ pc' = "dispatch"
  /\ UNCHANGED <<vars, typed, port, irq1, sc, serial, held, ring, activity, got, raced, lost, full>>

-----------------------------------------------------------------------------
(* The main loop.                                                          *)

MainOnly == UNCHANGED <<typed, port, irq1, serial, held, ring, got, raced, lost, full>>

\* interrupt_dispatch_one: an event is taken, or the loop goes to the shell.
Dispatch ==
  /\ pc = "dispatch" /\ evt = NoEvent
  /\ IF fifo_is_empty(irq_fifo)
       THEN pc' = "shell" /\ UNCHANGED <<vars, activity>>
       ELSE Pop /\ activity' = TRUE /\ UNCHANGED pc
  /\ UNCHANGED sc /\ MainOnly

\* kbd_isr as a handler: it looks at the status, reads the port and raises
\* what it has read once more.
IsrStatus ==
  /\ pc = "dispatch" /\ MoreHandlers /\ NextHandler = "kbd_isr" /\ sc = None
  /\ IF port.full
       THEN pc' = "isr_data" /\ UNCHANGED idx
       ELSE idx' = idx + 1 /\ UNCHANGED pc
  /\ UNCHANGED <<irq_fifo, irq_table, evt, sc, activity>> /\ MainOnly

IsrData ==
  /\ pc = "isr_data"
  /\ sc' = port.byte
  /\ port' = [port EXCEPT !.full = FALSE]
  /\ raced' = TRUE
  /\ pc' = "isr_raise"
  /\ UNCHANGED <<vars, typed, irq1, serial, held, ring, activity, got, lost, full>>

\* Mutant: the raise is left to irq_handler_c.
IsrRaiseNot ==
  /\ pc = "isr_raise"
  /\ Calls("kbd_isr")
  /\ sc' = None
  /\ pc' = "dispatch"
  /\ UNCHANGED <<irq_fifo, typed, port, irq1, serial, held, ring, activity, got,
                 raced, lost, full>>

IsrRaise ==
  /\ pc = "isr_raise"
  /\ Calls("kbd_isr")
  /\ irq_fifo' = fifo_push(irq_fifo, Event(sc))
  /\ lost' = (lost \/ fifo_is_full(irq_fifo))
  /\ sc' = None
  /\ pc' = "dispatch"
  /\ UNCHANGED <<typed, port, irq1, serial, held, ring, activity, got, raced, full>>

kbd_process ==
  LET cs == CharsOf(held, evt.payload) IN
  /\ pc = "dispatch"
  /\ Calls("kbd_process")
  /\ held' = HeldAfter(held, evt.payload)
  /\ ring' = buffer_puts(ring, cs)
  /\ full' = (full \/ ~Fits(ring, cs))
  /\ UNCHANGED <<irq_fifo, typed, port, irq1, sc, serial, pc, activity, got, raced, lost>>

DispatchEnds ==
  /\ pc = "dispatch"
  /\ Finished
  /\ UNCHANGED <<sc, pc, activity>> /\ MainOnly

SerialArrives ==
  /\ serial.sent < MaxSerial
  /\ serial' = [sent |-> serial.sent + 1, waiting |-> serial.waiting + 1]
  /\ UNCHANGED <<vars, typed, port, irq1, sc, held, ring, pc, activity, got,
                 raced, lost, full>>

\* keyboard_poll when the interrupt handler is set up (irq_enabled).
keyboard_poll ==
  /\ full' = (full \/ ~Fits(ring, SerialChars))
  /\ serial' = [serial EXCEPT !.waiting = 0]

Polled == buffer_puts(ring, SerialChars)
Takes(r) ==
  /\ got' = IF Empty(r) THEN got ELSE Append(got, buffer_get(r))
  /\ ring' = Drained(r)

\* shell_readline_and_execute polls, takes one character and processes it; a
\* command that this completes may read from the keyboard.  The loop halts if
\* this round has dispatched nothing.
shell_readline_and_execute ==
  /\ pc = "shell"
  /\ keyboard_poll
  /\ Takes(Polled)
  /\ \/ pc' = IF activity THEN "dispatch" ELSE "hlt"
     \/ ~Empty(Polled) /\ pc' = "getchar"
  /\ activity' = FALSE
  /\ UNCHANGED <<vars, typed, port, irq1, sc, held, raced, lost>>

\* keyboard_getchar, called by vfs_read on stdin: it polls until the buffer
\* has something, and nothing else runs meanwhile.
keyboard_getchar ==
  /\ pc = "getchar"
  /\ IF Empty(ring)
       THEN /\ keyboard_poll
            /\ ring' = Polled
            /\ UNCHANGED <<pc, got>>
       ELSE /\ Takes(ring)
            /\ pc' = "dispatch"
            /\ UNCHANGED <<serial, full>>
  /\ UNCHANGED <<vars, typed, port, irq1, sc, held, activity, raced, lost>>

\* keyboard_init has registered both handlers.
KInit ==
  /\ irq_fifo = [buf |-> [i \in Slots |-> Event(None)],
                 head |-> 0, tail |-> 0, count |-> 0]
  /\ irq_table = [v \in Vectors |-> <<"kbd_isr", "kbd_process">>]
  /\ evt = NoEvent /\ idx = 0
  /\ typed = <<>> /\ got = <<>>
  /\ raced = FALSE /\ lost = FALSE /\ full = FALSE
  /\ port = [full |-> FALSE, byte |-> None]
  /\ irq1 = FALSE
  /\ sc = None
  /\ held = [shift |-> FALSE, ctrl |-> FALSE, alt |-> FALSE]
  /\ serial = [sent |-> 0, waiting |-> 0]
  /\ ring = [cell |-> [i \in 0..(KEY_BUFFER_SIZE - 1) |-> NoChar],
             read |-> 0, write |-> 0]
  /\ pc = "dispatch"
  /\ activity = FALSE

Main ==
  \/ Dispatch \/ IsrStatus \/ IsrData \/ IsrRaise \/ kbd_process
  \/ DispatchEnds \/ shell_readline_and_execute \/ keyboard_getchar

KNext ==
  \/ \E s \in Scancodes : KeyArrives(s)
  \/ IrqTaken
  \/ TimerTick
  \/ SerialArrives
  \/ Main

KSpec == KInit /\ [][KNext]_kVars

\* The CPU executes, takes pending interrupts, and the timer never stops.
KFairSpec ==
  KSpec /\ WF_kVars(Main) /\ WF_kVars(IrqTaken) /\ WF_kVars(TimerTick)

-----------------------------------------------------------------------------
(* Properties.                                                             *)

\* Reference: the character a key stands for, from the modifiers pressed and
\* released before it.
LastOf(s, i, down, up) ==
  \E j \in 1..(i - 1) :
    s[j] = down /\ \A m \in (j + 1)..(i - 1) : s[m] # up
Meaning(s, i) ==
  LET ctrl == LastOf(s, i, "ctrl_down", "ctrl_up") IN
  IF s[i] \in Letters /\ ctrl THEN <<Caret, Char(s[i], TRUE)>>
  ELSE IF s[i] \in Keys /\ ~ctrl /\ ~LastOf(s, i, "alt_down", "alt_up")
       THEN <<Char(s[i], LastOf(s, i, "shift_down", "shift_up"))>>
  ELSE <<>>
Decoded(s) ==      \* of every prefix of s
  LET d[i \in 0..Len(s)] == IF i = 0 THEN <<>> ELSE d[i - 1] \o Meaning(s, i)
  IN  d
Decode(s) == Decoded(s)[Len(s)]

\* What is left of a sequence of characters without those of the serial line.
Keyed(s) ==
  LET k[i \in 0..Len(s)] ==
        IF i = 0 THEN <<>>
        ELSE IF s[i] = Serial THEN k[i - 1] ELSE Append(k[i - 1], s[i])
  IN  k[Len(s)]
FromKeyboard == Keyed(got)

SubsequenceOf(s, t) ==
  \E f \in [1..Len(s) -> 1..Len(t)] :
    /\ \A i \in 1..Len(s) : s[i] = t[f[i]]
    /\ \A i, j \in 1..Len(s) : i < j => f[i] < f[j]

\* Type invariant.
KTypeOK ==
  /\ TypeOK
  /\ typed \in Seq(Scancodes)
  /\ port \in [full : BOOLEAN, byte : Scancodes \union {None}]
  /\ sc \in Scancodes \union {None}
  /\ ring.read \in 0..(KEY_BUFFER_SIZE - 1)
  /\ ring.write \in 0..(KEY_BUFFER_SIZE - 1)
  /\ pc \in {"dispatch", "isr_data", "isr_raise", "shell", "getchar", "hlt"}
  /\ pc = "isr_raise" <=> sc # None
  /\ \A i \in 1..Len(got) : got[i] # NoChar

\* The shell is given the characters that were typed, with the shift they
\* were typed with, in that order and each once: as long as no event was
\* dropped, a full key_buffer only leaves characters out.  Only kbd_isr, when
\* it runs between a key and its interrupt, can exchange or double keys.
TypedOrder ==
  \/ raced \/ lost
  \/ IsPrefix(FromKeyboard, Decode(typed))
  \/ full /\ SubsequenceOf(FromKeyboard, Decode(typed))

\* Every character typed reaches the shell, unless a queue was full, also
\* when the key arrives just before the CPU is halted; or the main loop is
\* inside keyboard_getchar.
KeysReachShell ==
  []<>(\/ raced \/ lost \/ full \/ pc = "getchar"
       \/ /\ FromKeyboard = Decode(typed)
          /\ Len(got) = Len(FromKeyboard) + serial.sent)

\* How often s has a member of S.
Count(s, S) == Cardinality({i \in 1..Len(s) : s[i] \in S})

\* The characters in key_buffer, the oldest first.
Buffered(r) ==
  [i \in 1..((r.write - r.read) % KEY_BUFFER_SIZE) |->
     r.cell[(r.read + i - 1) % KEY_BUFFER_SIZE]]

\* The places in which a letter can be on its way.
CharsWith(k) == {Char(k, FALSE), Char(k, TRUE)}
InPort(k) == IF port.full /\ port.byte = k THEN 1 ELSE 0
InIsr(k) == IF sc = k THEN 1 ELSE 0
InFifo(k) == Count(Contents(irq_fifo), {Event(k)})
InDispatch(k) == IF MoreHandlers /\ evt.payload = k THEN 1 ELSE 0
InBuffer(k) == Count(Buffered(ring), CharsWith(k))
AtShell(k) == Count(got, CharsWith(k))
Underway(k) ==
  InPort(k) + InIsr(k) + InFifo(k) + InDispatch(k) + InBuffer(k) + AtShell(k)

\* Whatever an interrupt that finds kbd_isr at the port does to the order of
\* the keys, none is lost: while neither queue has been full, each letter is
\* in the controller, in kbd_isr, in the event FIFO, being dispatched, in
\* key_buffer or with the shell as often as it was typed, and at most once
\* more for every time it was read by both handlers.
NoKeyLost ==
  /\ KTypeOK
  /\ \A k \in Letters :
       LET n == Count(typed, {k}) IN
       /\ Underway(k) <= 2 * n
       /\ lost \/ full \/ "alt_down" \in Range(typed) \/ Underway(k) >= n
=============================================================================
