----------------------------- MODULE UserSpace ------------------------------
(***************************************************************************)
(* Address spaces and the programs that run in them: the four-level page   *)
(* tables (src/kernel/mem/paging64.c), the older two-level ones that       *)
(* sys_sbrk still writes (mem/paging.c, syscall.c), the ELF loader         *)
(* (task/elf.c) and the part of task_create that gives a program its       *)
(* frames.                                                                 *)
(*                                                                         *)
(* Page tables live in the frames they are made of: a table is an array of *)
(* 2 * R words of 32 bits, which map_page_64 uses as R entries and         *)
(* map_page_pd as 2 * R.  A page number below R^3 stands for an address    *)
(* below 4 GB (the model has one PDPT of identity-mapped memory, as the    *)
(* code has PDPT[0..3]).  vmem is in identity mode: the kernel looks for a *)
(* frame at the virtual address that equals its physical one.  A program   *)
(* linked at the address of a managed frame takes that address from it;    *)
(* when the kernel then uses the frame it is astray, in the program's      *)
(* memory, and the model ends.  alloc_frame is the first-fit of FrameMap.  *)
(* Programs are loaded by the shell and run in its context:                *)
(* elf_run never makes the task it creates the current one, so that        *)
(* task_current() in a system call is the idle task.  The file is any one  *)
(* that passes validate_elf_header; the others change nothing.             *)
(***************************************************************************)
EXTENDS Integers, Sequences, SequencesExt, FiniteSetsExt

CONSTANTS
  R,            \* 512, the entries of a table
  PageSize,     \* bytes of a page
  Managed,      \* the frames that alloc_frame manages
  Programs,     \* the ELF files: sequences of program headers
  StackPage,    \* the page of user_stack_virt
  HeapPage,     \* the page of USER_HEAP_BASE
  Increments,   \* the arguments of sbrk
  MaxTasks,     \* MAX_TASKS
  MaxBusy       \* bound: frames taken before the first program is loaded

Pages == 0..(R ^ 3 - 1)        \* the pages of the low 4 GB
Words == 0..(2 * R - 1)        \* the 32-bit words of a table
Offsets == 0..(PageSize - 1)

ASSUME SpaceAssumption ==
  /\ R \in Nat \ {0, 1} /\ PageSize \in Nat \ {0}
  /\ Managed \subseteq Pages \ {0}
  /\ StackPage \in Pages /\ HeapPage \in Pages
  /\ MaxTasks \in Nat /\ MaxBusy \in Nat
  /\ Increments \subseteq Int

VARIABLES
  free,      \* the frames whose bit is clear
  tables,    \* what the frames hold when they are read as page tables
  bytes,     \* what the frames hold when they are read as data
  tasks,     \* the user tasks of tasks[]: the frames task_create gave each
  load,      \* the elf_run in progress: its file, the header and page it is at
  phase,     \* "shell", "stack", "segments", "user", "exited" or "astray"
  cr3,       \* the PML4 the CPU uses
  brk,       \* idle_task.user_brk_size
  ret,       \* what the last sbrk returned (-1: it failed)
  linked     \* history: the pages that were mapped for programs

vars == <<free, tables, bytes, tasks, load, phase, cr3, brk, ret, linked>>

-----------------------------------------------------------------------------
(* Page-table entries and tables.                                          *)

None == [frame |-> -1, large |-> FALSE, rw |-> FALSE]
Entry(f, rw) == [frame |-> f, large |-> FALSE, rw |-> rw]
Large(f) == [frame |-> f, large |-> TRUE, rw |-> TRUE]

Index(page, level) == (page \div R ^ level) % R

Cleared == [w \in Words |-> None]

\* A 64-bit store of an entry with a frame below 4 GB.
Put64(table, i, e) == [table EXCEPT ![2 * i] = e, ![2 * i + 1] = None]

\* A table whose entries are given by a function of 0 .. R - 1.
Table64(entries) ==
  [w \in Words |-> IF w % 2 = 0 THEN entries[w \div 2] ELSE None]

\* Mutant: every page of the split goes to the base of the large one.
SplitBase(e) == Table64([i \in 0..(R - 1) |-> Entry(e.frame, e.rw)])

\* The pages of a 2 MB page, one by one.
Split(e) == Table64([i \in 0..(R - 1) |-> Entry(e.frame + i, e.rw)])

Zero == <<0, 0, 0>>
ZeroPage == [o \in Offsets |-> Zero]

(***************************************************************************)
(* An update in progress: ok (no call has failed), free, tables, at, the   *)
(* table the walk has come to, and used, the frames the kernel accessed.   *)
(***************************************************************************)
Update(pml4) ==
  [ok |-> TRUE, free |-> free, tables |-> tables, at |-> pml4, used |-> {pml4}]

\* Goes down from entry i of the table at hand, to a new table when there is
\* none, and in a page directory to the table a 2 MB page is split into.
Descend(m, i, inPD) ==
  LET e == m.tables[m.at][2 * i] IN
  IF ~m.ok THEN m
  ELSE IF e # None /\ ~(inPD /\ e.large) 
    THEN [m EXCEPT !.at = e.frame, !.used = @ \union {e.frame}]
  ELSE IF m.free = {} THEN [m EXCEPT !.ok = FALSE]
  ELSE LET t == Min(m.free) IN
       [ok |-> TRUE, free |-> m.free \ {t}, at |-> t, used |-> m.used \union {t},
        tables |-> [m.tables EXCEPT
                      ![m.at] = Put64(@, i, Entry(t, TRUE)),
                      ![t] = IF e = None THEN Cleared ELSE Split(e)]]

map_page_64(m, frame, page, rw) ==
  LET pt == Descend(Descend(Descend(m, Index(page, 3), FALSE),
                            Index(page, 2), FALSE), Index(page, 1), TRUE)
  IN  IF ~pt.ok THEN pt
      ELSE [pt EXCEPT !.tables[pt.at] =
                        Put64(@, Index(page, 0), Entry(frame, rw))]

\* The walk of the MMU: the entry that maps page, its frame being the one of
\* the page itself when the directory holds a 2 MB page.
Follow(e, i) ==
  IF e = None \/ e.frame \notin Managed \/ tables[e.frame][2 * i + 1] # None
    THEN None ELSE tables[e.frame][2 * i]

Translate(pml4, page) ==
  LET pde == Follow(Follow(Follow(Entry(pml4, TRUE), Index(page, 3)),
                           Index(page, 2)), Index(page, 1))
  IN  IF pde.large THEN Entry(pde.frame + Index(page, 0), pde.rw)
      ELSE Follow(pde, Index(page, 0))

\* The kernel finds frame f, and may write to it, at its own address.
Finds(f) == Translate(cr3, f) = Entry(f, TRUE)

\* A frame among used is not where the kernel expects it: the access goes to
\* the memory of a program, or faults where that is read-only.
Misses(used) == \E f \in used : ~Finds(f)
Astray ==
  /\ phase' = "astray"
  /\ UNCHANGED <<free, tables, bytes, tasks, load, cr3, brk, ret, linked>>

-----------------------------------------------------------------------------
(* The two-level tables.                                                   *)

PdIndex(page) == page \div (2 * R)
PtIndex(page) == page % (2 * R)

map_page_pd(m, frame, page) ==
  LET pde == m.tables[m.at][PdIndex(page)]
      new == Min(m.free)
      pt == IF pde = None THEN new ELSE pde.frame
      table == IF pde = None THEN Cleared ELSE m.tables[pt]
  IN  IF pde = None /\ m.free = {} THEN [m EXCEPT !.ok = FALSE]
      ELSE [m EXCEPT
              !.free = IF pde = None THEN @ \ {new} ELSE @,
              !.used = @ \union {pt},
              !.tables = [@ EXCEPT
                 ![m.at][PdIndex(page)] = IF pde = None THEN Entry(new, TRUE) ELSE @,
                 ![pt] = [table EXCEPT ![PtIndex(page)] = Entry(frame, TRUE)]]]

\* Mutant: a table that became empty is freed and stays in the directory.
unmap_page_pd_keeps(m, page) ==
  LET pde == m.tables[m.at][PdIndex(page)] IN
  IF pde = None THEN m
  ELSE LET table == [m.tables[pde.frame] EXCEPT ![PtIndex(page)] = None] IN
       [m EXCEPT !.tables = [@ EXCEPT ![pde.frame] = table],
                 !.free = IF table = Cleared THEN @ \union {pde.frame} ELSE @]

\* A table that becomes empty is freed.
unmap_page_pd(m, page) ==
  LET pde == m.tables[m.at][PdIndex(page)] IN
  IF pde = None \/ m.tables[pde.frame][PtIndex(page)] = None THEN m
  ELSE LET table == [m.tables[pde.frame] EXCEPT ![PtIndex(page)] = None]
           empty == table = Cleared
       IN  [m EXCEPT
              !.tables = [@ EXCEPT
                 ![m.at][PdIndex(page)] = IF empty THEN None ELSE @,
                 ![pde.frame] = table],
              !.free = IF empty THEN @ \union {pde.frame} ELSE @]

-----------------------------------------------------------------------------
(* Boot and the creation of tasks.                                         *)

\* The frames that the next n calls of alloc_frame return, as far as there
\* are any.
Take(S, n) ==
  [i \in 1..Min({n, Cardinality(S)}) |->
     CHOOSE f \in S : Cardinality({g \in S : g < f}) = i - 1]

BootFrames == Take(Managed, R + 2)
kernel_pml4 == BootFrames[1]

\* The 2 MB page of entry i of page directory j.
LargePage(j, i) == Large((j * R + i) * R)

\* The tables that paging64_init_kernel_pml4 builds: a PML4 (the entries it
\* copies from the firmware are taken to be empty), a PDPT, and a page
\* directory of 2 MB pages for each entry of the PDPT.
paging64_init_kernel_pml4 ==
  [f \in Managed |->
     CASE f = kernel_pml4 -> Put64(Cleared, 0, Entry(BootFrames[2], TRUE))
       [] f = BootFrames[2] ->
            Table64([j \in 0..(R - 1) |-> Entry(BootFrames[3 + j], TRUE)])
       [] \E j \in 0..(R - 1) : f = BootFrames[3 + j] ->
            LET j == CHOOSE k \in 0..(R - 1) : f = BootFrames[3 + k]
            IN  Table64([i \in 0..(R - 1) |-> LargePage(j, i)])
       [] OTHER -> Cleared]

\* The new PML4: entry 0 and the upper half are those of the kernel.
paging64_create_user_pml4 ==
  [w \in Words |->
     IF w \in {0, 1} \/ w >= R THEN tables[kernel_pml4][w] ELSE None]

NoLoad == [file |-> 0, header |-> 0, page |-> 0, copied |-> 0]

\* elf_run up to task_create, which takes four frames: the control block, the
\* kernel stack, the PML4 and the user stack.  When they run out the ones
\* already taken are lost; the fallback to the kernel's PML4 is then
\* followed by the failure of the next alloc_frame.  Nothing is written to the
\* kernel stack.
elf_run(n) ==
  LET got == Take(free, 4)
      used == {got[k] : k \in DOMAIN got \ {2}}
                \union {kernel_pml4 : k \in DOMAIN got \intersect {3}}
  IN
  /\ phase = "shell"
  /\ Len(tasks) < MaxTasks - 1
  /\ IF Misses(used) THEN Astray
     ELSE
       /\ free' = free \ ToSet(got)
       /\ IF Len(got) = 4
            THEN /\ tasks' = Append(tasks, [tcb |-> got[1], kernel_stack |-> got[2],
                                            pml4 |-> got[3], user_stack |-> got[4]])
                 /\ tables' = [tables EXCEPT ![got[3]] = paging64_create_user_pml4]
                 /\ bytes' = [bytes EXCEPT ![got[4]] = ZeroPage]
                 /\ load' = [NoLoad EXCEPT !.file = n]
                 /\ phase' = "stack"
            ELSE UNCHANGED <<tasks, tables, bytes, load, phase>>
       /\ UNCHANGED <<cr3, brk, ret, linked>>

\* elf_run gives up: what it allocated and mapped so far stays as it is.
GiveUp == load' = NoLoad /\ phase' = "shell"

\* The tables and frames after an update.
Install(m) == free' = m.free /\ tables' = m.tables

map_user_stack ==
  LET t == tasks[Len(tasks)]
      m == map_page_64(Update(t.pml4), t.user_stack, StackPage, TRUE)
  IN  /\ phase = "stack"
      /\ IF Misses(m.used) THEN Astray
         ELSE /\ Install(m)
              /\ IF m.ok THEN /\ phase' = "segments"
                              /\ load' = [load EXCEPT !.header = 1]
                              /\ linked' = linked \union {StackPage}
                 ELSE GiveUp /\ UNCHANGED linked
              /\ UNCHANGED <<bytes, tasks, cr3, brk, ret>>

-----------------------------------------------------------------------------
(* The loader.  Program headers have the fields load (type = PT_LOAD),     *)
(* vaddr, filesz, memsz and rw (PF_W); byte k of the part of file n that   *)
(* header h describes is <<n, h, k>>.                                      *)

Header == Programs[load.file][load.header]
InSegments == phase = "segments" /\ load.header <= Len(Programs[load.file])

vaddr_offset(h) == h.vaddr % PageSize
pages_needed(h) == (vaddr_offset(h) + h.memsz + PageSize - 1) \div PageSize

\* Where the data of the page at hand begins, and how much of it there is.
DataOffset(h) == IF load.page = 0 THEN vaddr_offset(h) ELSE 0
\* Mutant: the data stops at the end of the first page as if it began at 0.
copy_size_whole(h) == Min({h.filesz - load.copied, PageSize})

copy_size(h) == Min({h.filesz - load.copied, PageSize - DataOffset(h)})

\* The page at hand after it was cleared and filled from the file.
PageData(h) ==
  [o \in Offsets |->
     IF o >= DataOffset(h) /\ o < DataOffset(h) + copy_size(h)
       THEN <<load.file, load.header, load.copied + o - DataOffset(h)>> ELSE Zero]

\* One page of a segment: a frame is allocated, filled and mapped.
load_segment ==
  LET h == Header
      f == Min(free)
      page == h.vaddr \div PageSize + load.page
      m == map_page_64([Update(tasks[Len(tasks)].pml4) EXCEPT !.free = @ \ {f}],
                       f, page, h.rw)
  IN  /\ InSegments /\ Header.load
      /\ load.page < pages_needed(h)
      /\ IF free = {}
           THEN GiveUp /\ UNCHANGED <<free, tables, bytes, tasks, cr3, brk, ret, linked>>
         ELSE IF Misses({f} \union m.used) THEN Astray
         ELSE /\ Install(m)
              /\ bytes' = [bytes EXCEPT ![f] = PageData(h)]
              /\ IF m.ok
                   THEN /\ load' = [load EXCEPT !.page = @ + 1,
                                                !.copied = @ + copy_size(h)]
                        /\ linked' = linked \union {page}
                        /\ UNCHANGED phase
                   ELSE GiveUp /\ UNCHANGED linked
              /\ UNCHANGED <<tasks, cr3, brk, ret>>

\* The segment at hand is complete, or there is nothing to load in it.
next_header ==
  /\ InSegments
  /\ Header.load => load.page = pages_needed(Header)
  /\ load' = [load EXCEPT !.header = @ + 1, !.page = 0, !.copied = 0]
  /\ UNCHANGED <<free, tables, bytes, tasks, phase, cr3, brk, ret, linked>>

\* The next program header cannot be read.
header_error ==
  /\ InSegments /\ load.page = 0
  /\ GiveUp
  /\ UNCHANGED <<free, tables, bytes, tasks, cr3, brk, ret, linked>>

\* The data of a page cannot be read: the frame allocated for it is lost.
data_error ==
  /\ InSegments /\ Header.load
  /\ load.page < pages_needed(Header) /\ load.copied < Header.filesz
  /\ free # {}
  /\ IF Misses({Min(free)}) THEN Astray
     ELSE /\ free' = free \ {Min(free)}
          /\ bytes' = [bytes EXCEPT ![Min(free)] = ZeroPage]
          /\ GiveUp
          /\ UNCHANGED <<tables, tasks, cr3, brk, ret, linked>>

\* Every segment is loaded: the CPU goes to user mode in the new space.
task_enter_usermode ==
  /\ phase = "segments" /\ load.header > Len(Programs[load.file])
  /\ phase' = "user"
  /\ cr3' = tasks[Len(tasks)].pml4
  /\ UNCHANGED <<free, tables, bytes, tasks, load, brk, ret, linked>>

-----------------------------------------------------------------------------
(* System calls of the program.                                            *)

\* 32-bit addresses wrap around.
PageOf(a) == (a \div PageSize) % (4 * R * R)

\* The frames of an sbrk mapped one after the other from page first on, up to
\* the first failure; done counts them.
MapFrames(frames, first) ==
  LET step(m, f) ==
        IF ~m.ok THEN m
        ELSE LET u == map_page_pd(m, f, first + m.done)
             IN  IF u.ok THEN [u EXCEPT !.done = @ + 1] ELSE u
      start == [ok |-> TRUE, free |-> free \ ToSet(frames), tables |-> tables,
                at |-> kernel_pml4, used |-> {kernel_pml4}, done |-> 0]
  IN  FoldLeft(step, start, frames)

\* Mutant: the frame that could not be mapped is not freed.
UndoMapsShort(m, frames, first) ==
  LET undo(u, k) == unmap_page_pd(u, first + k - 1)
      gone == FoldLeft(undo, m, [k \in 1..m.done |-> k])
  IN  [gone EXCEPT !.free = @ \union {frames[k] : k \in DOMAIN frames \ {m.done + 1}}]

\* After a failure all frames are freed and the pages mapped are unmapped.
UndoMaps(m, frames, first) ==
  LET undo(u, k) == unmap_page_pd(u, first + k - 1)
      gone == FoldLeft(undo, m, [k \in 1..m.done |-> k])
  IN  [gone EXCEPT !.free = @ \union ToSet(frames)]

\* user_brk, which the first call sets to USER_HEAP_BASE, and what was added.
Break == HeapPage * PageSize + brk
SetBreak(size, r) == brk' = size /\ ret' = r
Refuse == SetBreak(brk, -1)

\* sys_sbrk(0) asks for the break; a negative argument is refused.
sbrk_no_growth(inc) ==
  /\ phase = "user"
  /\ inc <= 0
  /\ SetBreak(brk, IF inc = 0 THEN Break ELSE -1)
  /\ UNCHANGED <<free, tables, bytes, tasks, load, phase, cr3, linked>>

\* sys_sbrk of the idle task.  All frames are allocated before the first one is
\* mapped; memory is FALSE when kmalloc has no room for the list of them.
sys_sbrk(inc, memory) ==
  LET first == PageOf(Break)
      end == PageOf(Break + inc + PageSize - 1)
      pages == IF end > first THEN end - first ELSE 0
      frames == Take(free, pages)
      m == MapFrames(frames, first)
  IN  /\ phase = "user"
      /\ inc > 0
      /\ \/ /\ pages > 0 /\ (~memory \/ Len(frames) < pages)
            /\ Refuse /\ UNCHANGED <<free, tables, bytes, tasks, load, phase, cr3, linked>>
         \/ /\ pages = 0 \/ (memory /\ Len(frames) = pages)
            /\ IF Misses(m.used) THEN Astray
               ELSE /\ IF m.ok THEN Install(m) /\ SetBreak(brk + inc, Break)
                       ELSE Install(UndoMaps(m, frames, first)) /\ Refuse
                    /\ UNCHANGED <<bytes, tasks, load, phase, cr3, linked>>

\* task_exit ends the idle task, in whose context the shell ran: nothing
\* is left to load another program.
sys_exit ==
  /\ phase = "user"
  /\ phase' = "exited"
  /\ UNCHANGED <<free, tables, bytes, tasks, load, cr3, brk, ret, linked>>

-----------------------------------------------------------------------------
\* Between boot and the first program other clients took some frames.
Init ==
  /\ \E busy \in 0..MaxBusy :
       free = Managed \ ToSet(Take(Managed, R + 2 + busy))
  /\ tables = paging64_init_kernel_pml4
  /\ bytes = [f \in Managed |-> ZeroPage]
  /\ tasks = <<>>
  /\ load = NoLoad
  /\ phase = "shell"
  /\ cr3 = kernel_pml4
  /\ brk = 0
  /\ ret = 0
  /\ linked = {}

Next ==
  \/ \E n \in DOMAIN Programs : elf_run(n)
  \/ map_user_stack
  \/ load_segment
  \/ next_header
  \/ header_error
  \/ data_error
  \/ task_enter_usermode
  \/ \E inc \in Increments : sbrk_no_growth(inc)
  \/ \E inc \in Increments, memory \in BOOLEAN : sys_sbrk(inc, memory)
  \/ sys_exit

Spec == Init /\ [][Next]_vars

-----------------------------------------------------------------------------
(* Properties.                                                             *)

\* Type invariant.
TypeOK ==
  /\ free \subseteq Managed
  /\ \A f \in Managed : \A w \in Words : tables[f][w].frame \in Pages \union {-1}
  /\ \A k \in 1..Len(tasks) :
       {tasks[k].tcb, tasks[k].kernel_stack, tasks[k].pml4, tasks[k].user_stack}
         \subseteq Managed
  /\ Len(tasks) < MaxTasks
  /\ phase \in {"shell", "stack", "segments", "user", "exited", "astray"}
  /\ cr3 \in Managed
  /\ brk \in Nat
  /\ linked \subseteq Nat

Spaces == {kernel_pml4} \union {tasks[k].pml4 : k \in 1..Len(tasks)}

\* In every address space each managed frame is at its own address, as vmem's
\* identity mode takes for granted, unless a page of a program was mapped at
\* that very address: large pages split for programs, tables freed by sbrk and
\* loads that fail half way take no other address from the kernel, also where
\* a program is linked between the managed frames.
KernelIdentity ==
  \A s \in Spaces : \A f \in Managed \ linked : Translate(s, f) = Entry(f, TRUE)

\* What a running program sees at address a of header i of its file.
Expected(i, k) == IF k < Programs[load.file][i].filesz
                    THEN <<load.file, i, k>> ELSE Zero

\* Once a program runs, and whatever it and failed loads before it did, every
\* byte of its segments is there, from the file or zero, in a page that is
\* writable exactly when its header says so, and its stack is its own.
ProgramIntact ==
  phase = "user" =>
    /\ Translate(cr3, StackPage) = Entry(tasks[Len(tasks)].user_stack, TRUE)
    /\ \A i \in 1..Len(Programs[load.file]) :
         LET h == Programs[load.file][i] IN
         h.load => \A k \in 0..(h.memsz - 1) :
           LET a == h.vaddr + k
               e == Translate(cr3, a \div PageSize)
           IN  /\ e # None /\ e.rw = h.rw
               /\ bytes[e.frame][a % PageSize] = Expected(i, k)

\* The frames that hold page tables reached from PML4 s: by the MMU below
\* entry 0 and the rest of the program's half, and by map_page_pd.
Children(T) == {e \in UNION {{tables[t][2 * i] : i \in 0..(R - 1)} : t \in T} :
                  e # None /\ ~e.large}
FramesOf(E) == {e.frame : e \in E}

TablesOf(s) ==
  LET pdpt == FramesOf(Children({s})) pd == FramesOf(Children(pdpt))
  IN  {s} \union pdpt \union pd \union FramesOf(Children(pd))

HeapDirectory == {tables[kernel_pml4][w] : w \in 2..(R - 1)} \ {None}
HeapTables == FramesOf(HeapDirectory)
HeapFrames == {tables[t][w].frame : t \in HeapTables, w \in Words} \ {-1}

UserTables == UNION {TablesOf(tasks[k].pml4) : k \in 1..Len(tasks)}
TaskFrames == UNION {{tasks[k].tcb, tasks[k].kernel_stack, tasks[k].user_stack} :
                       k \in 1..Len(tasks)}

\* A frame that is free is neither a page table nor behind one, and a frame
\* the program's heap is given is not a page table, a stack or a control block.
FramesApart ==
  /\ TypeOK
  /\ free \intersect (UserTables \union HeapTables \union HeapFrames
                        \union TaskFrames) = {}
  /\ (HeapTables \union HeapFrames) \intersect (UserTables \union TaskFrames) = {}
  /\ HeapTables \intersect HeapFrames = {}

\* What the two-level tables T have for a page.
HeapEntry(T, page) ==
  LET pde == T[kernel_pml4][PdIndex(page)]
  IN  IF pde = None THEN None ELSE T[pde.frame][PtIndex(page)]

\* An sbrk that fails leaves the break where it was and takes no frame from
\* alloc_frame, and every page of the heap is mapped as before, but for the
\* page in the middle of which the break lies: sys_sbrk maps that page anew,
\* and after a failure it is unmapped and the frame it had is lost.
FailedSbrkKeeps ==
  [][phase = "user" /\ ret' = -1 =>
       /\ brk' = brk
       /\ free \subseteq free'
       /\ \A p \in HeapPage..(R ^ 3 - 1) :
            \/ HeapEntry(tables', p) = HeapEntry(tables, p)
            \/ p = PageOf(Break) /\ brk % PageSize # 0]_vars
=============================================================================
