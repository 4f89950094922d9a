# LiteCore: a verification project

LiteCore is a small x86-64 kernel in C (`src/src/kernel`, paths below are
relative to it). This directory holds TLA+ modules that model its core, TLC
configurations that check them on small instances, and TLAPS proofs of the
invariants that matter most. `PROJECT.json` lists the components, the runs, the
source lines behind every definition, the hazards each property is aimed at, and
the disagreements between code and documentation the runs show.

## The system

There is one CPU. Concurrency comes from interrupts (timer, keyboard), from
tasks that are switched cooperatively or by the APIC timer, and from deferred
event handlers that run in the main loop with interrupts enabled. A critical
section is `irq_save` .. `irq_restore`, or a spin lock that does the same: on one
CPU it is atomic, and a module makes it one step. What lies outside such a
section is split into steps at the places where an interrupt can see the state.

| Part | State | Operations | Interacts with | What is hard |
|---|---|---|---|---|
| Block cache (`fs/block_cache.c`, `driver/ata.c`) | table of entries (block, data, valid, dirty, stamp), a 32-bit clock, the disk | read, write, flush, init, destroy | under the FAT16 and ext2 drivers | transfers that stop half way, power loss, clock that wraps |
| Scheduler (`task/`, `interrupt/irq_*.c`) | task table, linked ready queue, current task, saved registers | create, ready, yield, exit, timer preemption | timer interrupt, VFS descriptors | an interrupt between two statements of a switch |
| Kernel heap (`mem/manager.c`) | free list, end of the heap, block headers | kmalloc, heap_expand, kfree, mem_has_space | all allocating code | list surgery, overlap of two expansions, 32-bit sizes |
| Frame allocator (`mem/map.c`) | bitmap in lazily created chunks | alloc_frame, free_frame, memmap_reserve | chunks come from the heap, paging takes frames | a chunk that cannot be created, ranges that cross chunks |
| Interrupt events (`interrupt/interrupt.c`) | ring of events, table of handlers | raise, dispatch, register, unregister | interrupts fill it, main loop empties it | full ring, table changed while it is walked |
| Keyboard, main loop (`device/keyboard.c`, `interrupt/idt.c`, `main.c`) | port, modifiers, key ring, serial line | kbd_isr, kbd_process, poll, getchar, kloop | events, shell | two readers of one port, waiting for oneself |
| FAT16 (`fs/fat/fat16.c`) | allocation table, root directory, clusters | create, write, read | block cache, VFS | half-done updates, short names, full volume |
| VFS (`fs/vfs.c`) | handles, descriptors per task, cached file | open, close, read, write, lseek | backends, tasks | shared handle table, stale sizes, offsets that wrap |
| Paging, sbrk, system calls, ELF loader | page tables, break of a task | map, unmap, sbrk, load | frames, scheduler | partial mappings, failures half way |
| ext2 (`fs/ext/ext2.c`) | bitmaps and free counts, inodes, directory blocks, indirect blocks | allocate, create, read, write, resolve a path | block cache, VFS | nothing is undone when a call fails, copies of inodes, circles of links |
| FAT12, fs.c | mounted image | read only | nothing mounts them | - |
| Console, fonts, PCI, shell commands, timers, descriptor tables, boot | devices and tables | output, enumeration, set-up | all | little over time |

Correctness, part by part: the cache is a block store in which flushed data
stays on the disk; the ready queue holds exactly the waiting tasks and is a round
robin; blocks tile the heap and every request gets the bytes it asked for; a
frame is never handed out twice; the event ring is a bounded queue and delivers
to every registered handler; characters reach the shell as typed; chains in the
allocation table never loop and never share a cluster; a block of an ext2 volume
belongs to one file, and a path leads where its directories and links say; a descriptor owns its
handle and reads one version of its file; a program sees what its file says, and
the kernel finds its memory in every address space.

## Modules

An abstract specification stands beside the component that implements it:
`BlockStore`, `RoundRobin`, `EventQueue`, `FileStore`. `Memory` composes `Heap`
and `FrameMap`; `Keyboard` and `HandlerCalls` extend `Interrupts`, `Ext2Path` extends
`Ext2`, and `LeastRecent` extends `BlockCache` with a history of the use of blocks. `MC*` modules give the
constants; `*Proofs` modules hold theorems.

**BlockCache.** `entries` and `timestamp` are the struct of `block_cache.c`, `up`
says that it exists, `disk` is the drive, `result` what the last call returned. A
block has `SectorsPerBlock` sectors, and `Transfer` is what the ATA driver has moved
when it stops. The constant `Faults` says which faults the drive has: `read_early`
(refused before a byte moved), `read_mid` (some sectors moved), `write` (stops
anywhere and says so), `write_last` (the last sector refused, which the driver does
not notice). Reading, writing and flushing have one disjunct per outcome: hit, miss
with or without write-back, failure of the write-back or of the read, no victim.
The clock counts modulo `StampMod`, which stands for 2^32; `MaxStamp` bounds it.
`PowerLoss` loses the entries and keeps the disk. The history variable `synced` is
the set of blocks not written since the last successful flush, and `torn` the entries
whose buffer holds something else than their block because a transfer for them was
cut short.

**Scheduler.** `task_schedule` has three steps: choose and set `current_task`
with interrupts off (`Schedule`), save the registers (`SaveContext`, the asm block),
`task_restore`. The interrupt `irq_timer_entry` may fall between any two of them when
`Preemptive`. The ready queue is the head, the tail and the next pointers of the
code. A context is a stack and the place in the scheduler's code where it is; the
locals of the last call of `task_schedule` on each stack are kept in `frame`,
because a resumed context goes on with them. `PushAll` and `ReadBack` are the order
of the pushes in `irq_stubs.asm` and the order in which `irq_timer.c` takes them: they
do not agree, so a context saved by the interrupt is not `intact`, and a task that is
resumed with exchanged registers takes no further step in the model. The idle task
that exits stays in its halt loop, and slots of dead tasks are never reused, as in the code.

**Heap.** Blocks have addresses and sizes with the real alignment and sizes of header and
canary; the walks along the free list are recursive functions on a sequence; a caller's kmalloc is a small machine `Enter`, `Search`, `ExpandReads`,
`ExpandInserts` because the lock is released between them. Sizes are modulo
`WordMod` (for 2^32).

**FrameMap.** Frames are numbered from `start_frame`; `words` are the bits of the chunks of
`FramesPerChunk` frames, `present` the chunks that exist. A chunk appears on first
use, and whether it can be created is the environment's choice. `owned` are the
frames clients hold, `reserved` those of the range given to `memmap_reserve`.

**Memory.** Heap and FrameMap as `memory_init` puts them together: a chunk is
a block of the heap, the heap lies in frames, `heap_expand` does not ask for them.

**Interrupts, Keyboard.** The ring `irq_fifo` with head, tail and count, the table of
handlers, and a dispatch that walks the table one handler per step with interrupts
enabled in between. Keyboard adds the controller's one-byte port, the interrupt
line, `irq_handler_c` for vector 33, the serial line, `kbd_isr` in its three steps
(status, data, raise), decoding with shift, ctrl and alt, the key ring, and the shell
as its reader, whose commands may read with the blocking `keyboard_getchar`. The CPU
may execute a little further before it takes an interrupt. The history variables
`raced`, `lost` and `full` record that `kbd_isr` got to the port before the interrupt,
and that a queue has dropped something. `HandlerCalls` adds to Interrupts the history
`owed` of the handlers that have yet to be called for the event being dispatched.

**Fat16.** The table `fat`, the root directory as a sequence of entries with end
mark and deletion mark, the clusters' bytes. `write_file` frees the old chain,
allocates, links, writes the data and the entry; the failures are
`WriteAllocFails` and `WriteDataFails`. The driver throws away the results of
`fat16_set_fat_entry` and of `write_sector` for the table and the directory: `Unnoticed`
is a call in which any of these writes is lost (`PartlyFreed`, `PartlyLinked`, and the
entry old or new) and which reports success. The same states are what a power loss
inside a call leaves behind. The conversion of a path to an 8.3 name is a
pair of functions, because the code makes two of them: `Component` for finding a file
and `Whole` for entering a new one; different paths may have one short name.
`need` is cut to 16 bits as in the code (`CountMod`). `damaged` records that a call has failed
half way or lost a write; from then on the contents of clusters are not followed (`Follow`), the
table and the directory are. `recreated` records that `fat16_create_file` was called for a file
that exists, which succeeds and hides files; contents are followed on. `FileStore` is what the
driver keeps of a user's idea of whole files under names, these two cases included.

**Ext2, Ext2Path.** `meta` holds the two bitmaps of each group, the counts in the
descriptors and in the superblock, in memory and on disk; `inode` the inode table; a
block is seen as directory records, as pointers or as data, each at a small scale
(`BlockBytes`, `PtrsPerBlock`, `CellsPerBlock`). The volume that is mounted is a
consistent one (`ImageAssumption`, `RootAssumption`): the driver checks its magic number and
relies on the rest. `Allocations` is every way in which
`ext2_allocate_block` and `ext2_allocate_inode` can end, with the transfers that were refused
counted in `faults`. `ext2_create_file` has one disjunct per group of error codes, with
what it leaves behind; clients hold copies of inodes (`copy`), several of one inode too, as the
callers of `ext2_read_inode` do, and `ext2_write_inode_data` takes one step per block. Offsets and
lengths of reads are modulo `WordMod` (`ToRead`). `Ext2Path` adds what
changes nothing: the mutual recursion of `ext2_resolve_path` and `ext2_resolve_symlink`
with `StackFrames` calls on the stack, reading by path, and the functions of `vfs.c`
over the driver. The histories `wrote` and `kept` are what each copy and each inode on the disk
should show: what was written through it, and what others have written since into blocks it has.

**Vfs.** Handles with their cached file, size and offset; per task a descriptor
table; the backend is a set of whole-file contents that may fail to write. Offsets
are modulo `OffsetMod`. The ghost `versions` is the contents a file has had.

**UserSpace.** The frames as page tables (`tables`, words of 32 bits that the
four-level functions use in pairs and the two-level ones singly) and as data (`bytes`),
the user tasks, the `elf_run` in progress and the break. `Descend` is one level of
`map_page_64` with the split of a 2 MB page; `elf_run`, `map_user_stack`,
`load_segment` (one page of it), `next_header` and `task_enter_usermode` are the loader's
steps, `header_error` and `data_error` its failed reads. A program runs in the
shell's context: `elf_run` never makes its task current, so `sys_sbrk` works on
the idle task, whose page directory is the kernel's PML4, and `sys_exit` ends the
context the shell ran in. The kernel looks for a frame at its physical address, as in vmem's
identity mode: every step collects the frames it accesses (`used`), and if one of them
is no longer at its own address (`Misses`), because a program was mapped there, the
model goes to the phase `astray` and ends, the kernel then working on the program's
memory. The history `linked` is the set of pages mapped for programs.

## Runs

Type invariants are proved, or checked as the first conjunct of another
invariant. Bounds are the smallest at which the case in question happens; state counts are
distinct states. Passing runs:

* `cache`: 3 blocks of 2 sectors, 2 entries, a clock modulo 4 that wraps, reads refused at
  once or broken off between the sectors, writes aborted anywhere, and a history of use (240868
  states). Every miss on a third block evicts. The cache refines `BlockStore`; no block is
  cached twice, a clean entry that is not torn equals its block on the disk, a dirty one is
  written before its buffer is reused, flushed data survives failures and power losses, and
  until the clock wraps each miss replaces the least recently used block. The
  drive of this run reports the loss of a last sector, as `SyncedOnDisk`, `StoreSpec` and
  `DirtyIsWritten` require: `ata.c:324` does not look. Contents differ in the first sector only,
  which is enough for a read that broke off to be seen; blocks that a write leaves half old and
  half new are covered by the proofs, a run with them being too large.
* `sched`: idle and 3 tasks, preemption anywhere (97448 states). The linked queue
  holds exactly the waiting tasks, one task runs, dead tasks stay dead, and the
  scheduler refines `RoundRobin`. Three tasks are needed for a queue with a first,
  a middle and a last element. The run does not check deadlock: the CPU may halt
  for good in the loop of `task_exit`.
* `heap`: 1 caller, requests of 1, 20, 56 and 440 bytes, a heap of 2 pages of 64 bytes
  that grows, words modulo 512 (85516 states). Small requests split, middle ones
  are given whole, large ones expand, the largest wraps when `heap_expand`
  rounds it up to pages, so that no expansion is ever enough. Blocks tile the heap, free neighbours are merged, the request
  fits its block, and kmalloc returns.
* `memory`: 5 frames in chunks of 2, so that the last chunk is half outside, and a
  heap of 4 pages whose first lies below the managed frames (12662 states). The bitmap
  accounts for every frame, no frame is handed out twice, none is refused while all
  chunks exist and one is free, and neither the bitmap's own blocks nor the frames of
  the initial heap are handed out (`BootMemorySafe`). The free list of the heap does run empty, so
  chunks do fail to be created.
* `events`: ring of 3 slots, 2 vectors, 3 handlers, 2 per vector (12984 states). The
  ring refines `EventQueue`, and a handler that stays registered while an event is
  dispatched is called for it.
* `keyboard`: 2 events, a key ring of 3 cells, 3 scancodes of 2 keys and 3
  modifiers, 1 serial character (1107382 states). Both queues fill and wrap. Unless
  `kbd_isr` overtakes an interrupt, characters arrive as typed and in order, and all of
  them in the end while the queues have room; and no key is lost even when it does.
* `fat16`: 3 clusters of 2 bytes counted modulo 3, 2 root entries, contents of 0, 2, 3 and 5
  bytes, 4 paths two of which share a short name, starting from a new volume and from one
  whose entries are all deleted (42721 states). The volume fills up in every way, and the longest
  content needs more clusters than can be counted. Chains ascend, so they never loop,
  even after failures and lost writes; until a call fails half way the volume is sound and
  refines `FileStore`. Both go on after a `fat16_create_file` of a file that exists: files
  may then be hidden or entered twice, but own their clusters and keep their bytes.
* `ext2`: two groups of 5 blocks and 3 inodes, files of 2 direct blocks of 2 cells,
  2 clients, at most one refused transfer, lengths modulo 9, starting from 245 volumes: with one
  file and two free blocks, with two files and one free block, full, with one inode left, with a root directory without a block, with one that needs an
  indirect block, with a file behind one, two or three indirect blocks in every position, and
  with every tree of two nodes that are directories, files or links (234446 states). Blocks
  run out in the middle of a write, the directory block fills up, and both clients hold copies of
  the same or of different inodes, write through both and write both back. No block has two owners; the free counts are exact
  until a transfer fails and never too small afterwards; the root directory stays well formed;
  what was written through a copy is read back through it, and through the inode once it is
  written back, unless another copy has been written back since; the block map and paths agree with
  reference definitions. With a limit of 1 link and 3 calls on the stack, circles of
  links, links to links and links in the middle of a path all occur. One fault per run of
  the system is enough to stop a call at each of its steps, and calls go on after it. Deadlock
  is not checked: on a full volume nothing may be left to do.
* `vfs`: 3 tasks with 1 descriptor each, 2 handles, 2 files of 0 to 2 bytes, offsets
  modulo 3, tasks and files symmetric (798216 states). Tasks outnumber handles, and
  offsets wrap. Descriptors own their handles, no handle is lost, reads stay inside the
  buffer and inside one version of the file. Deadlock is not checked because all
  tasks may have exited.

* `user_space`: tables of 4 entries, pages of 4 bytes, 21 frames of which 0 to 12 are
  taken before the first program, 5 programs: segments that begin and end inside pages, one
  above PML4[0], one in the page table of the stack, one in a table of managed frames,
  and a program linked at addresses of managed frames; increments of -1 to 12 bytes
  (3041 states; most steps have one outcome). Frames run out at every point of
  a load and of an sbrk, and the heap begins two pages before the end of a two-level table,
  so that an sbrk can fail with pages mapped in a table it has just made. A program that
  runs sees the bytes of its file and zeros elsewhere, also after failed loads;
  the kernel finds every managed frame at its address in every space, but for the addresses a
  program was mapped at; no free frame is a table or mapped by one; a failed sbrk takes no
  frame from `alloc_frame` and disturbs no heap page but the one in which the break lies. The
  model gets astray in a new load, in the mapping of a stack, inside a load and in an sbrk. Deadlock is not checked:
  after `sys_exit`, or when the task slots are used up, nothing is left to do.

Violation runs, each for a statement of a comment or a document that the code
does not keep (quoted under "findings" in `PROJECT.json`):

* `resumed_task`: two tasks, no preemption. A task resumed at label 1 of
  `task_schedule` calls `task_restore` again, for the task it left to when it last
  gave up the CPU.
* `heap_growth`: `heap_expand` moves the heap's end over frames that `alloc_frame`
  hands out.

## Other disagreements met while modelling

The modules keep these behaviours; the second to the fourth show up when a constant is changed.

* A read that stops at the second sector leaves the victim valid over bytes of two blocks, and
  reads of it succeed with them until it is written or evicted (`fs/block_cache.c:191`;
  `docs/fs/block_cache.md:66`). In `BlockCache` such an entry is `torn`, in `BlockStore` the block is
  `spoiled`; the properties say that the damage stays in that one entry.
* `Faults = {"write_last"}`: `StoreSpec` fails, and with payloads that differ in the last sector
  `DirtyIsWritten`. `ata_write_sectors` drops the
  result after the last sector (`driver/ata.c:324`; `docs/driver/ata.md:36`).
* `Callers = {c1, c2}` in `MCHeap.cfg`: `Tiling` fails. `heap_expand` reads
  `heap_end_addr` before it takes the lock (`mem/manager.c:330`; `docs/mem/manager.md:6`).
* A size of 511 in `MCHeap.cfg` (for 2^32 - 1): `RoomForRequest` fails, `align_up` wraps
  (`mem/manager.c:35`).
* A valid entry stamped 0xFFFFFFFF is never a victim, so a healthy cache can refuse
  a call (`fs/block_cache.c:22`).
* Between `irq_restore` and the asm block of `task_schedule` the interrupt saves the
  old task's registers into the new one (`task/multi_task.c:362` against the comment at 444),
  and it reads all registers in reverse order (`interrupt/irq_timer.c:19`).
* kmalloc puts the canary behind the rounded request, kfree looks at the end of the
  whole block (`mem/manager.c:184` and 247), and `mem_has_space` forgets it (430).
* `kbd_isr` is registered as a deferred handler and races with the interrupt for the
  port (`device/keyboard.c:165`); `keyboard_getchar` called from the main loop waits
  for events that only the main loop dispatches (198).
* `fat16_create_file` for a file that exists writes zeros over its directory entry:
  the first byte becomes the end mark, and no scan reaches the entries behind it
  (`fs/fat/fat16.c:878`; the comment at 870 speaks of size and start only). The call
  succeeds. The hidden files keep their clusters, and come back when the end mark is overwritten.
* `fat16_write_file` counts clusters in 16 bits (`fs/fat/fat16.c:935`): a file that needs 65536 or
  more gets a chain that is too short under its full size, and the call reports success.
* Two copies of one ext2 inode may be held and changed: `ext2_read_inode` and `ext2_write_inode`
  (`fs/ext/ext2.c:144` and 877) know of no others. The copy written back last wins; blocks that only
  the other one had are lost, with the data in them, and stay marked.
* A program linked inside the managed frames takes the addresses of frames from the kernel,
  because the tables below PML4[0] are the kernel's own (`mem/paging64.c:389`). When such a frame
  is then used as a table, a stack or a page of a program, the kernel writes into
  the program instead (the phase `astray`). `docs/user.md:43` links at 0x400000, and the frames are
  those from 1 MB to 64 MB. For the same reason user spaces are not independent as the
  comment at `task/multi_task.c:52` has it: the stack page of a second program is then
  mapped in the first one's space too. Two segments of one file that meet in a page do not
  both survive: the second gets a frame of its own for it, and the bytes of the first are gone
  (`task/elf.c:254`); no program of the run has such segments.
* `sys_sbrk` writes two-level tables into a PML4 of the kernel (`syscall.c:88`): the pages it
  maps are not those the MMU finds at USER_HEAP_BASE. The page in which the break lies
  gets a new frame with every call, the "no page boundary crossed" of line 60 being
  reached only when the end of the range, cut to 32 bits, is not above its start; the
  break then goes up without pages. So after sbrk(3), in a page of 4 bytes, an sbrk(8) that fails
  in the middle unmaps the page granted before, and its frame is neither free nor mapped.
* A failed `elf_run` frees neither frames nor task (`task/elf.c:371`), and a failed
  `task_create` no frames (`task/multi_task.c:188`).
* A new file written under a path with a slash is entered with the slash in its
  short name and is not found again (`fs/fat/fat16.c:924`).
* A file that grew between open and first read is cached up to its old size
  (`fs/vfs.c:319`). `vfs_read_file_all` writes the zero behind the file one byte past its
  buffer when the size is a multiple of 4096 (`fs/vfs.c:534`).
* ext2 counts links to stop circles (`fs/ext/ext2.c:1268`), but each target is resolved by a
  call that counts from 0 again, so a circle ends only with the stack; and a link whose target is
  a link is refused, however short the way. `..` is always the root. `PathsResolve`
  states what remains: a path that is resolved leads to the right inode.
* `ext2_find_file_in_dir` looks only at direct blocks, `ext2_list_dir` at all: a name may
  be listed and not found. `ext2_read_wrapper` does not follow a link at the end of a
  path, `ext2_read_file_by_path` does.
* `ext2_create_file` gives nothing back when it fails, and always fails in a root directory
  without a block, because it never writes a first record into the block it allocates.
  Any failure of its lookup counts as "does not exist", so a name can be entered twice.
* `ext2_get_or_alloc_block` does not count its block in `i_blocks`, and a new block is not
  cleared: cells that were never written read as what the block held before. A write at an
  offset past the end leaves a hole, where later reads stop short.
* `util/init_msg.c:116` makes the cache with blocks of 4096 bytes whatever the volume's block
  size is; the module takes the two to be equal.
* `docs/fs/ext/ext2.md:19` describes the driver as read-only, without indirect blocks and without
  subdirectories; the code is ahead of it.

## Fairness

Heap's `FairSpec` has weak fairness of each caller's step: a caller inside kmalloc
goes on, because the code holds no wait but the lock, which is released in the same
step. Keyboard's `KFairSpec` has weak fairness of the main loop, of a pending
interrupt and of the timer: `kloop` runs for ever, the CPU takes an unmasked
interrupt, and the PIT is periodic. Key presses have no fairness. No other run
uses fairness.

## Proofs

Each is an inductive invariant, for every value of the constants the module's ASSUMEs allow.

* `BlockCacheProofs`: `IInv` is `TypeOK`, `NoAlias`, `CleanIsCopy`, `TornIsClean` (a torn entry is
  never written to the disk) and `DirtyUnsynced` (what is dirty has been written since the last
  successful flush).
  `SyncedOnDisk` alone is not inductive: `NoAlias` is needed because a hit takes one
  entry of the block, and `CleanIsCopy` because the eviction of a clean entry drops it. From it:
  `CacheTypeOK`, `NeverTwoCopies`, `CleanIsOnDisk`, `FlushedStaysOnDisk`, for every fault of the
  drive and blocks of any number of sectors; and, with a drive that reports the loss of a last
  sector (`ReportsLast`), the action property
  `DirtyDataIsWritten`, and `CacheImplementsStore`, the refinement of `BlockStore`. For
  `VictimIsOldest`, over `LeastRecent`, the invariant `StampsTell` is added: until the clock wraps,
  no stamp is ahead of it, the stamps of valid entries differ, and a lower stamp means that the
  other block has been used since; the victim has the lowest stamp of all when the cache is full.
  `ReportsLast` is necessary: with `write_last` TLC finds both violated.
* `SchedulerProofs`: `IInv` is `TaskInv` (types, `OneRunning`, the queue, the tasks that
  are known) and `CpuInv` (what the contexts and the saved locals may be between the
  three steps of a switch). The queue is a linked list in the code: `QueueOK` says that a
  sequence without repetitions of exactly the waiting tasks runs from head to tail along the
  next pointers, and a lemma shows by a least counterexample that there is only one, so
  that `ListOf` of the refinement mapping is determined; taking the head and appending at the tail
  are lemmas on it. `CpuInv` is needed because a stack that is resumed inside
  `task_schedule` restores the task in its saved locals, which must be one (`FrameOK`). From it, for any number of tasks and an interrupt at any point:
  `QueueHoldsWaitingTasks`, `OneTaskRuns`, `ExitIsFinal` and `SchedulerIsRoundRobin`.
* `InterruptsProofs`: `RingWellFormed` (head, tail and count of the ring agree), from it
  `RingIsQueue`, the refinement of `EventQueue` for any capacity, and
  `StayingHandlersCalled`: over `HandlerCalls`, the invariant is that every handler still owed
  stands in the table behind the index the dispatch has reached (`OwedAhead`). It holds
  because registering appends, and unregistering takes every handler of the vector away.
  For the keyboard, under `KeySetUp` (the constants are those of `Keyboard`: one vector, both
  handlers; `MCKeyboard` has TLC evaluate it):
  * `NoKeyIsLost`. The invariant `Counted` says for each letter how often it is in the port, in
    `kbd_isr`, in the FIFO, in dispatch, in the buffer and with the shell (`Underway`). The upper
    bound is inductive only together with `Double`: a byte that one handler has read and
    whose second reading is still to come has a copy to spare. `NoAlt` is
    needed for the lower one, because an Alt swallows letters. `PutsCount` follows a
    walk of `buffer_puts` along the ring.
  * `KeysStayInOrder`. The invariant `Ordered` says that, without a race or a dropped event,
    some m scancodes have gone through `kbd_process` and those behind them stand in line: in hand, in
    the FIFO, in the port. `held` is what the first m leave held, which is why a modifier is
    decoded at its own key's moment although long afterwards, and the characters with the shell and
    in the buffer are what the first m mean, or a subsequence once the buffer was
    full. `Keyed`, `Decoded` and `buffer_puts` are functions by recursion; what they do to a
    sequence that grows is shown by induction over sets of sequences (`AppendInduction`).
* `MemoryProofs`, on frames alone: `IInv` is `TypeOK`, `Accounted`, `Untouched` (nothing is held
  before boot) and `Apart` (a held frame is not reserved). From it: `FrameTypes`,
  `FramesAccounted` and the action properties `NeverHandedOutTwice` and `RefusedOnlyWhenFull`: the
  bit at which alloc_frame stops is the first clear one of all chunks, so if it lies
  behind the last frame, none in front of it is free.
  On heap and frames together: `MemoryImplementsFrameMap` (every step of `Memory` is one of
  `FrameMap`, the chunks it creates lying in the heap) and `BootMemoryStaysSafe`. `MemInv` adds to
  `IInv` that the blocks of clients and those of the bitmap together are the blocks in use of a
  heap in order (`HeapInOrder`), and that the frames under the heap of
  `memory_init` are reserved from boot on. `HeapProofs` is instantiated for the single heap, so
  its lemmas on lists of blocks carry every kmalloc and kfree; `RoomBehind` shows that a heap that
  has grown for a request holds it, so the second search finds a block. The assumptions are
  those `Memory` states for its constants: `HeapSetUp`, and `SmallRequests` (no size comes near
  2^32, and an expansion covers its request).
* `Fat16Proofs`: `LinksAlwaysAscend`. Every link points to a higher cluster or ends,
  through every failure and with any set of table writes lost; so a walk along a chain
  ends. The argument is that `Linked` links an ascending list of free clusters, of
  which `PartlyLinked` keeps some links, and that freeing only removes links. Because links ascend,
  `Chain` is the least set that contains the start and is closed under the links
  (`ChainIs`), which gives `VolumeStaysSound`: `SInv` is about the clusters of all entries, those
  behind an end mark included, so that it outlives a `fat16_create_file` of a file that exists;
  `NInv` about names, until there is one: no entry stands behind the first end mark and no name
  is entered twice. One lemma, `VolumeStep`, carries every undamaged step: an entry gets another chain
  made of free clusters and of those it had. The hypothesis `RelativePaths` is necessary for `NInv`:
  for a path with a leading slash the name entered is not the one looked up, so it
  is entered twice (see the disagreements). `Fat16Types` needs no hypothesis.
  `Fat16ImplementsStore` is the refinement of `FileStore`, from `SInv`: the k-th lowest cluster of
  a chain exists and is one (`NthIs`), byte i of a file lies in cluster (i - 1) div
  `ClusterBytes` + 1 of its chain, where `Piece` has put it (`ReadsWritten`), and the
  clusters of the other files are not among those that are written (`OthersRead`).
* `VfsProofs`: `IInv` joins `TypeOK`, `HandlesOwned`, `NoLostHandle`, `InBounds` and
  `OneVersion` with three facts that make them inductive: versions are files, an open
  handle names a file, the newest version is the file. From it `VfsTypes`,
  `DescriptorsOwnHandles`, `NoHandleIsLost`, `ReadsInBounds` and `ReadsOneVersion`.
* `HeapProofs`: `HeapInv` is `HeapOK` (the free list is spread out in order of address, the
  blocks in use are apart from it and from each other, every byte up to
  `heap_end_addr` is in one of them), `LiveOK` (header, request and canary fit each
  block in use) and `CallOK`. Two facts make it inductive. An expansion whose
  size wraps to nothing inserts an empty free block, but only at the end of the heap, where
  it meets nobody; and a caller between its search
  and its insertion knows that the list has no empty block and, once it has read it, that
  its base still is `heap_end_addr`. The lemmas are about one operation each: `Place`,
  `Coalesced`, `NonEmpty`, `Extended` and `WithoutFit` on any list of blocks. What the walks
  compute is shown by induction over their length, through the set of places up to
  which a statement holds (`UpToInduction`), and that they are defined at all by
  `Recursion`. From it `HeapTiles`, `FreeNeighboursMerged` and `RequestsFit` under two
  hypotheses that are both necessary (see the disagreements above): `NoWrap`, the sizes asked for do not
  come within a header of 2^32, and `OneGrows`, no two callers are inside `heap_expand`
  at once; with one caller, `OneCallerIsSafe`, the second one is void.
* `Ext2Proofs`: `Inv` is `FilesOK` and `CountsOK`. `FilesOK` says that clear bits of the
  bitmap stand for blocks a file may have, that the pointers of a file are distinct, and that
  every block with an owner is marked in its group's bitmap; the last one makes a
  block that has just been allocated new to every file, those only clients' copies of inodes
  know of included. `CountsOK` compares each group's count with the clear bits: a
  refused transfer may leave a bit set that was not counted, never the reverse, so counts only err upwards;
  the sum over the groups goes by induction on the number of groups. From it
  `Ext2Types`, `EveryBlockHasOneOwner` and `FreeCountsCover`. `DirInv` is added for
  `RootDirectorySound`: no client has a copy of the root's inode, so it is unchanged; the
  records of a directory block fill it; an inode just allocated was not marked and
  therefore differs from every entry's; and `ext2_find_file_in_dir` meets every
  record of the first block, because that block lies below the directory's size.
  `DataInv` is added for `WritesReadBack`: what a client has written, and what was written back,
  is found through the pointers of the copy, or of the inode on the disk, in front of the
  size (`Shows`). A file may have several copies with different blocks, and blocks may be shared between
  them and the inode: a block that two of them have is at the same index in both (`InPlace`), so a write
  through one shows in all that have the block at the place `wrote` and `kept` record. During a write the bound is the size the write will leave (`Limit`).
  A write into one block changes no other file's cells because of `EveryBlockHasOneOwner`.
  All of it holds for any number of groups, files, clients and refused transfers on a volume that
  is consistent when it is mounted (`Consistent`, sizes being natural numbers included).

Only model-checked:

* the liveness properties `KmallocReturns` and `KeysReachShell`: fairness is out of the
  prover's reach;
* `BlockMapInOrder` and `PathsResolve` of Ext2Path, whose path walk is mutually recursive through
  links, with RECURSIVE operators the prover does not take;
* `KernelIdentity`, `ProgramIntact`, `FramesApart` and `FailedSbrkKeeps` of UserSpace. Their
  invariant has to say that the tables reached from a PML4 form a tree whose every level is written only
  by `Descend`, and that the two-level tables of sbrk, folded over a list of frames, stay apart
  from it. It is not written yet.

## Not modelled

* FAT16 subdirectories, and a power loss that undoes writes of several earlier calls which were
  still in the cache: `Unnoticed` loses writes of one call at a time. A cluster above 4096
  bytes fails in the data write, which is `WriteDataFails` with nothing written.
* A FAT16 write of 4 GB or more, whose length is cut to 32 bits in the entry and in the loop.
* ext2 on an image in memory (`ext2_mount`), which nothing mounts; the empty path and link texts
  that do not fit the buffer, which are refused; and names of more than 255 characters, of which
  `ext2_create_file` cuts the length to 8 bits (`fs/ext/ext2.c:1113` and 1142), while
  `ext2_resolve_path` takes what follows character 255 for the next component (1244).
* What the kernel does to a program's memory once it is `astray`, and accesses to the addresses of
  a program by parts outside `UserSpace` (kernel code, heap).
* What a task computes; the TLB (every change is followed by an `invlpg` or a load of
  CR3); `map_page`, `unmap_page` and `map_range`, which only a test calls, and the
  modes of vmem other than identity, which nothing selects. `task_exit` does close no
  descriptor, and the handles it leaves open are in Vfs.
* PIT interrupts (vector 32) only count; preemption by the APIC timer (vector 48)
  is armed by the non-UEFI build and by its test.
* `stack_alloc`, `stack_free`: no callers. Printing, statistics, tags of blocks.
* FAT12 and `fs.c` (nothing mounts them), console, fonts, PCI, shell commands,
  descriptor tables and boot: input and output or set-up that runs once.
* Spin locks across CPUs: the kernel starts one.

## Plan

Done: block cache, scheduler, event ring, frames, heap, VFS, FAT16 on the root directory and
ext2, the composition of heap and frames, the keyboard (their invariants proved); address
spaces with the loader and sbrk, and the paths of ext2 (model-checked). Next:

1. FAT16 and ext2 over the block cache, with a power loss that keeps any prefix of the
   evictions; FAT16 subdirectories.
2. Proofs: the identity map of the kernel under `Descend`, and from it the frames of UserSpace.
3. The waiting loops of the timers.
