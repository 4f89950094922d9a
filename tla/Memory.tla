------------------------------- MODULE Memory -------------------------------
(***************************************************************************)
(* The two memory allocators together, as memory_init sets them up         *)
(* (src/kernel/mem/manager.c): the kernel heap lies in the physical memory *)
(* that alloc_frame hands out, the bitmap chunks of alloc_frame lie in the *)
(* heap, and the heap grows on its own.  Physical memory is identity       *)
(* mapped.  Calls nest under the memmap lock with interrupts off, so each  *)
(* one is a step, kmalloc with its retry included; requests are so small   *)
(* that the first expansion satisfies them.                                *)
(***************************************************************************)
EXTENDS FrameMap, FiniteSets, Sequences

CONSTANTS
  WordMod, PageSize, MinExpand,
  HeapStart, HeapEnd, MaxHeap, Sizes,   \* as in Heap
  StartFrame,                 \* memmap.start_frame
  ChunkSize, WordsSize        \* the two blocks create_chunk allocates

VARIABLES
  heap,   \* free: the free list; end: heap_end_addr; live: client blocks
  meta    \* the heap blocks that hold the chunks of the frame bitmap

memVars == <<vars, heap, meta>>

H == INSTANCE Heap WITH
  free_list <- heap.free, heap_end_addr <- heap.end, live <- heap.live,
  call <- <<>>, Callers <- {}

Requests == Sizes \union {ChunkSize, WordsSize}

\* memory_init gives mem_init whole pages.
ASSUME HeapSetUp ==
  /\ HeapStart \in Nat /\ HeapEnd \in Nat /\ HeapEnd - HeapStart >= H!HeaderSize
  /\ HeapStart % H!ALIGN = 0 /\ HeapEnd % H!ALIGN = 0
  /\ PageSize \in Nat \ {0} /\ PageSize % H!ALIGN = 0
  /\ WordMod \in Nat \ {0} /\ MinExpand \in Nat
  /\ Requests \subseteq Nat /\ StartFrame \in Nat

ASSUME SmallRequests ==
  \A n \in Requests :
    /\ n > 0
    /\ n + 2 * H!ALIGN + H!CanarySize + H!HeaderSize <= WordMod
    /\ H!total_size(n) <= H!expand_size(n)

-----------------------------------------------------------------------------
\* kmalloc on a heap h, the block going to the clients or to nobody yet.
Fits(h, size) == H!FirstFit(h.free, H!total_size(size)) # 0
CanAllocate(h) == h.free # <<>>

Grown(h, size) ==
  LET n == H!expand_size(size)
  IN  [free |-> H!Extended(H!NonEmpty(h.free), H!Block(h.end, n)),
       end |-> h.end + n, live |-> h.live]

Room(h, size) == IF Fits(h, size) THEN h ELSE Grown(h, size)

Allocated(h, size) ==
  LET r == Room(h, size)
      total == H!total_size(size)
      i == H!FirstFit(r.free, total)
  IN  [heap  |-> [free |-> H!WithoutFit(r.free, i, total),
                  end |-> r.end, live |-> r.live],
       block |-> H!Taken(r.free[i], total)]

\* create_chunk: two blocks, or none when the free list runs empty; in that
\* case the first one is given back.
ChunkBlocks(h) == Allocated(h, ChunkSize)
CanCreate(h) == CanAllocate(h) /\ CanAllocate(ChunkBlocks(h).heap)
\* Mutant: the words are taken from the list the chunk was taken from.
create_chunk_stale(hm) ==
  LET one == ChunkBlocks(hm.heap)
      two == Allocated(hm.heap, WordsSize)
  IN  [heap |-> two.heap, meta |-> hm.meta \union {one.block, two.block}]

create_chunk(hm) ==
  LET one == ChunkBlocks(hm.heap)
      two == Allocated(one.heap, WordsSize)
  IN  [heap |-> two.heap, meta |-> hm.meta \union {one.block, two.block}]

\* The n chunks that memmap_reserve creates one after the other.
create_chunks(n, hm) ==
  LET after[i \in 0..n] == IF i = 0 THEN hm ELSE create_chunk(after[i - 1])
  IN  after[n]

-----------------------------------------------------------------------------
MemKmalloc(size) ==
  /\ booted
  /\ CanAllocate(heap)
  /\ heap.end <= MaxHeap \/ Fits(heap, size)
  /\ LET a == Allocated(heap, size)
     IN  heap' = [free |-> a.heap.free, end |-> a.heap.end,
                  live |-> heap.live \union {a.block}]
  /\ UNCHANGED <<vars, meta>>

MemKfree(b) ==
  /\ heap' = [free |-> H!Coalesced(H!Inserted(heap.free, b)),
              end |-> heap.end, live |-> heap.live \ {b}]
  /\ UNCHANGED <<vars, meta>>

\* alloc_frame creates its chunks with kmalloc.
MemAllocFrame ==
  LET failing == IF CanCreate(heap) THEN {} ELSE Chunks \ present IN
  /\ heap.end <= MaxHeap
  /\ alloc_frame(failing)
  /\ IF present' = present
       THEN UNCHANGED <<heap, meta>>
       ELSE LET made == create_chunk([heap |-> heap, meta |-> meta])
            IN  heap' = made.heap /\ meta' = made.meta

MemFreeFrame(f) == free_frame(f) /\ UNCHANGED <<heap, meta>>

\* The frames that overlap the bytes from a to b - 1.
FramesOf(a, b) ==
  {f \in Frames : (StartFrame + f) * PageSize < b
                    /\ (StartFrame + f + 1) * PageSize > a}

\* The end of memory_init: the frames under the heap are reserved.
memory_init ==
  LET first == HeapStart \div PageSize - StartFrame
      last  == (HeapEnd + PageSize - 1) \div PageSize - StartFrame
      made  == create_chunks(Cardinality(present'), [heap |-> heap, meta |-> meta])
  IN  /\ memmap_reserve(IF first < 0 THEN 0 ELSE first,
                        IF last > FrameCount THEN FrameCount ELSE last)
      /\ heap' = made.heap
      /\ meta' = made.meta

MemInit ==
  /\ Init
  /\ heap = [free |-> <<H!Block(HeapStart, HeapEnd - HeapStart)>>,
             end |-> HeapEnd, live |-> {}]
  /\ meta = {}

MemNext ==
  \/ memory_init
  \/ \E size \in Sizes : MemKmalloc(size)
  \/ \E b \in heap.live : MemKfree(b)
  \/ MemAllocFrame
  \/ \E f \in owned : MemFreeFrame(f)

MemSpec == MemInit /\ [][MemNext]_memVars

-----------------------------------------------------------------------------
(* Properties.                                                             *)

FreeBlocks == {heap.free[i] : i \in 1..Len(heap.free)}

\* The bitmap of the frame allocator is never in memory that kmalloc can hand
\* out again, and no client block overlaps it.
BitmapSafe ==
  /\ meta \intersect (FreeBlocks \union heap.live) = {}
  /\ \A m \in meta : \A b \in FreeBlocks \union heap.live \union meta :
       b # m => H!End(b) <= m.addr \/ H!End(m) <= b.addr

\* What is set up at boot stays out of everybody's hands, whatever is allocated
\* and freed afterwards: the bitmap stays apart from all blocks of the heap,
\* and no frame under the heap that memory_init built is handed out.
BootMemorySafe ==
  /\ BitmapSafe
  /\ owned \intersect FramesOf(HeapStart, HeapEnd) = {}

\* No frame under the heap, as it has grown, is handed out.
HeapFramesReserved == owned \intersect FramesOf(HeapStart, heap.end) = {}
=============================================================================
