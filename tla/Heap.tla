-------------------------------- MODULE Heap --------------------------------
(***************************************************************************)
(* The kernel heap of src/kernel/mem/manager.c: a first-fit allocator over *)
(* an address-ordered free list that grows by heap_expand.  A section      *)
(* under heap_lock is one step; what kmalloc does between two of them is a *)
(* step of its own, so that several callers can interleave there.          *)
(*                                                                         *)
(* The free list is the sequence of its blocks (address and size of the    *)
(* whole block, header included).  Block headers live in the heap itself:  *)
(* the sequence stands for them as long as blocks do not overlap, which is *)
(* what Tiling says.                                                       *)
(***************************************************************************)
EXTENDS Integers, SequencesExt

CONSTANTS
  WordMod,                        \* 2^32: the range of uint32_t sizes
  PageSize, MinExpand,            \* 0x1000 and 0x100000 in heap_expand
  HeapStart, HeapEnd,             \* the arguments of mem_init
  MaxHeap,                        \* no request that must grow a larger heap
  Sizes,                          \* the sizes callers ask for
  Callers                         \* threads of control inside the allocator

ALIGN == 8
HeaderSize == 16                  \* sizeof(block_header_t)
CanarySize == 4                   \* sizeof(uint32_t)

\* memory_init gives mem_init whole pages.
ASSUME HeapAssumption ==
  /\ HeapStart \in Nat /\ HeapEnd \in Nat /\ HeapEnd - HeapStart >= HeaderSize
  /\ HeapStart % ALIGN = 0 /\ HeapEnd % ALIGN = 0
  /\ PageSize \in Nat \ {0} /\ PageSize % ALIGN = 0
  /\ WordMod \in Nat \ {0} /\ MinExpand \in Nat
  /\ Sizes \subseteq Nat

VARIABLES
  free_list,      \* the free blocks, in list order
  heap_end_addr,
  live,           \* the blocks callers hold, with the size asked for
  call            \* call[c]: the kmalloc in which caller c is

vars == <<free_list, heap_end_addr, live, call>>

Call(at, size, retry_count, base) ==
  [at |-> at, size |-> size, retry_count |-> retry_count, base |-> base]
Idle == Call("idle", 0, 0, 0)

-----------------------------------------------------------------------------
(* Sizes, in uint32_t arithmetic.                                          *)

\* Mutant: sizes are rounded down.
align_down(n) == (n \div ALIGN) * ALIGN

align_up(n) == (((n + ALIGN - 1) % WordMod) \div ALIGN) * ALIGN

wanted_with_canary(size) == align_up((align_up(size) + CanarySize) % WordMod)
total_size(size) == (wanted_with_canary(size) + HeaderSize) % WordMod

\* What heap_expand adds for a request: a megabyte or more, in whole pages.
expand_size(size) ==
  LET n == IF total_size(size) < MinExpand THEN MinExpand ELSE total_size(size)
  IN  (((n + PageSize - 1) % WordMod) \div PageSize) * PageSize

-----------------------------------------------------------------------------
(* Lists of blocks in order of address.                                    *)

Block(addr, size) == [addr |-> addr, size |-> size]
End(b) == b.addr + b.size

\* How many blocks lie in front of addr: the walk stops at the first that does
\* not.
Place(s, addr) ==
  CHOOSE k \in 0..Len(s) :
    /\ \A i \in 1..k : s[i].addr < addr
    /\ k < Len(s) => s[k + 1].addr >= addr
Below(s, addr) == SubSeq(s, 1, Place(s, addr))
From(s, addr) == SubSeq(s, Place(s, addr) + 1, Len(s))

\* The list without its empty blocks.
NonEmpty(s) ==
  LET upTo[i \in 0..Len(s)] ==
        IF i = 0 THEN <<>>
        ELSE IF s[i].size # 0 THEN Append(upTo[i - 1], s[i]) ELSE upTo[i - 1]
  IN  upTo[Len(s)]

\* Mutant: a block is appended without a look at its neighbour.
Unjoined(s, b) == Append(s, b)

\* Block b is appended to s, or merged with the last block if they touch.
Join(s, b) ==
  IF s # <<>> /\ End(Last(s)) = b.addr
    THEN Append(Front(s), Block(Last(s).addr, Last(s).size + b.size))
    ELSE Append(s, b)

\* kfree inserts the block and then merges along the whole list.
Inserted(s, b) == Below(s, b.addr) \o <<b>> \o From(s, b.addr)
Coalesced(s) ==
  LET upTo[i \in 0..Len(s)] == IF i = 0 THEN <<>> ELSE Join(upTo[i - 1], s[i])
  IN  upTo[Len(s)]

\* heap_expand merges the new block with its two neighbours only.
Extended(s, b) ==
  LET low == Join(Below(s, b.addr), b)
      high == From(s, b.addr)
  IN  IF high = <<>> THEN low ELSE Join(low, Head(high)) \o Tail(high)

\* The first block that is large enough, 0 if there is none.
FirstFit(s, total) ==
  LET fits == {i \in 1..Len(s) : s[i].size # 0 /\ s[i].size >= total}
  IN  IF fits = {} THEN 0 ELSE CHOOSE i \in fits : \A j \in fits : i <= j

\* A block is split when what is left can hold a header and 16 bytes.
Splits(b, total) == b.size >= total + HeaderSize + 2 * ALIGN

\* Mutant: the size of a split block is not reduced.
TakenUnsplit(b, total) == b

Taken(b, total) == IF Splits(b, total) THEN Block(b.addr, total) ELSE b

\* The list after block i has been taken; empty blocks met on the way go.
WithoutFit(s, i, total) ==
  NonEmpty(SubSeq(s, 1, i - 1))
    \o (IF Splits(s[i], total)
          THEN <<Block(s[i].addr + total, s[i].size - total)>> ELSE <<>>)
    \o SubSeq(s, i + 1, Len(s))

-----------------------------------------------------------------------------
(* Operations.                                                             *)

Return(c) == call' = [call EXCEPT ![c] = Idle]
Goes(c, at, retry_count, base) ==
  call' = [call EXCEPT ![c] = Call(at, call[c].size, retry_count, base)]

\* kmalloc: a size of zero returns at once, the others enter the loop.
kmalloc(c, size) ==
  /\ call[c] = Idle
  /\ size # 0
  /\ heap_end_addr <= MaxHeap \/ FirstFit(free_list, total_size(size)) # 0
  /\ call' = [call EXCEPT ![c] = Call("enter", size, 0, 0)]
  /\ UNCHANGED <<free_list, heap_end_addr, live>>

\* kmalloc_internal before it takes the lock: an empty free list, or a
\* fourth retry, makes it return NULL.
Enter(c) ==
  /\ call[c].at = "enter"
  /\ IF free_list = <<>> \/ call[c].retry_count > 3
       THEN Return(c)
       ELSE Goes(c, "search", call[c].retry_count, 0)
  /\ UNCHANGED <<free_list, heap_end_addr, live>>

\* The search under the lock.
Search(c) ==
  LET size  == call[c].size
      total == total_size(size)
      i     == FirstFit(free_list, total)
  IN  /\ call[c].at = "search"
      /\ \/ /\ i # 0
            /\ free_list' = WithoutFit(free_list, i, total)
            /\ live' = live \union
                 {[block |-> Taken(free_list[i], total), size |-> size,
                   canary |-> wanted_with_canary(size) - CanarySize]}
            /\ Return(c)
         \/ /\ i = 0
            /\ free_list' = NonEmpty(free_list)
            /\ Goes(c, "expand", call[c].retry_count, 0)
            /\ UNCHANGED live
      /\ UNCHANGED heap_end_addr

\* heap_expand reads heap_end_addr before it takes the lock.
ExpandReads(c) ==
  /\ call[c].at = "expand"
  /\ Goes(c, "insert", call[c].retry_count, heap_end_addr)
  /\ UNCHANGED <<free_list, heap_end_addr, live>>

\* Mutant: the retries are not counted.
ExpandUncounted(c) ==
  LET n == expand_size(call[c].size) IN
  /\ call[c].at = "insert"
  /\ free_list' = Extended(free_list, Block(call[c].base, n))
  /\ heap_end_addr' = heap_end_addr + n
  /\ Goes(c, "enter", call[c].retry_count, 0)
  /\ UNCHANGED live

\* The rest of heap_expand, and the retry that follows it.
ExpandInserts(c) ==
  LET n == expand_size(call[c].size) IN
  /\ call[c].at = "insert"
  /\ free_list' = Extended(free_list, Block(call[c].base, n))
  /\ heap_end_addr' = heap_end_addr + n
  /\ Goes(c, "enter", call[c].retry_count + 1, 0)
  /\ UNCHANGED live

\* kfree looks for the canary at the end of the whole block, which is not
\* always where kmalloc put it; it goes on whatever it finds there.
kfree(c, p) ==
  LET b == p.block IN
  /\ call[c] = Idle
  /\ free_list' = Coalesced(Inserted(free_list, b))
  /\ live' = live \ {p}
  /\ UNCHANGED <<heap_end_addr, call>>

\* mem_init.
Init ==
  /\ free_list = <<Block(HeapStart, HeapEnd - HeapStart)>>
  /\ heap_end_addr = HeapEnd
  /\ live = {}
  /\ call = [c \in Callers |-> Idle]

Step(c) == Enter(c) \/ Search(c) \/ ExpandReads(c) \/ ExpandInserts(c)

Next ==
  \E c \in Callers :
    \/ \E size \in Sizes : kmalloc(c, size)
    \/ Step(c)
    \/ \E p \in live : kfree(c, p)

Spec == Init /\ [][Next]_vars

\* kmalloc waits for nothing but heap_lock, which nobody holds between steps.
FairSpec == Spec /\ \A c \in Callers : WF_vars(Step(c))

-----------------------------------------------------------------------------
(* Properties.                                                             *)

Blocks == Range(free_list) \union {p.block : p \in live}

\* Type invariant.
TypeOK ==
  /\ \A b \in Blocks : b.addr \in Nat /\ b.size \in Nat /\ b.addr % ALIGN = 0
  /\ heap_end_addr \in Nat
  /\ \A c \in Callers : call[c].retry_count \in 0..4

\* The free and the live blocks tile the heap: no two overlap, no byte is
\* outside of them, and none lies beyond heap_end_addr, however requests are
\* split, grown and merged.
Tiling ==
  /\ TypeOK
  /\ IsInjective(free_list)
  /\ Range(free_list) \intersect {p.block : p \in live} = {}
  /\ \A b \in Blocks : HeapStart <= b.addr /\ End(b) <= heap_end_addr
  /\ \A b, d \in Blocks : b # d => End(b) <= d.addr \/ End(d) <= b.addr
  /\ \A a \in HeapStart..(heap_end_addr - 1) :
       \E b \in Blocks : b.addr <= a /\ a < End(b)

\* The free list is in order of address and no two neighbours in it touch, so
\* that memory freed in any order becomes one block again.
Merged ==
  \A i \in 1..(Len(free_list) - 1) : End(free_list[i]) < free_list[i + 1].addr

\* A block that kmalloc has returned has room for what was asked for and for
\* the canary behind it.
RoomForRequest ==
  \A p \in live : /\ p.size <= p.canary
                  /\ HeaderSize + p.canary + CanarySize <= p.block.size

\* kmalloc returns: its retries are bounded even when expanding the heap
\* never produces a block that is large enough.
KmallocReturns == \A c \in Callers : call[c] # Idle ~> call[c] = Idle
=============================================================================
