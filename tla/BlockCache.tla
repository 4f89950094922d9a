----------------------------- MODULE BlockCache -----------------------------
(***************************************************************************)
(* The write-back LRU block cache of src/kernel/fs/block_cache.c together  *)
(* with the ATA disk under it.  The cache is used by one thread of control *)
(* (kernel and shell), so every call is one step; a transfer that the      *)
(* drive aborts half way is part of that step, and the power may go        *)
(* between any two of them.  The statistics counters (hits, misses) and    *)
(* the diagnostics are left out: nothing reads them back.                  *)
(***************************************************************************)
EXTENDS Integers

CONSTANTS
  Blocks,           \* block numbers (uint32_t block_num)
  NumEntries,       \* cache->num_entries
  SectorsPerBlock,  \* cache->block_size / 512
  Values,           \* what one sector can contain
  Uninit,           \* a sector of a buffer kmalloc has just returned
  Payloads,         \* the blocks clients write
  StampMod,         \* 2^32: the range of the uint32_t timestamps
  MaxStamp,         \* bound on cache->timestamp (StampMod: no bound)
  Faults            \* the faults of the drive, see ReadExtents and Extents

Entries == 1..NumEntries
Sectors == 1..SectorsPerBlock
NULL == 0           \* the null struct block_cache_entry *

ASSUME BlockAssumption == 0 \in Blocks
ASSUME SizeAssumption ==
  /\ NumEntries \in Nat
  /\ SectorsPerBlock \in Nat \ {0}
  /\ StampMod \in Nat \ {0}
  /\ MaxStamp \in Nat
ASSUME DataAssumption ==
  /\ Uninit \notin Values
  /\ Payloads # {}
  /\ Payloads \subseteq [Sectors -> Values]

VARIABLES
  disk,       \* disk[b][s]: sector s of block b on the platter
  up,         \* block_cache_init has returned a cache
  entries,    \* cache->entries
  timestamp,  \* cache->timestamp
  synced,     \* history: blocks not written since the last successful flush
  torn,       \* history: entries a transfer has left apart from their block
  result      \* what the last call returned to its client

vars == <<disk, up, entries, timestamp, synced, torn, result>>

Contents == [Sectors -> Values]
Buffer == [Sectors -> Values \union {Uninit}]

\* What a call returns: 0 or -1 and, for a read, the bytes in the buffer.
Done(op) == [op |-> op, ok |-> TRUE]
Failed(op) == [op |-> op, ok |-> FALSE]
ReadDone(b, d) == [op |-> "read", ok |-> TRUE, block |-> b, data |-> d]

-----------------------------------------------------------------------------
(* The drive (driver/ata.c).  A PIO transfer moves whole sectors in order  *)
(* and stops at the first one the drive refuses.                           *)

\* The first n sectors of src have been copied over dst.
Transfer(n, src, dst) == [s \in Sectors |-> IF s <= n THEN src[s] ELSE dst[s]]

\* How many sectors ata_read_sectors moves: all of them, none when the drive
\* is not ready ("read_early"), or a part when a sector is bad ("read_mid").
ReadExtents ==
  {SectorsPerBlock}
    \union (IF "read_early" \in Faults THEN {0} ELSE {})
    \union (IF "read_mid" \in Faults THEN 1..(SectorsPerBlock - 1) ELSE {})

\* How many sectors of a write that returns 0 (ok) or -1 are on the disk.  A
\* write refused part of the way is reported ("write"), but the outcome of
\* the last sector is not: ata_write_sectors drops the result of its final
\* ata_wait_ready and never looks at ERR again ("write_last").
Extents(ok) ==
  IF ok
    THEN {SectorsPerBlock}
           \union (IF "write_last" \in Faults THEN {SectorsPerBlock - 1} ELSE {})
    ELSE IF "write" \in Faults THEN 0..(SectorsPerBlock - 1) ELSE {}

-----------------------------------------------------------------------------
(* The cache.                                                              *)

Hit(i, b) == entries[i].valid /\ entries[i].block_num = b
\* Mutant: the search loop stops one entry early.
CachedSkipsLast(b) == \E i \in 1..(NumEntries - 1) : Hit(i, b)
Cached(b) == \E i \in Entries : Hit(i, b)

\* The loop that both block_cache_read and block_cache_write start with.
Lookup(b) ==
  CHOOSE i \in Entries : Hit(i, b) /\ \A j \in Entries : Hit(j, b) => i <= j

\* An invalid entry if there is one, otherwise the first of the oldest ones;
\* the search starts from 0xFFFFFFFF and takes only smaller stamps.
find_lru_entry ==
  LET free  == {i \in Entries : ~entries[i].valid}
      older == {i \in Entries : entries[i].last_used < StampMod - 1}
      age(i) == entries[i].last_used
  IN  IF free # {} THEN CHOOSE i \in free : \A j \in free : i <= j
      ELSE IF older = {} THEN NULL
      ELSE CHOOSE i \in older : \A j \in older :
             age(i) < age(j) \/ (age(i) = age(j) /\ i <= j)

\* Entry i must be written back before it can take another block.
MustWriteBack(i) == entries[i].valid /\ entries[i].dirty

\* The disk after the first n sectors of entry i have reached its block.
WrittenBack(i, n) ==
  [disk EXCEPT ![entries[i].block_num] = Transfer(n, entries[i].data, @)]

FreshEntry ==
  [block_num |-> 0, data |-> [s \in Sectors |-> Uninit],
   last_used |-> 0, dirty |-> FALSE, valid |-> FALSE]

\* Entry e with other bytes in its buffer, for the same block.
Filled(e, data, stamp, dirty) ==
  [block_num |-> e.block_num, data |-> data, last_used |-> stamp,
   dirty |-> dirty, valid |-> e.valid]

Tick ==
  /\ up
  /\ timestamp < MaxStamp
  /\ timestamp' = (timestamp + 1) % StampMod
  /\ UNCHANGED up

\* A call that returns -1 after moving the clock only.
Refuse(op) ==
  /\ result' = Failed(op)
  /\ UNCHANGED <<entries, synced, torn>>

\* The lookup missed and find_lru_entry found nothing.
NoVictim(op, b) ==
  /\ ~Cached(b)
  /\ find_lru_entry = NULL
  /\ Refuse(op)
  /\ UNCHANGED disk

\* The lookup missed and the victim could not be written back.
WriteBackFails(op, b) ==
  LET v == find_lru_entry IN
  /\ ~Cached(b)
  /\ v # NULL
  /\ MustWriteBack(v)
  /\ \E n \in Extents(FALSE) : disk' = WrittenBack(v, n)
  /\ Refuse(op)

\* Mutant: a dirty victim is replaced without being written.
EvictUnwritten(b, m) ==
  /\ ~Cached(b)
  /\ find_lru_entry # NULL
  /\ UNCHANGED disk

\* The lookup missed; the victim is clean, or has been written back with m of
\* its sectors on the disk.
Evict(b, m) ==
  LET v == find_lru_entry IN
  /\ ~Cached(b)
  /\ v # NULL
  /\ disk' = IF MustWriteBack(v) THEN WrittenBack(v, m) ELSE disk

-----------------------------------------------------------------------------
\* Mutant: a hit on the read path does not refresh the stamp.
ReadHitNoTouch(b) ==
  /\ Cached(b)
  /\ result' = ReadDone(b, entries[Lookup(b)].data)
  /\ UNCHANGED <<disk, entries, synced, torn>>

\* block_cache_read, found in the cache.
ReadHit(b) ==
  /\ Cached(b)
  /\ entries' = [entries EXCEPT ![Lookup(b)].last_used = timestamp']
  /\ result' = ReadDone(b, entries[Lookup(b)].data)
  /\ UNCHANGED <<disk, synced, torn>>

\* The read breaks off after n sectors.  The entry keeps its old block number
\* and goes on being valid, over the n sectors of the other block: from here
\* on it is torn, as it is when the last sector of its write-back was lost.
ReadFails(v, b, m, n) ==
  /\ entries' = [entries EXCEPT ![v] =
       Filled(@, Transfer(n, disk'[b], @.data), @.last_used, FALSE)]
  /\ torn' = IF entries[v].valid /\ (n > 0 \/ (MustWriteBack(v) /\ m < SectorsPerBlock))
               THEN torn \union {v} ELSE torn
  /\ result' = Failed("read")

\* The whole block has been read: the entry is its copy.
ReadFills(v, b) ==
  /\ entries' = [entries EXCEPT ![v] =
       [block_num |-> b, data |-> disk'[b], last_used |-> timestamp',
        dirty |-> FALSE, valid |-> TRUE]]
  /\ torn' = torn \ {v}
  /\ result' = ReadDone(b, disk'[b])

\* block_cache_read, not found: n sectors reach the victim's buffer.  Only a
\* complete transfer updates the entry.
ReadMiss(b) ==
  LET v == find_lru_entry IN
  \E m \in Extents(TRUE), n \in ReadExtents :
    /\ Evict(b, m)
    /\ IF n = SectorsPerBlock THEN ReadFills(v, b) ELSE ReadFails(v, b, m, n)
    /\ UNCHANGED synced

block_cache_read(b) ==
  /\ Tick
  /\ \/ ReadHit(b)
     \/ NoVictim("read", b)
     \/ WriteBackFails("read", b)
     \/ ReadMiss(b)

\* Mutant: a write that hits leaves the entry clean.
WriteHitClean(b, d) ==
  /\ Cached(b)
  /\ entries' = [entries EXCEPT ![Lookup(b)] =
       Filled(@, d, timestamp', @.dirty)]
  /\ torn' = torn \ {Lookup(b)}
  /\ UNCHANGED disk

WriteHit(b, d) ==
  /\ Cached(b)
  /\ entries' = [entries EXCEPT ![Lookup(b)] =
       Filled(@, d, timestamp', TRUE)]
  /\ torn' = torn \ {Lookup(b)}
  /\ UNCHANGED disk

\* The new block replaces the victim without being read from the disk.
WriteMiss(b, d) ==
  /\ \E m \in Extents(TRUE) : Evict(b, m)
  /\ entries' = [entries EXCEPT ![find_lru_entry] =
       [block_num |-> b, data |-> d, last_used |-> timestamp',
        dirty |-> TRUE, valid |-> TRUE]]
  /\ torn' = torn \ {find_lru_entry}

block_cache_write(b, d) ==
  /\ Tick
  /\ \/ /\ WriteHit(b, d) \/ WriteMiss(b, d)
        /\ result' = Done("write")
        /\ synced' = synced \ {b}
     \/ NoVictim("write", b)
     \/ WriteBackFails("write", b)

-----------------------------------------------------------------------------
\* block_cache_flush writes the dirty entries in order until a write fails.
\* ext[i] is how many sectors of entry i reached the disk: a flush stopped at
\* entry stop (NumEntries + 1: at none) has written all entries before it.
FlushExtents(stop) ==
  {ext \in [Entries -> 0..SectorsPerBlock] : \A i \in Entries :
     ext[i] \in IF i < stop THEN Extents(TRUE)
                ELSE IF i = stop THEN Extents(FALSE) ELSE {0}}

\* Mutant: the flush loop stops one entry early.
FlushedDiskSkipsLast(stop, ext) ==
  [b \in Blocks |->
     LET moved == {i \in 1..(NumEntries - 1) :
                     MustWriteBack(i) /\ i <= stop /\ Hit(i, b)}
         i == CHOOSE i \in moved : TRUE
     IN  IF moved = {} THEN disk[b]
         ELSE Transfer(ext[i], entries[i].data, disk[b])]

FlushedDisk(stop, ext) ==
  [b \in Blocks |->
     LET moved == {i \in Entries : MustWriteBack(i) /\ i <= stop /\ Hit(i, b)}
         i == CHOOSE i \in moved : TRUE
     IN  IF moved = {} THEN disk[b]
         ELSE Transfer(ext[i], entries[i].data, disk[b])]

\* Mutant: dirty is cleared before the result of the write is looked at.
FlushedEntriesEarly(stop) ==
  [i \in Entries |->
     IF MustWriteBack(i) /\ i <= stop
       THEN [entries[i] EXCEPT !.dirty = FALSE] ELSE entries[i]]

FlushedEntries(stop) ==
  [i \in Entries |->
     IF MustWriteBack(i) /\ i < stop
       THEN [entries[i] EXCEPT !.dirty = FALSE] ELSE entries[i]]

\* The entries marked clean although their last sector was lost.
FlushedShort(stop, ext) ==
  {i \in Entries : MustWriteBack(i) /\ i < stop /\ ext[i] < SectorsPerBlock}

FlushStops(stop, ext) ==
  /\ IF stop \in Entries THEN MustWriteBack(stop) ELSE TRUE
  /\ disk' = FlushedDisk(stop, ext)
  /\ synced' = IF stop \in Entries THEN synced ELSE Blocks

block_cache_flush ==
  /\ up
  /\ \E stop \in 1..(NumEntries + 1) : \E ext \in FlushExtents(stop) :
       /\ FlushStops(stop, ext)
       /\ entries' = FlushedEntries(stop)
       /\ torn' = torn \union FlushedShort(stop, ext)
       /\ result' = IF stop \in Entries THEN Failed("flush") ELSE Done("flush")
  /\ UNCHANGED <<up, timestamp>>

\* block_cache_init; a failed kmalloc undoes the earlier ones and leaves up.
block_cache_init ==
  /\ ~up
  /\ up' = TRUE
  /\ entries' = [i \in Entries |-> FreshEntry]
  /\ timestamp' = 0
  /\ torn' = {}
  /\ UNCHANGED <<disk, synced, result>>

\* The memory of the cache is gone.
Forget ==
  /\ up
  /\ up' = FALSE
  /\ entries' = [i \in Entries |-> FreshEntry]
  /\ timestamp' = 0
  /\ torn' = {}
  /\ UNCHANGED result

\* block_cache_destroy ignores the result of its flush.
block_cache_destroy ==
  /\ Forget
  /\ \E stop \in 1..(NumEntries + 1) : \E ext \in FlushExtents(stop) :
       FlushStops(stop, ext)

\* The machine is switched off: nothing in the kernel flushes first.
PowerLoss ==
  /\ Forget
  /\ UNCHANGED <<disk, synced>>

Init ==
  /\ disk \in [Blocks -> Payloads]
  /\ up = FALSE
  /\ entries = [i \in Entries |-> FreshEntry]
  /\ timestamp = 0
  /\ synced = Blocks
  /\ torn = {}
  /\ result = Done("init")

Next ==
  \/ block_cache_init
  \/ \E b \in Blocks : block_cache_read(b)
  \/ \E b \in Blocks, d \in Payloads : block_cache_write(b, d)
  \/ block_cache_flush
  \/ block_cache_destroy
  \/ PowerLoss

Spec == Init /\ [][Next]_vars

-----------------------------------------------------------------------------
(* Properties.                                                             *)

\* Type invariant.  It also says that no byte of a buffer fresh from kmalloc
\* ever reaches the disk or a valid entry.
TypeOK ==
  /\ disk \in [Blocks -> Contents]
  /\ up \in BOOLEAN
  /\ entries \in [Entries -> [block_num : Blocks, data : Buffer,
        last_used : 0..(StampMod - 1), dirty : BOOLEAN, valid : BOOLEAN]]
  /\ \A i \in Entries : entries[i].valid => entries[i].data \in Contents
  /\ timestamp \in 0..(StampMod - 1)
  /\ synced \subseteq Blocks

\* No block is held by two entries: a hit, an eviction and a flush would each
\* pick one of them and the other copy would be lost or resurrected.
NoAlias ==
  \A i, j \in Entries, b \in Blocks : Hit(i, b) /\ Hit(j, b) => i = j

\* A clean entry is a copy of its block, so that it may be evicted without a
\* write, unless a transfer for that very entry was cut short: a miss read a
\* part of another block over it (block_cache.c:191), or the last sector of
\* its write was lost silently (ata.c:324).  A failed flush, a failed
\* write-back and a read refused at once leave no such entry, and writing the
\* block or evicting it ends the state.
CleanIsCopy ==
  \A i \in Entries :
    entries[i].valid /\ ~entries[i].dirty /\ i \notin torn
      => entries[i].data = disk[entries[i].block_num]

\* Inductive strengthening: a torn entry is valid and clean, so what it spoils
\* is lost to its readers but never reaches the disk.
TornIsClean ==
  \A i \in torn : i \in Entries /\ entries[i].valid /\ ~entries[i].dirty

\* What block b contains: its entry if that holds the block, else the disk.
View(b) ==
  IF Cached(b) /\ Lookup(b) \notin torn THEN entries[Lookup(b)].data ELSE disk[b]

\* A block that a successful flush has made durable, and that no one has
\* written since, is on the disk, through evictions, failed flushes, failed
\* reads and power losses, if the drive reports the loss of a last sector.
SyncedOnDisk == \A b \in synced : disk[b] = View(b)

\* Inductive strengthening: what is dirty has been written since the last
\* successful flush, so a synced block is cached clean or not at all.
DirtyUnsynced ==
  \A i \in Entries : MustWriteBack(i) => entries[i].block_num \notin synced

IInv == TypeOK /\ NoAlias /\ CleanIsCopy /\ TornIsClean /\ DirtyUnsynced

\* A dirty entry gives up its data only in a step that has put all of it on
\* the disk, or when the whole cache goes: eviction and flush write first.
\* The drive has to report the loss of a last sector (ata.c:324).
DirtyIsWritten ==
  [][\A i \in Entries :
       LET b == entries[i].block_num
           kept == entries'[i].valid /\ entries'[i].dirty
                     /\ entries'[i].block_num = b
       IN  MustWriteBack(i) /\ up' /\ ~kept => disk'[b] = entries[i].data]_vars

\* The cache implements the block store its clients rely on: reads return the
\* last write, except those of a block that a failed read of another one has
\* spoiled in the cache.  The drive has to report the loss of a last sector.
ViewMap == [b \in Blocks |-> View(b)]
Spoiled == {entries[i].block_num : i \in torn}

Store == INSTANCE BlockStore WITH content <- ViewMap, spoiled <- Spoiled
StoreSpec == Store!Spec
=============================================================================
