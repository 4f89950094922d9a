-------------------------- MODULE BlockCacheProofs --------------------------
(***************************************************************************)
(* For every disk, every cache size and every sequence of calls, refused   *)
(* reads and writes, reads that break off and power losses: the cache      *)
(* keeps its invariants and evicts the least recently used block.  That it *)
(* implements BlockStore and drops no dirty data needs one assumption on   *)
(* the drive, ReportsLast: it does not lose the last sector of a write     *)
(* silently (the result ata_write_sectors drops at ata.c:324).             *)
(***************************************************************************)
EXTENDS LeastRecent, WellFoundedInduction, TLAPS

ReportsLast == "write_last" \notin Faults

USE SizeAssumption

\* A nonempty set of natural numbers has a least element.
LEMMA NatMin ==
  ASSUME NEW T \in SUBSET Nat, T # {}
  PROVE  \E x \in T : \A y \in T : x <= y
<1> DEFINE R == {ss \in Nat \X Nat : ss[1] < ss[2]}
<1>1. IsWellFoundedOn(R, Nat)
  BY NatLessThanWellFounded, Zenon DEF OpToRel
<1>2. PICK x \in T : \A y \in T : ~(<<y, x>> \in R)
  <2> HIDE DEF R
  <2>1. QED
    BY <1>1, WFMin
<1>3. \A y \in T : ~(y < x)
  BY <1>2
<1>4. QED
  BY <1>3

\* find_lru_entry returns an entry of the cache or NULL.
LEMMA LruType ==
  ASSUME TypeOK
  PROVE  find_lru_entry \in Entries \union {NULL}
<1> DEFINE free  == {i \in Entries : ~entries[i].valid}
           older == {i \in Entries : entries[i].last_used < StampMod - 1}
           age(i) == entries[i].last_used
<1>1. Entries \subseteq Nat /\ \A i \in Entries : age(i) \in Nat
  BY DEF TypeOK, Entries
<1>2. CASE free # {}
  <2>1. \E i \in free : \A j \in free : i <= j
    BY <1>1, <1>2, NatMin
  <2>2. QED
    BY <1>2, <2>1 DEF find_lru_entry
<1>3. CASE free = {} /\ older # {}
  <2> DEFINE ages == {age(i) : i \in older}
  <2>1. PICK a \in ages : \A c \in ages : a <= c
    <3>1. ages \in SUBSET Nat /\ ages # {}
      BY <1>1, <1>3
    <3>2. QED
      BY <3>1, NatMin
  <2> DEFINE oldest == {i \in older : age(i) = a}
  <2>2. PICK i \in oldest : \A j \in oldest : i <= j
    <3>1. oldest \in SUBSET Nat /\ oldest # {}
      BY <1>1, <2>1
    <3> HIDE DEF oldest
    <3>2. QED
      BY <3>1, NatMin
  <2>3. \A j \in older : age(i) < age(j) \/ (age(i) = age(j) /\ i <= j)
    <3> SUFFICES ASSUME NEW j \in older
                 PROVE  age(i) < age(j) \/ (age(i) = age(j) /\ i <= j)
      OBVIOUS
    <3>1. age(i) = a /\ a <= age(j) /\ a \in Nat /\ age(j) \in Nat
      BY <1>1, <2>1, <2>2
    <3>2. CASE age(j) = a
      BY <2>2, <3>1, <3>2
    <3>3. CASE age(j) # a
      BY <3>1, <3>3
    <3>4. QED
      BY <3>2, <3>3
  <2>4. \E k \in older : \A j \in older :
          age(k) < age(j) \/ (age(k) = age(j) /\ k <= j)
    BY <2>2, <2>3
  <2>5. find_lru_entry = CHOOSE k \in older : \A j \in older :
          age(k) < age(j) \/ (age(k) = age(j) /\ k <= j)
    BY <1>3 DEF find_lru_entry
  <2>6. QED
    BY <2>4, <2>5
<1>4. CASE free = {} /\ older = {}
  BY <1>4 DEF find_lru_entry
<1>5. QED
  BY <1>2, <1>3, <1>4

-----------------------------------------------------------------------------
(* Transfers.                                                              *)

LEMMA TransferAll ==
  ASSUME NEW src \in Buffer, NEW dst
  PROVE  Transfer(SectorsPerBlock, src, dst) = src
BY DEF Transfer, Buffer, Sectors

LEMMA TransferNone ==
  ASSUME NEW src, NEW dst \in Buffer
  PROVE  Transfer(0, src, dst) = dst
BY DEF Transfer, Buffer, Sectors

LEMMA TransferType ==
  ASSUME NEW n, NEW src \in Contents, NEW dst \in Contents
  PROVE  Transfer(n, src, dst) \in Contents
BY DEF Transfer, Contents

LEMMA ContentsInBuffer == Contents \subseteq Buffer
BY DEF Contents, Buffer

LEMMA PayloadsInContents == Payloads \subseteq Contents
BY DataAssumption DEF Contents

LEMMA ExtentBounds ==
  /\ ReadExtents \subseteq 0..SectorsPerBlock
  /\ Extents(TRUE) \subseteq 0..SectorsPerBlock
BY DEF ReadExtents, Extents

LEMMA ReportedExtent ==
  ASSUME ReportsLast
  PROVE  Extents(TRUE) = {SectorsPerBlock}
BY DEF ReportsLast, Extents

\* With such a drive a flush marks no entry clean that is not on the disk.
LEMMA NothingShort ==
  ASSUME ReportsLast, NEW stop, NEW ext \in FlushExtents(stop)
  PROVE  FlushedShort(stop, ext) = {}
<1> SUFFICES ASSUME NEW i \in Entries, i < stop PROVE ~(ext[i] < SectorsPerBlock)
  BY DEF FlushedShort
<1>1. ext[i] \in IF i < stop THEN Extents(TRUE)
                 ELSE IF i = stop THEN Extents(FALSE) ELSE {0}
  BY DEF FlushExtents
<1>2. ext[i] \in Extents(TRUE)
  BY <1>1
<1>3. ext[i] = SectorsPerBlock
  BY <1>2, ReportedExtent
<1>4. QED
  BY <1>3

\* By NoAlias the entry that a lookup finds is the only one for its block.
LEMMA LookupHit ==
  ASSUME NoAlias, NEW b \in Blocks, Cached(b)
  PROVE  Lookup(b) \in Entries /\ Hit(Lookup(b), b)
<1>1. PICK i \in Entries : Hit(i, b)
  BY DEF Cached
<1>2. \A j \in Entries : Hit(j, b) => i <= j
  BY <1>1 DEF NoAlias, Entries
<1>3. QED
  BY <1>1, <1>2 DEF Lookup

\* An eviction moves no block but the victim's, and that one only when it is
\* dirty.
LEMMA EvictEffect ==
  ASSUME IInv, NEW b \in Blocks, NEW m, Evict(b, m)
  PROVE  LET v == find_lru_entry IN
         /\ ~Cached(b)
         /\ v \in Entries
         /\ disk' \in [Blocks -> Contents]
         /\ \A c \in Blocks :
              ~(MustWriteBack(v) /\ entries[v].block_num = c) => disk'[c] = disk[c]
<1> DEFINE v == find_lru_entry
<1>1. ~Cached(b) /\ v \in Entries
  BY LruType DEF Evict, IInv
<1> HIDE DEF v
<1>2. disk \in [Blocks -> Contents]
  BY DEF IInv, TypeOK
<1>3. CASE MustWriteBack(v)
  <2>1. disk' = WrittenBack(v, m)
    BY <1>3 DEF Evict, v
  <2>2. entries[v].data \in Contents /\ entries[v].block_num \in Blocks
    BY <1>1, <1>3 DEF IInv, TypeOK, MustWriteBack
  <2>3. Transfer(m, entries[v].data, disk[entries[v].block_num]) \in Contents
    BY <1>2, <2>2, TransferType
  <2>4. QED
    BY <1>1, <1>2, <1>3, <2>1, <2>2, <2>3 DEF v, WrittenBack
<1>4. CASE ~MustWriteBack(v)
  <2>1. disk' = disk
    BY <1>4 DEF Evict, v
  <2>2. QED
    BY <1>1, <1>2, <2>1 DEF v
<1>5. QED
  BY <1>3, <1>4

\* An eviction whose write-back was complete ends with the victim's data on
\* the disk, if the victim held its block at all.
LEMMA EvictWrites ==
  ASSUME IInv, NEW b \in Blocks, NEW m, Evict(b, m),
         NEW v \in Entries, v = find_lru_entry, entries[v].valid, v \notin torn,
         MustWriteBack(v) => m = SectorsPerBlock
  PROVE  disk'[entries[v].block_num] = entries[v].data
<1>1. disk \in [Blocks -> Contents] /\ entries[v].data \in Contents
        /\ entries[v].block_num \in Blocks
  BY DEF IInv, TypeOK
<1>2. CASE MustWriteBack(v)
  <2>1. disk' = WrittenBack(v, SectorsPerBlock)
    BY <1>2 DEF Evict
  <2>2. Transfer(SectorsPerBlock, entries[v].data, disk[entries[v].block_num])
          = entries[v].data
    BY <1>1, TransferAll, ContentsInBuffer
  <2>3. QED
    BY <1>1, <2>1, <2>2 DEF WrittenBack
<1>3. CASE ~MustWriteBack(v)
  <2>1. disk' = disk
    BY <1>3 DEF Evict
  <2>2. ~entries[v].dirty
    BY <1>3 DEF MustWriteBack
  <2>3. QED
    BY <2>1, <2>2 DEF IInv, CleanIsCopy
<1>4. QED
  BY <1>2, <1>3

-----------------------------------------------------------------------------
(* Every step preserves the inductive invariant.                           *)

LEMMA InitIInv == Init => IInv
<1> SUFFICES ASSUME Init PROVE IInv
  OBVIOUS
<1>1. \A i \in Entries : entries[i] = FreshEntry
  BY DEF Init
<1>2. TypeOK
  <2>1. disk \in [Blocks -> Contents]
    BY PayloadsInContents DEF Init
  <2>2. [s \in Sectors |-> Uninit] \in Buffer
    BY DEF Buffer
  <2>3. 0 \in 0..(StampMod - 1)
    OBVIOUS
  <2>4. FreshEntry \in [block_num : Blocks, data : Buffer,
          last_used : 0..(StampMod - 1), dirty : BOOLEAN, valid : BOOLEAN]
    BY <2>2, <2>3, BlockAssumption DEF FreshEntry
  <2>5. ~FreshEntry.valid
    BY DEF FreshEntry
  <2> HIDE DEF FreshEntry
  <2>6. QED
    BY <1>1, <2>1, <2>3, <2>4, <2>5 DEF Init, TypeOK
<1>3. QED
  BY <1>1, <1>2
     DEF Init, IInv, NoAlias, CleanIsCopy, TornIsClean, DirtyUnsynced,
         MustWriteBack, Hit, FreshEntry

LEMMA TickType ==
  ASSUME TypeOK, Tick
  PROVE  timestamp' \in 0..(StampMod - 1) /\ up' \in BOOLEAN
BY DEF Tick, TypeOK

\* A write that fails half way through leaves its entry dirty: only the disk
\* under a dirty entry has changed.
LEMMA DisturbDirty ==
  ASSUME IInv, entries' = entries, synced' = synced, torn' = torn,
         timestamp' \in 0..(StampMod - 1), up' \in BOOLEAN,
         disk' \in [Blocks -> Contents],
         \A i \in Entries : entries[i].valid /\ ~entries[i].dirty
           => disk'[entries[i].block_num] = disk[entries[i].block_num]
  PROVE  IInv'
BY DEF IInv, TypeOK, NoAlias, CleanIsCopy, TornIsClean, DirtyUnsynced,
       MustWriteBack, Hit

LEMMA WriteBackFailsIInv ==
  ASSUME IInv, Tick, NEW op, NEW b \in Blocks, WriteBackFails(op, b)
  PROVE  IInv'
<1> DEFINE v == find_lru_entry
<1>1. v \in Entries /\ MustWriteBack(v)
  BY LruType DEF WriteBackFails, IInv
<1> HIDE DEF v
<1>2. PICK n : disk' = WrittenBack(v, n)
  BY DEF WriteBackFails, v
<1>3. entries[v].data \in Contents /\ entries[v].block_num \in Blocks
  BY <1>1 DEF IInv, TypeOK, MustWriteBack
<1>4. disk \in [Blocks -> Contents]
  BY DEF IInv, TypeOK
<1>5. disk' \in [Blocks -> Contents]
  BY <1>2, <1>3, <1>4, TransferType DEF WrittenBack
<1>6. \A c \in Blocks : c # entries[v].block_num => disk'[c] = disk[c]
  BY <1>2, <1>4 DEF WrittenBack
<1>7. ASSUME NEW i \in Entries, entries[i].valid, ~entries[i].dirty
      PROVE  disk'[entries[i].block_num] = disk[entries[i].block_num]
  <2>1. entries[i].block_num \in Blocks
    BY DEF IInv, TypeOK
  <2>2. i # v
    BY <1>1, <1>7 DEF MustWriteBack
  <2>3. entries[i].block_num # entries[v].block_num
    BY <1>1, <1>7, <2>1, <2>2 DEF IInv, NoAlias, Hit, MustWriteBack
  <2>4. QED
    BY <1>6, <2>1, <2>3
<1>8. entries' = entries /\ synced' = synced /\ torn' = torn
  BY DEF WriteBackFails, Refuse
<1>9. timestamp' \in 0..(StampMod - 1) /\ up' \in BOOLEAN
  BY TickType DEF IInv
<1>10. QED
  BY <1>5, <1>7, <1>8, <1>9, DisturbDirty

LEMMA NoVictimIInv ==
  ASSUME IInv, Tick, NEW op, NEW b \in Blocks, NoVictim(op, b)
  PROVE  IInv'
<1>1. entries' = entries /\ synced' = synced /\ disk' = disk /\ torn' = torn
  BY DEF NoVictim, Refuse
<1>2. timestamp' \in 0..(StampMod - 1) /\ up' \in BOOLEAN
  BY TickType DEF IInv
<1>3. disk' \in [Blocks -> Contents]
  BY <1>1 DEF IInv, TypeOK
<1>4. QED
  BY <1>1, <1>2, <1>3, DisturbDirty

\* Entry v takes block b with data d, and the disk only changes below v.
LEMMA ReplaceIInv ==
  ASSUME IInv, Tick, NEW b \in Blocks, NEW v \in Entries,
         NEW d \in Contents, NEW dirty \in BOOLEAN,
         \A i \in Entries : i # v => ~Hit(i, b),
         entries' = [entries EXCEPT ![v] =
           [block_num |-> b, data |-> d, last_used |-> timestamp',
            dirty |-> dirty, valid |-> TRUE]],
         disk' \in [Blocks -> Contents],
         \A c \in Blocks : ~(MustWriteBack(v) /\ entries[v].block_num = c)
                            => disk'[c] = disk[c],
         ~dirty => disk'[b] = d,
         torn' = torn \ {v},
         synced' = IF dirty THEN synced \ {b} ELSE synced
  PROVE  IInv'
<1>1. timestamp' \in 0..(StampMod - 1) /\ up' \in BOOLEAN
  BY TickType DEF IInv
<1>2. /\ entries'[v] = [block_num |-> b, data |-> d, last_used |-> timestamp',
                        dirty |-> dirty, valid |-> TRUE]
      /\ \A i \in Entries : i # v => entries'[i] = entries[i]
  BY DEF IInv, TypeOK
<1>3. TypeOK'
  BY <1>1, <1>2, ContentsInBuffer DEF IInv, TypeOK
<1>4. NoAlias'
  BY <1>2 DEF IInv, NoAlias, Hit
<1>5. CleanIsCopy'
  <2> SUFFICES ASSUME NEW i \in Entries,
                      entries'[i].valid, ~entries'[i].dirty, i \notin torn'
               PROVE  entries'[i].data = disk'[entries'[i].block_num]
    BY DEF CleanIsCopy
  <2>1. CASE i = v
    BY <1>2, <2>1
  <2>2. CASE i # v
    <3>1. entries[i].block_num \in Blocks /\ entries[v].block_num \in Blocks
      BY DEF IInv, TypeOK
    <3>2. ~(MustWriteBack(v) /\ entries[v].block_num = entries[i].block_num)
      BY <1>2, <2>2, <3>1 DEF IInv, NoAlias, Hit, MustWriteBack
    <3>3. QED
      BY <1>2, <2>2, <3>1, <3>2 DEF IInv, CleanIsCopy
  <2>3. QED
    BY <2>1, <2>2
<1>6. DirtyUnsynced'
  BY <1>2 DEF IInv, DirtyUnsynced, MustWriteBack
<1>7. TornIsClean'
  BY <1>2 DEF IInv, TornIsClean
<1>8. QED
  BY <1>3, <1>4, <1>5, <1>6, <1>7 DEF IInv

LEMMA ReadHitIInv ==
  ASSUME IInv, Tick, NEW b \in Blocks, ReadHit(b)
  PROVE  IInv'
<1> DEFINE i == Lookup(b)
<1>1. i \in Entries
  BY LookupHit DEF ReadHit, IInv
<1> HIDE DEF i
<1>2. timestamp' \in 0..(StampMod - 1) /\ up' \in BOOLEAN
  BY TickType DEF IInv
<1>3. entries' = [entries EXCEPT ![i].last_used = timestamp']
  BY DEF ReadHit, i
<1>4. disk' = disk /\ synced' = synced /\ torn' = torn
  BY DEF ReadHit
<1>5. \A j \in Entries : /\ entries'[j].block_num = entries[j].block_num
                         /\ entries'[j].data = entries[j].data
                         /\ entries'[j].dirty = entries[j].dirty
                         /\ entries'[j].valid = entries[j].valid
  BY <1>1, <1>3 DEF IInv, TypeOK
<1>6. TypeOK'
  BY <1>1, <1>2, <1>3, <1>4, <1>5 DEF IInv, TypeOK
<1>7. NoAlias' /\ CleanIsCopy' /\ DirtyUnsynced' /\ TornIsClean'
  BY <1>4, <1>5 DEF IInv, NoAlias, CleanIsCopy, TornIsClean, DirtyUnsynced,
                    MustWriteBack, Hit
<1>8. QED
  BY <1>6, <1>7 DEF IInv

\* A miss whose read breaks off.
LEMMA ReadFailsIInv ==
  ASSUME IInv, Tick, NEW b \in Blocks, NEW v \in Entries, v = find_lru_entry,
         NEW m \in Extents(TRUE), NEW n \in 0..SectorsPerBlock,
         Evict(b, m), ReadFails(v, b, m, n), synced' = synced
  PROVE  IInv'
<1> DEFINE data == Transfer(n, disk'[b], entries[v].data)
<1>1. /\ disk' \in [Blocks -> Contents]
      /\ \A c \in Blocks :
           ~(MustWriteBack(v) /\ entries[v].block_num = c) => disk'[c] = disk[c]
  BY EvictEffect
<1>2. entries[v] \in [block_num : Blocks, data : Buffer,
        last_used : 0..(StampMod - 1), dirty : BOOLEAN, valid : BOOLEAN]
  BY DEF IInv, TypeOK
<1>3. data \in Buffer /\ (entries[v].valid => data \in Contents)
  <2>1. disk'[b] \in Contents /\ entries[v].data \in Buffer
    BY <1>1, <1>2
  <2>2. entries[v].valid => entries[v].data \in Contents
    BY DEF IInv, TypeOK
  <2>3. QED
    BY <2>1, <2>2 DEF Transfer, Buffer, Contents
<1>4. entries' = [entries EXCEPT ![v] =
        Filled(entries[v], data, entries[v].last_used, FALSE)]
  BY DEF ReadFails
<1> HIDE DEF data
<1>5. /\ entries'[v] = [block_num |-> entries[v].block_num, data |-> data,
           last_used |-> entries[v].last_used, dirty |-> FALSE,
           valid |-> entries[v].valid]
      /\ \A i \in Entries : i # v => entries'[i] = entries[i]
      /\ DOMAIN entries' = Entries
  BY <1>4 DEF IInv, TypeOK, Filled
<1>6. torn' = IF entries[v].valid /\ (n > 0 \/ (MustWriteBack(v) /\ m < SectorsPerBlock))
               THEN torn \union {v} ELSE torn
  BY DEF ReadFails
<1>7. timestamp' \in 0..(StampMod - 1) /\ up' \in BOOLEAN
  BY TickType DEF IInv
<1>8. TypeOK'
  <2>3. entries' \in [Entries -> [block_num : Blocks, data : Buffer,
          last_used : 0..(StampMod - 1), dirty : BOOLEAN, valid : BOOLEAN]]
    BY <1>2, <1>3, <1>4 DEF IInv, TypeOK, Filled
  <2>4. \A i \in Entries : entries'[i].valid => entries'[i].data \in Contents
    BY <1>3, <1>5 DEF IInv, TypeOK
  <2>5. QED
    BY <1>1, <1>7, <2>3, <2>4 DEF IInv, TypeOK
<1>9. NoAlias'
  BY <1>5 DEF IInv, NoAlias, Hit
<1>10. CleanIsCopy'
  <2> SUFFICES ASSUME NEW i \in Entries,
                      entries'[i].valid, ~entries'[i].dirty, i \notin torn'
               PROVE  entries'[i].data = disk'[entries'[i].block_num]
    BY DEF CleanIsCopy
  <2>1. CASE i = v
    <3>1. /\ entries[v].valid /\ v \notin torn /\ ~(n > 0)
          /\ ~(MustWriteBack(v) /\ m < SectorsPerBlock)
      BY <1>5, <1>6, <2>1
    <3>2. n = 0
      BY <3>1
    <3>3. MustWriteBack(v) => m = SectorsPerBlock
      <4>1. m \in 0..SectorsPerBlock
        BY ExtentBounds
      <4>2. QED
        BY <3>1, <4>1
    <3>4. data = entries[v].data
      BY <1>2, <3>2, TransferNone DEF data
    <3>5. disk'[entries[v].block_num] = entries[v].data
      BY <3>1, <3>3, EvictWrites
    <3>6. QED
      BY <1>5, <2>1, <3>4, <3>5
  <2>2. CASE i # v
    <3>1. entries[i].block_num \in Blocks
      BY DEF IInv, TypeOK
    <3>2. ~(MustWriteBack(v) /\ entries[v].block_num = entries[i].block_num)
      BY <1>2, <1>5, <2>2, <3>1 DEF IInv, NoAlias, Hit, MustWriteBack
    <3>3. i \notin torn
      BY <1>6
    <3>4. QED
      BY <1>1, <1>5, <2>2, <3>1, <3>2, <3>3 DEF IInv, CleanIsCopy
  <2>3. QED
    BY <2>1, <2>2
<1>11. DirtyUnsynced'
  BY <1>5 DEF IInv, DirtyUnsynced, MustWriteBack
<1>12. TornIsClean'
  <2> SUFFICES ASSUME NEW i \in torn'
               PROVE  i \in Entries /\ entries'[i].valid /\ ~entries'[i].dirty
    BY DEF TornIsClean
  <2>1. CASE i = v
    <3>1. entries[v].valid
      BY <1>6, <2>1 DEF IInv, TornIsClean
    <3>2. QED
      BY <1>5, <2>1, <3>1
  <2>2. CASE i # v
    <3>1. i \in torn
      BY <1>6, <2>2
    <3>2. QED
      BY <1>5, <2>2, <3>1 DEF IInv, TornIsClean
  <2>3. QED
    BY <2>1, <2>2
<1>13. QED
  BY <1>8, <1>9, <1>10, <1>11, <1>12 DEF IInv

LEMMA ReadMissIInv ==
  ASSUME IInv, Tick, NEW b \in Blocks, ReadMiss(b)
  PROVE  IInv'
<1> DEFINE v == find_lru_entry
<1>1. PICK m \in Extents(TRUE), n \in ReadExtents :
        /\ Evict(b, m)
        /\ IF n = SectorsPerBlock THEN ReadFills(v, b) ELSE ReadFails(v, b, m, n)
        /\ synced' = synced
  BY DEF ReadMiss
<1>2. /\ ~Cached(b)
      /\ v \in Entries
      /\ disk' \in [Blocks -> Contents]
      /\ \A c \in Blocks :
           ~(MustWriteBack(v) /\ entries[v].block_num = c) => disk'[c] = disk[c]
  BY <1>1, EvictEffect
<1>3. CASE n = SectorsPerBlock
  <2>1. disk'[b] \in Contents
    BY <1>2
  <2>2. /\ entries' = [entries EXCEPT ![v] =
             [block_num |-> b, data |-> disk'[b], last_used |-> timestamp',
              dirty |-> FALSE, valid |-> TRUE]]
        /\ torn' = torn \ {v}
    BY <1>1, <1>3 DEF ReadFills
  <2> HIDE DEF v
  <2>3. \A i \in Entries : i # v => ~Hit(i, b)
    BY <1>2 DEF Cached
  <2>4. QED
    BY <1>1, <1>2, <2>1, <2>2, <2>3, ReplaceIInv
<1>4. CASE n # SectorsPerBlock
  <2>1. n \in 0..SectorsPerBlock
    BY ExtentBounds
  <2>2. QED
    BY <1>1, <1>2, <1>4, <2>1, ReadFailsIInv
<1>5. QED
  BY <1>3, <1>4

LEMMA WriteIInv ==
  ASSUME IInv, NEW b \in Blocks, NEW d \in Payloads, block_cache_write(b, d)
  PROVE  IInv'
<1>1. Tick /\ d \in Contents
  BY PayloadsInContents DEF block_cache_write
<1>2. CASE WriteHit(b, d) /\ synced' = synced \ {b}
  <2> DEFINE i == Lookup(b)
  <2>1. i \in Entries /\ Hit(i, b)
    BY <1>2, LookupHit DEF WriteHit, IInv
  <2>2. entries' = [entries EXCEPT ![i] =
          Filled(@, d, timestamp', TRUE)]
    BY <1>2 DEF WriteHit
  <2>3. disk' = disk /\ torn' = torn \ {i} /\ disk \in [Blocks -> Contents]
    BY <1>2 DEF WriteHit, IInv, TypeOK
  <2> HIDE DEF i
  <2>4. entries' = [entries EXCEPT ![i] =
          [block_num |-> b, data |-> d, last_used |-> timestamp',
           dirty |-> TRUE, valid |-> TRUE]]
    <3>1. entries[i] \in [block_num : Blocks, data : Buffer,
            last_used : 0..(StampMod - 1), dirty : BOOLEAN, valid : BOOLEAN]
      BY <2>1 DEF IInv, TypeOK
    <3>2. entries[i].block_num = b /\ entries[i].valid = TRUE
      BY <2>1, <3>1 DEF Hit
    <3>3. QED
      BY <2>1, <2>2, <3>2 DEF Filled, IInv, TypeOK
  <2>5. \A j \in Entries : j # i => ~Hit(j, b)
    BY <2>1 DEF IInv, NoAlias
  <2>6. QED
    BY <1>1, <1>2, <2>1, <2>3, <2>4, <2>5, ReplaceIInv
<1>3. CASE WriteMiss(b, d) /\ synced' = synced \ {b}
  <2> DEFINE v == find_lru_entry
  <2>1. /\ ~Cached(b)
        /\ v \in Entries
        /\ disk' \in [Blocks -> Contents]
        /\ \A c \in Blocks :
             ~(MustWriteBack(v) /\ entries[v].block_num = c) => disk'[c] = disk[c]
    BY <1>3, EvictEffect DEF WriteMiss
  <2>2. /\ entries' = [entries EXCEPT ![v] =
             [block_num |-> b, data |-> d, last_used |-> timestamp',
              dirty |-> TRUE, valid |-> TRUE]]
        /\ torn' = torn \ {v}
    BY <1>3 DEF WriteMiss
  <2> HIDE DEF v
  <2>3. \A i \in Entries : i # v => ~Hit(i, b)
    BY <2>1 DEF Cached
  <2>4. QED
    BY <1>1, <1>3, <2>1, <2>2, <2>3, ReplaceIInv
<1>4. QED
  BY <1>1, <1>2, <1>3, NoVictimIInv, WriteBackFailsIInv DEF block_cache_write

\* What a flush leaves behind: an entry before stop is on the disk, unless its
\* last sector was lost, and a block that is not cached dirty is as it was.
LEMMA FlushEffect ==
  ASSUME IInv, NEW stop \in 1..(NumEntries + 1), NEW ext \in FlushExtents(stop),
         FlushStops(stop, ext)
  PROVE  /\ disk' \in [Blocks -> Contents]
         /\ \A i \in Entries :
              MustWriteBack(i) /\ i < stop /\ i \notin FlushedShort(stop, ext)
              => disk'[entries[i].block_num] = entries[i].data
         /\ \A c \in Blocks :
              ~(\E i \in Entries : MustWriteBack(i) /\ entries[i].block_num = c)
              => disk'[c] = disk[c]
<1>1. disk' = FlushedDisk(stop, ext)
  BY DEF FlushStops
<1> DEFINE moved(c) == {i \in Entries : MustWriteBack(i) /\ i <= stop /\ Hit(i, c)}
           from(c) == CHOOSE i \in moved(c) : TRUE
           after(c) == IF moved(c) = {} THEN disk[c]
                       ELSE Transfer(ext[from(c)], entries[from(c)].data, disk[c])
<1>2. disk' = [c \in Blocks |-> after(c)]
  BY <1>1 DEF FlushedDisk
<1>3. \A c \in Blocks : after(c) \in Contents
  <2> SUFFICES ASSUME NEW c \in Blocks PROVE after(c) \in Contents
    OBVIOUS
  <2>1. disk[c] \in Contents
    BY DEF IInv, TypeOK
  <2>2. CASE moved(c) # {}
    <3>1. from(c) \in moved(c)
      BY <2>2
    <3> HIDE DEF from
    <3>2. entries[from(c)].data \in Contents
      BY <3>1 DEF IInv, TypeOK, Hit
    <3>3. QED
      BY <2>1, <2>2, <3>2, TransferType
  <2>3. QED
    BY <2>1, <2>2
<1>4. ASSUME NEW i \in Entries, MustWriteBack(i), i < stop,
             i \notin FlushedShort(stop, ext)
      PROVE  disk'[entries[i].block_num] = entries[i].data
  <2> DEFINE c == entries[i].block_num
  <2>1. c \in Blocks /\ entries[i].data \in Contents
    BY <1>4 DEF IInv, TypeOK, MustWriteBack
  <2>2. moved(c) = {i}
    BY <1>4, <2>1 DEF IInv, NoAlias, Hit, MustWriteBack, Entries
  <2>3. from(c) = i
    BY <2>2
  <2>4. ext[i] = SectorsPerBlock
    <3>1. ext[i] \in 0..SectorsPerBlock
      BY DEF FlushExtents
    <3>2. ~(ext[i] < SectorsPerBlock)
      BY <1>4 DEF FlushedShort
    <3>3. QED
      BY <3>1, <3>2
  <2>5. after(c) = Transfer(SectorsPerBlock, entries[i].data, disk[c])
    BY <2>2, <2>3, <2>4
  <2>6. after(c) = entries[i].data
    BY <2>1, <2>5, TransferAll, ContentsInBuffer
  <2> HIDE DEF after, c
  <2>7. QED
    BY <1>2, <2>1, <2>6 DEF c
<1>5. ASSUME NEW c \in Blocks,
             ~(\E i \in Entries : MustWriteBack(i) /\ entries[i].block_num = c)
      PROVE  disk'[c] = disk[c]
  <2>1. moved(c) = {}
    BY <1>5 DEF Hit
  <2>2. after(c) = disk[c]
    BY <2>1
  <2> HIDE DEF after
  <2>3. QED
    BY <1>2, <2>2
<1> HIDE DEF after
<1>6. disk' \in [Blocks -> Contents]
  BY <1>2, <1>3
<1>7. QED
  BY <1>4, <1>5, <1>6

LEMMA FlushIInv ==
  ASSUME IInv, block_cache_flush
  PROVE  IInv'
<1>1. PICK stop \in 1..(NumEntries + 1) : \E ext \in FlushExtents(stop) :
        /\ FlushStops(stop, ext)
        /\ entries' = FlushedEntries(stop)
        /\ torn' = torn \union FlushedShort(stop, ext)
  BY DEF block_cache_flush
<1>2. up' = up /\ timestamp' = timestamp
  BY DEF block_cache_flush
<1>a. PICK ext \in FlushExtents(stop) :
        /\ FlushStops(stop, ext)
        /\ torn' = torn \union FlushedShort(stop, ext)
  BY <1>1
<1>3. /\ disk' \in [Blocks -> Contents]
      /\ \A i \in Entries :
           MustWriteBack(i) /\ i < stop /\ i \notin FlushedShort(stop, ext)
           => disk'[entries[i].block_num] = entries[i].data
      /\ \A c \in Blocks :
           ~(\E i \in Entries : MustWriteBack(i) /\ entries[i].block_num = c)
           => disk'[c] = disk[c]
  BY <1>a, FlushEffect
<1>4. synced' = IF stop \in Entries THEN synced ELSE Blocks
  BY <1>a DEF FlushStops
<1>5. \A i \in Entries :
        entries'[i] = IF MustWriteBack(i) /\ i < stop
                        THEN [entries[i] EXCEPT !.dirty = FALSE] ELSE entries[i]
  BY <1>1 DEF FlushedEntries
<1>6. \A i \in Entries : entries[i] \in [block_num : Blocks, data : Buffer,
        last_used : 0..(StampMod - 1), dirty : BOOLEAN, valid : BOOLEAN]
  BY DEF IInv, TypeOK
<1>7. \A i \in Entries : /\ entries'[i].block_num = entries[i].block_num
                         /\ entries'[i].data = entries[i].data
                         /\ entries'[i].valid = entries[i].valid
                         /\ ~entries'[i].dirty =>
                              ~entries[i].dirty \/ (MustWriteBack(i) /\ i < stop)
                         /\ entries'[i].dirty =>
                              entries[i].dirty /\ ~(MustWriteBack(i) /\ i < stop)
  BY <1>5, <1>6
<1>8. TypeOK'
  <2>1. \A i \in Entries : entries'[i] \in [block_num : Blocks, data : Buffer,
          last_used : 0..(StampMod - 1), dirty : BOOLEAN, valid : BOOLEAN]
    BY <1>5, <1>6
  <2>2. entries' \in [Entries -> [block_num : Blocks, data : Buffer,
          last_used : 0..(StampMod - 1), dirty : BOOLEAN, valid : BOOLEAN]]
    BY <1>1, <2>1 DEF FlushedEntries
  <2>3. QED
    BY <1>2, <1>3, <1>4, <1>7, <2>2 DEF IInv, TypeOK
<1>9. NoAlias'
  BY <1>7 DEF IInv, NoAlias, Hit
<1>10. CleanIsCopy'
  <2> SUFFICES ASSUME NEW i \in Entries, entries'[i].valid, ~entries'[i].dirty,
                      i \notin torn'
               PROVE  entries'[i].data = disk'[entries'[i].block_num]
    BY DEF CleanIsCopy
  <2>0. i \notin torn /\ i \notin FlushedShort(stop, ext)
    BY <1>a
  <2>1. CASE MustWriteBack(i)
    BY <1>3, <1>7, <2>0, <2>1 DEF MustWriteBack
  <2>2. CASE ~MustWriteBack(i)
    <3>1. entries[i].valid /\ ~entries[i].dirty /\ entries[i].block_num \in Blocks
      BY <1>6, <1>7, <2>2 DEF MustWriteBack
    <3>2. ~(\E j \in Entries : MustWriteBack(j)
                               /\ entries[j].block_num = entries[i].block_num)
      BY <2>2, <3>1 DEF IInv, NoAlias, Hit, MustWriteBack
    <3>3. QED
      BY <1>3, <1>7, <2>0, <3>1, <3>2 DEF IInv, CleanIsCopy
  <2>3. QED
    BY <2>1, <2>2
<1>11. DirtyUnsynced'
  <2>1. CASE stop \in Entries
    BY <1>4, <1>7, <2>1 DEF IInv, DirtyUnsynced, MustWriteBack
  <2>2. CASE stop \notin Entries
    <3>1. \A i \in Entries : i < stop
      BY <2>2 DEF Entries
    <3>2. QED
      BY <1>7, <3>1 DEF DirtyUnsynced, MustWriteBack
  <2>3. QED
    BY <2>1, <2>2
<1>12. TornIsClean'
  <2> SUFFICES ASSUME NEW i \in torn'
               PROVE  i \in Entries /\ entries'[i].valid /\ ~entries'[i].dirty
    BY DEF TornIsClean
  <2>1. CASE i \in torn
    BY <1>7, <2>1 DEF IInv, TornIsClean
  <2>2. CASE i \in FlushedShort(stop, ext)
    <3>1. i \in Entries /\ MustWriteBack(i) /\ i < stop
      BY <2>2 DEF FlushedShort
    <3>2. QED
      BY <1>7, <3>1 DEF MustWriteBack
  <2>3. QED
    BY <1>a, <2>1, <2>2
<1>13. QED
  BY <1>8, <1>9, <1>10, <1>11, <1>12 DEF IInv

\* After a power loss, a destroy and an init the cache is empty.
LEMMA EmptyIInv ==
  ASSUME IInv, up' \in BOOLEAN, entries' = [i \in Entries |-> FreshEntry],
         timestamp' = 0, disk' \in [Blocks -> Contents],
         synced' \in SUBSET Blocks, torn' = {}
  PROVE  IInv'
<1>1. [s \in Sectors |-> Uninit] \in Buffer
  BY DEF Buffer
<1>2. FreshEntry \in [block_num : Blocks, data : Buffer,
        last_used : 0..(StampMod - 1), dirty : BOOLEAN, valid : BOOLEAN]
  BY <1>1, BlockAssumption DEF FreshEntry
<1>3. ~FreshEntry.valid
  BY DEF FreshEntry
<1>4. \A i \in Entries : ~entries'[i].valid
  BY <1>3
<1>5. TypeOK'
  BY <1>2, <1>4 DEF TypeOK
<1>6. QED
  BY <1>4, <1>5
     DEF IInv, NoAlias, CleanIsCopy, TornIsClean, DirtyUnsynced, MustWriteBack, Hit

\* Every step of the cache, its clients, the drive and the power preserves
\* the inductive invariant.
LEMMA NextIInv ==
  ASSUME IInv, [Next]_vars
  PROVE  IInv'
<1>1. CASE block_cache_init
  BY <1>1, EmptyIInv DEF block_cache_init, IInv, TypeOK
<1>2. ASSUME NEW b \in Blocks, block_cache_read(b) PROVE IInv'
  BY <1>2, ReadHitIInv, NoVictimIInv, WriteBackFailsIInv, ReadMissIInv
     DEF block_cache_read
<1>3. ASSUME NEW b \in Blocks, NEW d \in Payloads, block_cache_write(b, d)
      PROVE  IInv'
  BY <1>3, WriteIInv
<1>4. CASE block_cache_flush
  BY <1>4, FlushIInv
<1>5. CASE block_cache_destroy
  <2>1. PICK stop \in 1..(NumEntries + 1) : \E ext \in FlushExtents(stop) :
          FlushStops(stop, ext)
    BY <1>5 DEF block_cache_destroy
  <2>2. disk' \in [Blocks -> Contents]
    BY <2>1, FlushEffect
  <2>3. synced' \in SUBSET Blocks
    BY <2>1 DEF FlushStops, IInv, TypeOK
  <2>4. QED
    BY <1>5, <2>2, <2>3, EmptyIInv DEF block_cache_destroy, Forget
<1>6. CASE PowerLoss
  BY <1>6, EmptyIInv DEF PowerLoss, Forget, IInv, TypeOK
<1>7. CASE UNCHANGED vars
  BY <1>7 DEF vars, IInv, TypeOK, NoAlias, CleanIsCopy, TornIsClean,
              DirtyUnsynced, MustWriteBack, Hit
<1>8. QED
  BY <1>1, <1>2, <1>3, <1>4, <1>5, <1>6, <1>7 DEF Next

\* The cache never holds a block twice, never holds bytes fresh from kmalloc in
\* a valid entry, and what it holds clean is on the disk unless a transfer for
\* that entry was cut short, for every disk, every number of entries and every
\* fault of the drive.
THEOREM CacheInvariant == Spec => []IInv
<1>1. IInv /\ [Next]_vars => IInv'
  BY NextIInv
<1>2. QED
  BY InitIInv, <1>1, PTL DEF Spec

\* Lookup, hit and view agree: the view of a block is its entry's data, unless
\* that entry is torn; the view of any other block is the disk.
LEMMA ViewOf ==
  ASSUME NoAlias, NEW b \in Blocks
  PROVE  /\ \A i \in Entries : Hit(i, b) =>
              View(b) = IF i \in torn THEN disk[b] ELSE entries[i].data
         /\ ~Cached(b) => View(b) = disk[b]
<1>1. ASSUME NEW i \in Entries, Hit(i, b)
      PROVE  View(b) = IF i \in torn THEN disk[b] ELSE entries[i].data
  <2>1. Cached(b)
    BY <1>1 DEF Cached
  <2>2. Lookup(b) = i
    BY <1>1, <2>1, LookupHit DEF NoAlias
  <2>3. QED
    BY <2>1, <2>2 DEF View
<1>2. QED
  BY <1>1 DEF View

LEMMA IInvImpliesSynced == IInv => SyncedOnDisk
<1> SUFFICES ASSUME IInv, NEW b \in synced PROVE disk[b] = View(b)
  BY DEF SyncedOnDisk
<1>1. b \in Blocks /\ NoAlias
  BY DEF IInv, TypeOK
<1>2. CASE Cached(b)
  <2>1. PICK i \in Entries : Hit(i, b)
    BY <1>2 DEF Cached
  <2>2. i \in torn \/ entries[i].data = disk[b]
    BY <2>1 DEF IInv, CleanIsCopy, DirtyUnsynced, MustWriteBack, Hit
  <2>3. QED
    BY <1>1, <2>1, <2>2, ViewOf
<1>3. CASE ~Cached(b)
  BY <1>1, <1>3, ViewOf
<1>4. QED
  BY <1>2, <1>3

\* What a successful flush made durable stays on the disk until it is written
\* again, whatever fails and whenever the power goes.  A block whose last
\* sector the drive lost silently (ata.c:324) counts as what is on the disk.
THEOREM FlushedStaysOnDisk == Spec => []SyncedOnDisk
<1>1. Spec => []IInv
  BY CacheInvariant
<1>2. QED
  BY <1>1, IInvImpliesSynced, PTL

\* No block is ever held by two entries.
THEOREM NeverTwoCopies == Spec => []NoAlias
<1>1. IInv => NoAlias
  BY DEF IInv
<1>2. QED
  BY <1>1, CacheInvariant, PTL

-----------------------------------------------------------------------------
(* The cache implements the block store.                                   *)

LEMMA ViewOfNext ==
  ASSUME NoAlias', NEW b \in Blocks
  PROVE  /\ \A i \in Entries :
              entries'[i].valid /\ entries'[i].block_num = b
                => View(b)' = IF i \in torn' THEN disk'[b] ELSE entries'[i].data
         /\ ~Cached(b)' => View(b)' = disk'[b]
<1>1. ASSUME NEW i \in Entries, Hit(i, b)'
      PROVE  View(b)' = IF i \in torn' THEN disk'[b] ELSE entries'[i].data
  <2>1. Cached(b)'
    BY <1>1 DEF Cached
  <2>2. \A j \in Entries : Hit(j, b)' => i <= j
    BY <1>1 DEF NoAlias, Entries
  <2>3. Lookup(b)' \in Entries /\ Hit(Lookup(b), b)'
    BY <1>1, <2>2 DEF Lookup, Hit
  <2>4. Lookup(b)' = i
    BY <1>1, <2>3 DEF NoAlias, Hit
  <2>5. QED
    BY <2>1, <2>4 DEF View
<1>2. QED
  BY <1>1 DEF View, Hit

LEMMA ViewContents ==
  ASSUME IInv
  PROVE  ViewMap \in [Blocks -> Contents]
<1> SUFFICES ASSUME NEW b \in Blocks PROVE View(b) \in Contents
  BY DEF ViewMap
<1>0. disk[b] \in Contents
  BY DEF IInv, TypeOK
<1>1. CASE Cached(b)
  <2>1. PICK i \in Entries : Hit(i, b)
    BY <1>1 DEF Cached
  <2>2. entries[i].data \in Contents
    BY <2>1 DEF IInv, TypeOK, Hit
  <2>3. View(b) = IF i \in torn THEN disk[b] ELSE entries[i].data
    BY <2>1, ViewOf DEF IInv
  <2>4. QED
    BY <1>0, <2>2, <2>3
<1>2. CASE ~Cached(b)
  BY <1>0, <1>2, ViewOf DEF IInv
<1>3. QED
  BY <1>1, <1>2

\* The block of an entry that is dirty, or holds its block, is seen in it.
Holds(i) == entries[i].valid /\ i \notin torn

\* A step that keeps every entry's block shows clients nothing if each entry
\* that held its block still does, with the same data, or leaves it on the
\* disk, and the disk changes only below the entries that held their block.
LEMMA SameView ==
  ASSUME IInv, IInv',
         \A i \in Entries : /\ entries'[i].valid = entries[i].valid
                            /\ entries'[i].block_num = entries[i].block_num,
         \A i \in Entries : Holds(i) =>
           \/ i \notin torn' /\ entries'[i].data = entries[i].data
           \/ i \in torn' /\ disk'[entries[i].block_num] = entries[i].data,
         torn \subseteq torn',
         \A b \in Blocks : ~(\E i \in Entries : Holds(i) /\ entries[i].block_num = b)
                           => disk'[b] = disk[b]
  PROVE  ViewMap' = ViewMap
<1> SUFFICES ASSUME NEW b \in Blocks PROVE View(b)' = View(b)
  BY DEF ViewMap
<1>1. CASE Cached(b)
  <2>1. PICK i \in Entries : Hit(i, b)
    BY <1>1 DEF Cached
  <2>2. /\ View(b) = IF i \in torn THEN disk[b] ELSE entries[i].data
        /\ View(b)' = IF i \in torn' THEN disk'[b] ELSE entries'[i].data
    BY <2>1, ViewOf, ViewOfNext DEF Hit, IInv
  <2>3. CASE i \in torn
    <3>1. ~(\E j \in Entries : Holds(j) /\ entries[j].block_num = b)
      BY <2>1, <2>3 DEF Holds, Hit, IInv, NoAlias
    <3>2. QED
      BY <2>2, <2>3, <3>1
  <2>4. CASE i \notin torn
    <3>1. Holds(i) /\ entries[i].block_num = b
      BY <2>1, <2>4 DEF Holds, Hit
    <3>2. QED
      BY <2>2, <2>4, <3>1
  <2>5. QED
    BY <2>3, <2>4
<1>2. CASE ~Cached(b)
  <2>1. ~Cached(b)'
    BY <1>2 DEF Cached, Hit
  <2>2. View(b) = disk[b] /\ View(b)' = disk'[b]
    BY <1>2, <2>1, ViewOf, ViewOfNext DEF IInv
  <2>3. disk'[b] = disk[b]
    BY <1>2 DEF Cached, Hit, Holds
  <2>4. QED
    BY <2>2, <2>3
<1>3. QED
  BY <1>1, <1>2

\* Entry v gives up its block, which is on the disk by then, and takes b.
LEMMA ReplaceView ==
  ASSUME IInv, IInv', NEW b \in Blocks, NEW v \in Entries, NEW d,
         \A i \in Entries : i # v => entries'[i] = entries[i],
         entries'[v].valid, entries'[v].block_num = b, entries'[v].data = d,
         torn' = torn \ {v},
         Holds(v) /\ entries[v].block_num # b
           => disk'[entries[v].block_num] = entries[v].data,
         \A c \in Blocks : ~(MustWriteBack(v) /\ entries[v].block_num = c)
                           => disk'[c] = disk[c]
  PROVE  ViewMap' = [ViewMap EXCEPT ![b] = d]
<1> SUFFICES ASSUME NEW c \in Blocks
             PROVE  View(c)' = IF c = b THEN d ELSE View(c)
  BY DEF ViewMap
<1>1. CASE c = b
  BY <1>1, ViewOfNext DEF IInv
<1>2. CASE c # b /\ Cached(c)
  <2>1. PICK i \in Entries : Hit(i, c)
    BY <1>2 DEF Cached
  <2>2. View(c) = IF i \in torn THEN disk[c] ELSE entries[i].data
    BY <2>1, ViewOf DEF IInv
  <2>3. CASE i = v
    <3>1. ~Cached(c)'
      <4> SUFFICES ASSUME NEW j \in Entries, Hit(j, c)' PROVE FALSE
        BY DEF Cached
      <4>1. j # v
        BY <1>2 DEF Hit
      <4>2. Hit(j, c)
        BY <4>1 DEF Hit
      <4>3. QED
        BY <2>1, <2>3, <4>1, <4>2 DEF IInv, NoAlias
    <3>2. CASE v \in torn
      <4>1. ~MustWriteBack(v)
        BY <3>2 DEF IInv, TornIsClean, MustWriteBack
      <4>2. QED
        BY <1>2, <2>2, <2>3, <3>1, <3>2, <4>1, ViewOfNext DEF IInv
    <3>3. CASE v \notin torn
      <4>1. disk'[c] = entries[v].data
        BY <1>2, <2>1, <2>3, <3>3 DEF Hit, Holds
      <4>2. QED
        BY <1>2, <2>2, <2>3, <3>1, <3>3, <4>1, ViewOfNext DEF IInv
    <3>4. QED
      BY <3>2, <3>3
  <2>4. CASE i # v
    <3>1. View(c)' = IF i \in torn' THEN disk'[c] ELSE entries'[i].data
      BY <2>1, <2>4, ViewOfNext DEF IInv, Hit
    <3>2. ~(MustWriteBack(v) /\ entries[v].block_num = c)
      BY <2>1, <2>4 DEF IInv, NoAlias, Hit, MustWriteBack
    <3>3. QED
      BY <1>2, <2>2, <2>4, <3>1, <3>2
  <2>5. QED
    BY <2>3, <2>4
<1>3. CASE c # b /\ ~Cached(c)
  <2>1. ~Cached(c)'
    BY <1>3 DEF Cached, Hit
  <2>2. View(c) = disk[c] /\ View(c)' = disk'[c]
    BY <1>3, <2>1, ViewOf, ViewOfNext DEF IInv
  <2>3. ~(MustWriteBack(v) /\ entries[v].block_num = c)
    BY <1>3 DEF Cached, Hit, MustWriteBack
  <2>4. QED
    BY <1>3, <2>2, <2>3
<1>4. QED
  BY <1>1, <1>2, <1>3

LEMMA InitStore == Init => Store!Init
<1> SUFFICES ASSUME Init PROVE Store!Init
  OBVIOUS
<1>1. ViewMap \in [Blocks -> Contents]
  BY InitIInv, ViewContents
<1>2. QED
  BY <1>1 DEF Init, Store!Init, Done, Store!Done, Spoiled

\* A refused call is a failure of the store.
LEMMA FailStore ==
  ASSUME ViewMap' = ViewMap, synced' = synced, Spoiled' = Spoiled,
         NEW op \in {"read", "write", "flush"}, result' = Failed(op)
  PROVE  Store!Next
BY DEF Store!Next, Store!Fail, Store!Failed, Failed

\* Entries that are as they were spoil what they spoiled.
LEMMA SameSpoiled ==
  ASSUME IInv, torn' = torn,
         \A i \in Entries : entries'[i].block_num = entries[i].block_num
  PROVE  Spoiled' = Spoiled
BY DEF Spoiled, IInv, TornIsClean

\* An entry that is refilled spoils nothing, the others what they spoiled.
LEMMA LessSpoiled ==
  ASSUME IInv, NEW v \in Entries, torn' = torn \ {v},
         \A i \in Entries : i # v => entries'[i] = entries[i]
  PROVE  /\ Spoiled' \in SUBSET Spoiled
         /\ \A b \in Blocks : (\A i \in Entries : i # v => ~Hit(i, b))
                               => b \notin Spoiled'
<1>1. \A i \in torn' : i \in torn /\ i \in Entries /\ i # v /\ entries'[i] = entries[i]
  BY DEF IInv, TornIsClean
<1>2. Spoiled' \in SUBSET Spoiled
  BY <1>1 DEF Spoiled
<1>3. \A i \in torn' : Hit(i, entries'[i].block_num)
  BY <1>1 DEF IInv, TornIsClean, Hit
<1>4. QED
  BY <1>1, <1>2, <1>3 DEF Spoiled

LEMMA WriteBackFailsStore ==
  ASSUME IInv, IInv', NEW b \in Blocks, NEW op \in {"read", "write"},
         WriteBackFails(op, b) \/ NoVictim(op, b)
  PROVE  Store!Next
<1>1. result' = Failed(op) /\ entries' = entries /\ synced' = synced /\ torn' = torn
  BY DEF WriteBackFails, NoVictim, Refuse
<1>2. \A c \in Blocks : ~(\E i \in Entries : Holds(i) /\ entries[i].block_num = c)
                        => disk'[c] = disk[c]
  <2>1. CASE NoVictim(op, b)
    BY <2>1 DEF NoVictim
  <2>2. CASE WriteBackFails(op, b)
    <3> DEFINE v == find_lru_entry
    <3>1. v \in Entries /\ MustWriteBack(v)
      BY <2>2, LruType DEF WriteBackFails, IInv
    <3>2. PICK n : disk' = WrittenBack(v, n)
      BY <2>2 DEF WriteBackFails
    <3> HIDE DEF v
    <3>3. Holds(v)
      BY <3>1 DEF Holds, MustWriteBack, IInv, TornIsClean
    <3>4. QED
      BY <3>1, <3>2, <3>3 DEF WrittenBack, IInv, TypeOK
  <2>3. QED
    BY <2>1, <2>2
<1>3. ViewMap' = ViewMap
  BY <1>1, <1>2, SameView DEF Holds
<1>4. Spoiled' = Spoiled
  BY <1>1, SameSpoiled
<1>5. QED
  BY <1>1, <1>3, <1>4, FailStore

LEMMA ReadHitStore ==
  ASSUME IInv, IInv', NEW b \in Blocks, ReadHit(b)
  PROVE  Store!Next
<1> DEFINE i == Lookup(b)
<1>1. i \in Entries /\ Hit(i, b)
  BY LookupHit DEF ReadHit, IInv
<1>2. entries' = [entries EXCEPT ![i].last_used = timestamp']
  BY DEF ReadHit
<1>3. disk' = disk /\ synced' = synced /\ torn' = torn
        /\ result' = ReadDone(b, entries[i].data)
  BY DEF ReadHit
<1> HIDE DEF i
<1>4. \A j \in Entries : /\ entries'[j].block_num = entries[j].block_num
                         /\ entries'[j].data = entries[j].data
                         /\ entries'[j].valid = entries[j].valid
  BY <1>1, <1>2 DEF IInv, TypeOK
<1>5. ViewMap' = ViewMap
  BY <1>3, <1>4, SameView DEF Holds
<1>6. Spoiled' = Spoiled
  BY <1>3, <1>4, SameSpoiled
<1>7. Store!Read(b)
  <2>1. CASE i \in torn
    <3>1. b \in Spoiled
      BY <1>1, <2>1 DEF Spoiled, Hit
    <3>2. entries[i].data \in Contents
      BY <1>1 DEF IInv, TypeOK, Hit
    <3>3. QED
      BY <1>3, <1>5, <1>6, <3>1, <3>2 DEF Store!Read, Store!ReadDone, ReadDone
  <2>2. CASE i \notin torn
    <3>1. b \notin Spoiled
      BY <1>1, <2>2 DEF Spoiled, Hit, IInv, NoAlias, TornIsClean
    <3>2. ViewMap[b] = entries[i].data
      BY <1>1, <2>2, ViewOf DEF ViewMap, IInv
    <3>3. QED
      BY <1>3, <1>5, <1>6, <3>1, <3>2 DEF Store!Read, Store!ReadDone, ReadDone
  <2>3. QED
    BY <2>1, <2>2
<1>8. QED
  BY <1>7 DEF Store!Next

\* A miss that reads its block: the victim's block is on the disk by then.
LEMMA ReadFillsStore ==
  ASSUME IInv, IInv', NEW b \in Blocks, NEW v \in Entries, v = find_lru_entry,
         Evict(b, SectorsPerBlock), ReadFills(v, b), synced' = synced
  PROVE  Store!Next
<1>1. /\ ~Cached(b)
      /\ disk' \in [Blocks -> Contents]
      /\ \A c \in Blocks :
           ~(MustWriteBack(v) /\ entries[v].block_num = c) => disk'[c] = disk[c]
  BY EvictEffect
<1>2. disk'[b] = disk[b]
  BY <1>1 DEF Cached, Hit, MustWriteBack
<1>3. /\ entries' = [entries EXCEPT ![v] =
           [block_num |-> b, data |-> disk[b], last_used |-> timestamp',
            dirty |-> FALSE, valid |-> TRUE]]
      /\ torn' = torn \ {v}
      /\ result' = ReadDone(b, disk[b])
  BY <1>2 DEF ReadFills
<1>4. /\ \A i \in Entries : i # v => entries'[i] = entries[i]
      /\ entries'[v].valid /\ entries'[v].block_num = b
      /\ entries'[v].data = disk[b]
  BY <1>3 DEF IInv, TypeOK
<1>5. Holds(v) => disk'[entries[v].block_num] = entries[v].data
  BY EvictWrites DEF Holds
<1>6. ViewMap' = [ViewMap EXCEPT ![b] = disk[b]]
  BY <1>1, <1>3, <1>4, <1>5, ReplaceView
<1>7. ViewMap[b] = disk[b]
  BY <1>1, ViewOf DEF ViewMap, IInv
<1>8. ViewMap' = ViewMap
  BY <1>6, <1>7, ViewContents
<1>9. Spoiled' \in SUBSET Spoiled
  BY <1>3, <1>4, LessSpoiled
<1>10. b \notin Spoiled
  BY <1>1 DEF Spoiled, Cached, Hit, IInv, TornIsClean
<1>11. Store!Read(b)
  BY <1>3, <1>7, <1>8, <1>9, <1>10 DEF Store!Read, Store!ReadDone, ReadDone
<1>12. QED
  BY <1>11 DEF Store!Next

\* A miss whose read breaks off may spoil the victim's block.
LEMMA ReadFailsStore ==
  ASSUME IInv, IInv', NEW b \in Blocks, NEW v \in Entries, v = find_lru_entry,
         NEW n \in 0..SectorsPerBlock,
         Evict(b, SectorsPerBlock), ReadFails(v, b, SectorsPerBlock, n),
         synced' = synced
  PROVE  Store!Next
<1>1. \A c \in Blocks :
        ~(MustWriteBack(v) /\ entries[v].block_num = c) => disk'[c] = disk[c]
  BY EvictEffect
<1> DEFINE data == Transfer(n, disk'[b], entries[v].data)
<1>2. entries' = [entries EXCEPT ![v] =
        Filled(entries[v], data, entries[v].last_used, FALSE)]
  BY DEF ReadFails
<1>3. n = 0 => data = entries[v].data
  BY TransferNone DEF IInv, TypeOK
<1> HIDE DEF data
<1>a. \A i \in Entries : /\ entries'[i].valid = entries[i].valid
                         /\ entries'[i].block_num = entries[i].block_num
  BY <1>2 DEF IInv, TypeOK, Filled
<1>4. /\ \A i \in Entries : i # v => entries'[i].data = entries[i].data
      /\ entries'[v].data = data
  BY <1>2 DEF IInv, TypeOK, Filled
<1>5. /\ torn' = IF entries[v].valid /\ n > 0 THEN torn \union {v} ELSE torn
      /\ result' = Failed("read")
  BY DEF ReadFails
<1>6. Holds(v) => disk'[entries[v].block_num] = entries[v].data
  BY EvictWrites DEF Holds
<1>7. ViewMap' = ViewMap
  <2>1. ASSUME NEW i \in Entries, Holds(i)
        PROVE  \/ i \notin torn' /\ entries'[i].data = entries[i].data
               \/ i \in torn' /\ disk'[entries[i].block_num] = entries[i].data
    <3>1. CASE i # v
      BY <1>4, <1>5, <2>1, <3>1 DEF Holds
    <3>2. CASE i = v /\ n > 0
      BY <1>5, <1>6, <2>1, <3>2 DEF Holds
    <3>3. CASE i = v /\ n = 0
      BY <1>3, <1>4, <1>5, <2>1, <3>3 DEF Holds
    <3>4. QED
      BY <3>1, <3>2, <3>3
  <2>2. \A c \in Blocks : ~(\E i \in Entries : Holds(i) /\ entries[i].block_num = c)
                          => disk'[c] = disk[c]
    BY <1>1 DEF Holds, MustWriteBack, IInv, TornIsClean
  <2>3. torn \subseteq torn'
    BY <1>5
  <2>4. QED
    BY <2>1, <2>2, <2>3, <1>a, SameView
<1>8. CASE torn' = torn
  <2>1. Spoiled' = Spoiled
    BY <1>a, <1>8, SameSpoiled
  <2>2. QED
    BY <1>5, <1>7, <2>1, FailStore
<1>9. CASE torn' = torn \union {v}
  <2>1. Spoiled' = Spoiled \union {entries[v].block_num}
    BY <1>a, <1>9 DEF Spoiled, IInv, TornIsClean
  <2>2. entries[v].block_num \in Blocks
    BY DEF IInv, TypeOK
  <2>3. Store!FailSpoils
    BY <1>5, <1>7, <2>1, <2>2 DEF Store!FailSpoils, Store!Failed, Failed
  <2>4. QED
    BY <2>3 DEF Store!Next
<1>10. QED
  BY <1>5, <1>8, <1>9

LEMMA ReadStore ==
  ASSUME IInv, IInv', ReportsLast, NEW b \in Blocks, block_cache_read(b)
  PROVE  Store!Next
<1>1. CASE ReadHit(b)
  BY <1>1, ReadHitStore
<1>2. CASE ReadMiss(b)
  <2>1. PICK v \in Entries : v = find_lru_entry
    BY <1>2, LruType DEF ReadMiss, Evict, IInv
  <2>2. PICK m \in Extents(TRUE), n \in ReadExtents :
          /\ Evict(b, m)
          /\ IF n = SectorsPerBlock THEN ReadFills(v, b) ELSE ReadFails(v, b, m, n)
          /\ synced' = synced
    BY <1>2, <2>1 DEF ReadMiss
  <2>3. m = SectorsPerBlock /\ n \in 0..SectorsPerBlock
    BY ReportedExtent, ExtentBounds
  <2>4. CASE n = SectorsPerBlock
    BY <2>1, <2>2, <2>3, <2>4, ReadFillsStore
  <2>5. CASE n # SectorsPerBlock
    BY <2>1, <2>2, <2>3, <2>5, ReadFailsStore
  <2>6. QED
    BY <2>4, <2>5
<1>3. QED
  BY <1>1, <1>2, WriteBackFailsStore DEF block_cache_read

LEMMA WriteStore ==
  ASSUME IInv, IInv', ReportsLast, NEW b \in Blocks, NEW d \in Payloads,
         block_cache_write(b, d)
  PROVE  Store!Next
<1>1. ASSUME ViewMap' = [ViewMap EXCEPT ![b] = d], synced' = synced \ {b},
             Spoiled' \in SUBSET (Spoiled \ {b}), result' = Done("write")
      PROVE  Store!Next
  <2>1. Store!Write(b, d)
    BY <1>1 DEF Store!Write, Store!Done, Done
  <2>2. QED
    BY <2>1, PayloadsInContents DEF Store!Next
<1>2. CASE WriteHit(b, d) /\ synced' = synced \ {b} /\ result' = Done("write")
  <2> DEFINE i == Lookup(b)
  <2>1. i \in Entries /\ Hit(i, b)
    BY <1>2, LookupHit DEF WriteHit, IInv
  <2>2. disk' = disk /\ torn' = torn \ {i} /\ entries' = [entries EXCEPT ![i] =
          Filled(@, d, timestamp', TRUE)]
    BY <1>2 DEF WriteHit
  <2> HIDE DEF i
  <2>3. /\ \A j \in Entries : j # i => entries'[j] = entries[j]
        /\ entries'[i].valid /\ entries'[i].block_num = b
        /\ entries'[i].data = d /\ entries[i].block_num = b
    BY <2>1, <2>2 DEF IInv, TypeOK, Filled, Hit
  <2>4. ViewMap' = [ViewMap EXCEPT ![b] = d]
    <3>1. Holds(i) /\ entries[i].block_num # b
            => disk'[entries[i].block_num] = entries[i].data
      BY <2>3
    <3>2. \A c \in Blocks : ~(MustWriteBack(i) /\ entries[i].block_num = c)
                            => disk'[c] = disk[c]
      BY <2>2
    <3>3. torn' = torn \ {i}
      BY <2>2
    <3>4. /\ \A j \in Entries : j # i => entries'[j] = entries[j]
          /\ entries'[i].valid /\ entries'[i].block_num = b /\ entries'[i].data = d
      BY <2>3
    <3>5. i \in Entries
      BY <2>1
    <3>6. QED
      BY <3>1, <3>2, <3>3, <3>4, <3>5, ReplaceView
  <2>5. \A j \in Entries : j # i => ~Hit(j, b)
    BY <2>1 DEF IInv, NoAlias
  <2>6. Spoiled' \in SUBSET (Spoiled \ {b})
    BY <2>1, <2>2, <2>3, <2>5, LessSpoiled
  <2>7. QED
    BY <1>1, <1>2, <2>4, <2>6
<1>3. CASE WriteMiss(b, d) /\ synced' = synced \ {b} /\ result' = Done("write")
  <2>1. PICK v \in Entries : v = find_lru_entry
    BY <1>3, LruType DEF WriteMiss, Evict, IInv
  <2>2. Evict(b, SectorsPerBlock)
    BY <1>3, ReportedExtent DEF WriteMiss
  <2>3. /\ ~Cached(b)
        /\ \A c \in Blocks :
             ~(MustWriteBack(v) /\ entries[v].block_num = c) => disk'[c] = disk[c]
    BY <2>1, <2>2, EvictEffect
  <2>4. Holds(v) => disk'[entries[v].block_num] = entries[v].data
    BY <2>1, <2>2, EvictWrites DEF Holds
  <2>5. /\ entries' = [entries EXCEPT ![v] =
             [block_num |-> b, data |-> d, last_used |-> timestamp',
              dirty |-> TRUE, valid |-> TRUE]]
        /\ torn' = torn \ {v}
    BY <1>3, <2>1 DEF WriteMiss
  <2>6. /\ \A j \in Entries : j # v => entries'[j] = entries[j]
        /\ entries'[v].valid /\ entries'[v].block_num = b
        /\ entries'[v].data = d
    BY <2>1, <2>5 DEF IInv, TypeOK
  <2>7. ViewMap' = [ViewMap EXCEPT ![b] = d]
    BY <2>3, <2>4, <2>5, <2>6, ReplaceView
  <2>8. \A j \in Entries : j # v => ~Hit(j, b)
    BY <2>3 DEF Cached
  <2>9. Spoiled' \in SUBSET (Spoiled \ {b})
    BY <2>5, <2>6, <2>8, LessSpoiled
  <2>10. QED
    BY <1>1, <1>3, <2>7, <2>9
<1>4. QED
  BY <1>2, <1>3, WriteBackFailsStore DEF block_cache_write

LEMMA FlushStore ==
  ASSUME IInv, IInv', ReportsLast, block_cache_flush
  PROVE  Store!Next
<1>1. PICK stop \in 1..(NumEntries + 1) : \E ext \in FlushExtents(stop) :
        /\ FlushStops(stop, ext)
        /\ entries' = FlushedEntries(stop)
        /\ torn' = torn \union FlushedShort(stop, ext)
        /\ result' = IF stop \in Entries THEN Failed("flush") ELSE Done("flush")
  BY DEF block_cache_flush
<1>2. PICK ext \in FlushExtents(stop) :
        FlushStops(stop, ext) /\ torn' = torn \union FlushedShort(stop, ext)
  BY <1>1
<1>3. torn' = torn
  BY <1>2, NothingShort
<1>4. \A c \in Blocks :
        ~(\E i \in Entries : MustWriteBack(i) /\ entries[i].block_num = c)
        => disk'[c] = disk[c]
  BY <1>2, FlushEffect
<1>5. \A c \in Blocks : ~(\E i \in Entries : Holds(i) /\ entries[i].block_num = c)
                        => disk'[c] = disk[c]
  BY <1>4 DEF Holds, MustWriteBack, IInv, TornIsClean
<1>6. \A i \in Entries : /\ entries'[i].valid = entries[i].valid
                         /\ entries'[i].block_num = entries[i].block_num
                         /\ entries'[i].data = entries[i].data
  BY <1>1 DEF FlushedEntries, IInv, TypeOK
<1>7. ViewMap' = ViewMap
  BY <1>3, <1>5, <1>6, SameView DEF Holds
<1>8. synced' = IF stop \in Entries THEN synced ELSE Blocks
  BY <1>2 DEF FlushStops
<1>9. Spoiled' = Spoiled
  BY <1>3, <1>6, SameSpoiled
<1>10. CASE stop \in Entries
  BY <1>1, <1>7, <1>8, <1>9, <1>10, FailStore
<1>11. CASE stop \notin Entries
  BY <1>1, <1>7, <1>8, <1>9, <1>11 DEF Store!Next, Store!Flush, Store!Done, Done
<1>12. QED
  BY <1>10, <1>11

\* When the cache goes away clients see the disk: the blocks that were synced
\* are as they were.
LEMMA LossStore ==
  ASSUME IInv, IInv', entries' = [i \in Entries |-> FreshEntry],
         \A b \in synced : disk'[b] = disk[b],
         synced' \in {synced, Blocks}, torn' = {}, result' = result
  PROVE  Store!PowerLoss
<1>1. \A b \in Blocks : View(b)' = disk'[b]
  <2> SUFFICES ASSUME NEW b \in Blocks PROVE ~Cached(b)'
    BY ViewOfNext DEF IInv
  <2>1. QED
    BY DEF Cached, Hit, FreshEntry
<1>2. ViewMap' \in [Blocks -> Contents]
  BY <1>1 DEF ViewMap, IInv, TypeOK
<1>3. \A b \in synced : ViewMap'[b] = ViewMap[b]
  BY <1>1, IInvImpliesSynced DEF ViewMap, SyncedOnDisk, IInv, TypeOK
<1>4. QED
  BY <1>2, <1>3 DEF Store!PowerLoss, Spoiled

\* Every step of the cache is a step of the block store or shows nothing.
LEMMA NextStore ==
  ASSUME ReportsLast, IInv, IInv', [Next]_vars
  PROVE  [Store!Next]_(Store!storeVars)
<1>1. CASE block_cache_init
  <2>1. Store!PowerLoss
    BY <1>1, LossStore DEF block_cache_init
  <2>2. QED
    BY <2>1 DEF Store!Next
<1>2. ASSUME NEW b \in Blocks, block_cache_read(b) PROVE Store!Next
  BY <1>2, ReadStore
<1>3. ASSUME NEW b \in Blocks, NEW d \in Payloads, block_cache_write(b, d)
      PROVE  Store!Next
  BY <1>3, WriteStore
<1>4. CASE block_cache_flush
  BY <1>4, FlushStore
<1>5. CASE block_cache_destroy
  <2>1. PICK stop \in 1..(NumEntries + 1) : \E ext \in FlushExtents(stop) :
          FlushStops(stop, ext)
    BY <1>5 DEF block_cache_destroy
  <2>2. \A b \in synced : disk'[b] = disk[b]
    <3> SUFFICES ASSUME NEW b \in synced PROVE disk'[b] = disk[b]
      OBVIOUS
    <3>1. b \in Blocks
      BY DEF IInv, TypeOK
    <3>2. ~(\E i \in Entries : MustWriteBack(i) /\ entries[i].block_num = b)
      BY DEF IInv, DirtyUnsynced
    <3>3. QED
      BY <2>1, <3>1, <3>2, FlushEffect
  <2>3. synced' \in {synced, Blocks}
    BY <2>1 DEF FlushStops
  <2>4. Store!PowerLoss
    BY <1>5, <2>2, <2>3, LossStore DEF block_cache_destroy, Forget
  <2>5. QED
    BY <2>4 DEF Store!Next
<1>6. CASE PowerLoss
  <2>1. Store!PowerLoss
    BY <1>6, LossStore DEF PowerLoss, Forget
  <2>2. QED
    BY <2>1 DEF Store!Next
<1>7. CASE UNCHANGED vars
  BY <1>7 DEF vars, Store!storeVars, ViewMap, View, Cached, Lookup, Hit, Spoiled
<1>8. QED
  BY <1>1, <1>2, <1>3, <1>4, <1>5, <1>6, <1>7 DEF Next

\* The cache implements the block store: whatever the order of calls,
\* evictions, transfers that are refused or break off and power losses, a read
\* that succeeds returns the last write that succeeded, unless a failed read
\* of another block has spoiled the entry; then the block itself is not lost,
\* and its next write or eviction ends the state.  The drive is one that
\* reports the loss of the last sector of a write.
THEOREM CacheImplementsStore == ReportsLast => (Spec => StoreSpec)
<1> SUFFICES ASSUME ReportsLast PROVE Spec => StoreSpec
  OBVIOUS
<1>1. IInv /\ IInv' /\ [Next]_vars => [Store!Next]_(Store!storeVars)
  BY NextStore
<1>2. QED
  BY <1>1, InitStore, CacheInvariant, PTL DEF Spec, StoreSpec, Store!Spec

\* What a valid clean entry holds is its block on the disk, so that an eviction
\* may drop it (the test entry->dirty in block_cache_read and _write), for
\* blocks of any number of sectors and every fault of the drive.  The two
\* exceptions are named entry by entry: a read for another block that broke
\* off in this entry's buffer (block_cache.c:191), and a write of this entry
\* whose last sector was lost silently (ata.c:324).
THEOREM CleanIsOnDisk == Spec => []CleanIsCopy
<1>1. IInv => CleanIsCopy
  BY DEF IInv
<1>2. QED
  BY <1>1, CacheInvariant, PTL

\* No cell of a buffer fresh from kmalloc reaches the disk or a valid entry.
THEOREM CacheTypeOK == Spec => []TypeOK
<1>1. IInv => TypeOK
  BY DEF IInv
<1>2. QED
  BY <1>1, CacheInvariant, PTL

-----------------------------------------------------------------------------
(* No dirty data is dropped.                                               *)

\* Without a cache there is nothing in it.
DownEmpty == ~up => \A i \in Entries : ~entries[i].valid

LEMMA NextDownEmpty ==
  ASSUME IInv, DownEmpty, [Next]_vars
  PROVE  DownEmpty'
<1>1. CASE up' = FALSE /\ up # FALSE
  <2>1. Forget
    BY <1>1 DEF Next, block_cache_init, block_cache_read, block_cache_write, Tick,
                block_cache_flush, block_cache_destroy, PowerLoss, vars
  <2>2. QED
    BY <2>1 DEF Forget, FreshEntry, DownEmpty
<1>2. CASE up = FALSE
  <2>1. block_cache_init \/ UNCHANGED vars
    BY <1>2 DEF Next, block_cache_read, block_cache_write, Tick,
                block_cache_flush, block_cache_destroy, PowerLoss, Forget, vars
  <2>2. QED
    BY <2>1 DEF block_cache_init, FreshEntry, DownEmpty, vars
<1>3. CASE up' # FALSE /\ up # FALSE
  <2>1. up = TRUE
    BY <1>3 DEF IInv, TypeOK
  <2>2. up' = TRUE
    BY <1>3, <2>1 DEF Next, block_cache_init, block_cache_read, block_cache_write,
        Tick, block_cache_flush, block_cache_destroy, PowerLoss, Forget, vars
  <2>3. QED
    BY <2>2 DEF DownEmpty
<1>4. QED
  BY <1>1, <1>2, <1>3

\* A victim leaves its entry only when its data is on the disk.
LEMMA VictimWritten ==
  ASSUME IInv, NEW b \in Blocks, Evict(b, SectorsPerBlock), NEW i \in Entries,
         MustWriteBack(i), NEW e,
         entries' = [entries EXCEPT ![find_lru_entry] = e],
         entries'[i] # entries[i]
  PROVE  disk'[entries[i].block_num] = entries[i].data
<1> DEFINE v == find_lru_entry
<1>1. v \in Entries
  BY EvictEffect
<1>2. entries' = [entries EXCEPT ![v] = e]
  OBVIOUS
<1> HIDE DEF v
<1>3. i = v
  BY <1>1, <1>2 DEF IInv, TypeOK
<1>4. i \notin torn /\ entries[i].valid
  BY DEF IInv, TornIsClean, MustWriteBack
<1>5. QED
  BY <1>3, <1>4, EvictWrites DEF v

LEMMA DirtyStep ==
  ASSUME ReportsLast, IInv, DownEmpty, [Next]_vars, NEW i \in Entries,
         MustWriteBack(i), up',
         ~(/\ entries'[i].valid /\ entries'[i].dirty
           /\ entries'[i].block_num = entries[i].block_num)
  PROVE  disk'[entries[i].block_num] = entries[i].data
<1>1. entries'[i] # entries[i]
  BY DEF MustWriteBack
<1>2. CASE block_cache_init
  BY <1>2 DEF block_cache_init, DownEmpty, MustWriteBack
<1>3. ASSUME NEW b \in Blocks, NEW op, NoVictim(op, b) \/ WriteBackFails(op, b)
      PROVE  FALSE
  BY <1>1, <1>3 DEF NoVictim, WriteBackFails, Refuse
<1>4. ASSUME NEW b \in Blocks, block_cache_read(b)
      PROVE  disk'[entries[i].block_num] = entries[i].data
  <2>1. CASE ReadHit(b)
    <3>1. Lookup(b) \in Entries
      BY <2>1, LookupHit DEF ReadHit, IInv
    <3>2. /\ entries'[i].valid = entries[i].valid
          /\ entries'[i].dirty = entries[i].dirty
          /\ entries'[i].block_num = entries[i].block_num
      BY <2>1, <3>1 DEF ReadHit, IInv, TypeOK
    <3>3. QED
      BY <3>2 DEF MustWriteBack
  <2>2. CASE ReadMiss(b)
    <3>1. \E e : entries' = [entries EXCEPT ![find_lru_entry] = e]
      BY <2>2 DEF ReadMiss, ReadFills, ReadFails
    <3>2. Evict(b, SectorsPerBlock)
      BY <2>2, ReportedExtent DEF ReadMiss
    <3>3. QED
      BY <1>1, <3>1, <3>2, VictimWritten
  <2>3. QED
    BY <1>3, <1>4, <2>1, <2>2 DEF block_cache_read
<1>5. ASSUME NEW b \in Blocks, NEW d \in Payloads, block_cache_write(b, d)
      PROVE  disk'[entries[i].block_num] = entries[i].data
  <2>1. CASE WriteHit(b, d)
    <3>1. Lookup(b) \in Entries
      BY <2>1, LookupHit DEF WriteHit, IInv
    <3>2. /\ entries'[i].valid = entries[i].valid
          /\ entries[i].dirty => entries'[i].dirty
          /\ entries'[i].block_num = entries[i].block_num
      BY <2>1, <3>1 DEF WriteHit, IInv, TypeOK, Filled
    <3>3. QED
      BY <3>2 DEF MustWriteBack
  <2>2. CASE WriteMiss(b, d)
    <3>1. Evict(b, SectorsPerBlock)
      BY <2>2, ReportedExtent DEF WriteMiss
    <3>2. \E e : entries' = [entries EXCEPT ![find_lru_entry] = e]
      BY <2>2 DEF WriteMiss
    <3>3. QED
      BY <1>1, <3>1, <3>2, VictimWritten
  <2>3. QED
    BY <1>3, <1>5, <2>1, <2>2 DEF block_cache_write
<1>6. CASE block_cache_flush
  <2>1. PICK stop \in 1..(NumEntries + 1) : \E ext \in FlushExtents(stop) :
          FlushStops(stop, ext) /\ entries' = FlushedEntries(stop)
    BY <1>6 DEF block_cache_flush
  <2>2. PICK ext \in FlushExtents(stop) : FlushStops(stop, ext)
    BY <2>1
  <2>3. i < stop
    BY <1>1, <2>1 DEF FlushedEntries
  <2>4. i \notin FlushedShort(stop, ext)
    BY NothingShort
  <2>5. QED
    BY <2>2, <2>3, <2>4, FlushEffect
<1>7. CASE block_cache_destroy \/ PowerLoss
  BY <1>7 DEF block_cache_destroy, PowerLoss, Forget
<1>8. CASE UNCHANGED vars
  BY <1>1, <1>8 DEF vars
<1>9. QED
  BY <1>2, <1>4, <1>5, <1>6, <1>7, <1>8 DEF Next

\* An entry with unwritten data is reused, or marked clean, only in a step in
\* which all of its data reaches the disk, whatever the number of sectors of
\* a block: write_block_to_disk comes first in an eviction and in a flush.  The
\* drive is one that reports the loss of the last sector of a write.
THEOREM DirtyDataIsWritten == ReportsLast => (Spec => DirtyIsWritten)
<1> SUFFICES ASSUME ReportsLast PROVE Spec => DirtyIsWritten
  OBVIOUS
<1> DEFINE Written == \A i \in Entries :
             LET b == entries[i].block_num
                 kept == entries'[i].valid /\ entries'[i].dirty
                           /\ entries'[i].block_num = b
             IN  MustWriteBack(i) /\ up' /\ ~kept => disk'[b] = entries[i].data
<1>1. Init => DownEmpty
  BY DEF Init, DownEmpty, FreshEntry
<1>2. IInv /\ DownEmpty /\ [Next]_vars => DownEmpty'
  BY NextDownEmpty
<1>3. IInv /\ DownEmpty /\ [Next]_vars => [Written]_vars
  BY DirtyStep
<1> HIDE DEF Written
<1>4. (Spec => [][Written]_vars)
  BY <1>1, <1>2, <1>3, CacheInvariant, PTL DEF Spec
<1>5. QED
  BY <1>4 DEF DirtyIsWritten, Written

-----------------------------------------------------------------------------
(* The victim is the least recently used block.                            *)

\* Until the clock wraps, the stamps of the cached blocks are all different
\* and tell the order of their uses.
StampsTell ==
  wrapped \/
    /\ \A i \in Entries : entries[i].valid => entries[i].last_used <= timestamp
    /\ \A i, j \in Entries :
         entries[i].valid /\ entries[j].valid /\ i # j =>
           /\ entries[i].last_used # entries[j].last_used
           /\ entries[i].last_used < entries[j].last_used
                => entries[j].block_num \in since[entries[i].block_num]

SinceOK == since \in [Blocks -> SUBSET Blocks]

\* Entry i is about the same block, and as old, as before.
SameUse(i) ==
  /\ entries'[i].valid = entries[i].valid
  /\ entries'[i].block_num = entries[i].block_num
  /\ entries'[i].last_used = entries[i].last_used

\* A step that uses nothing keeps what the stamps tell.
LEMMA KeepsStamps ==
  ASSUME IInv, StampsTell, \A i \in Entries : SameUse(i), since' = since, wrapped => wrapped',
         timestamp' \in Nat, timestamp' >= timestamp
  PROVE  StampsTell'
<1>1. SUFFICES ASSUME ~wrapped, ~wrapped' PROVE StampsTell'
  BY DEF StampsTell
<1>2. timestamp \in Nat /\ \A i \in Entries : entries[i].last_used \in Nat
  BY DEF IInv, TypeOK
<1>3. \A i \in Entries : entries'[i].valid => entries'[i].last_used <= timestamp'
  BY <1>1, <1>2 DEF StampsTell, SameUse
<1>4. ASSUME NEW i \in Entries, NEW j \in Entries, entries'[i].valid, entries'[j].valid, i # j
      PROVE  /\ entries'[i].last_used # entries'[j].last_used
             /\ entries'[i].last_used < entries'[j].last_used
                  => entries'[j].block_num \in since'[entries'[i].block_num]
  BY <1>1, <1>4 DEF StampsTell, SameUse
<1> QED BY <1>3, <1>4 DEF StampsTell

\* Entry k now holds block b, which is used.
LEMMA UseStamps ==
  ASSUME IInv, SinceOK, StampsTell, NEW b \in Blocks, NEW k \in Entries, ~wrapped,
         timestamp' = timestamp + 1, since' = Used(b),
         entries'[k].block_num = b, entries'[k].last_used = timestamp',
         \A i \in Entries \ {k} : SameUse(i) /\ (entries[i].valid => entries[i].block_num # b)
  PROVE  StampsTell'
<1>1. timestamp \in Nat /\ \A i \in Entries : entries[i].last_used \in Nat /\ entries[i].block_num \in Blocks
  BY DEF IInv, TypeOK
<1>2. /\ \A i \in Entries : entries[i].valid => entries[i].last_used <= timestamp
      /\ \A i, j \in Entries :
           entries[i].valid /\ entries[j].valid /\ i # j =>
             /\ entries[i].last_used # entries[j].last_used
             /\ entries[i].last_used < entries[j].last_used
                  => entries[j].block_num \in since[entries[i].block_num]
  BY DEF StampsTell
<1>3. \A c \in Blocks : c # b => b \in since'[c] /\ since[c] \subseteq since'[c]
  BY DEF Used
<1>4. \A i \in Entries \ {k} : entries'[i].valid => entries'[i].last_used <= timestamp
  BY <1>2 DEF SameUse
<1>5. \A i \in Entries : entries'[i].valid => entries'[i].last_used <= timestamp'
  <2> TAKE i \in Entries
  <2>1. CASE i = k
    BY <1>1, <2>1
  <2>2. CASE i # k
    <3>1. entries'[i].last_used \in Nat
      BY <1>1, <2>2 DEF SameUse
    <3> QED BY <1>1, <1>4, <2>2, <3>1
  <2> QED BY <2>1, <2>2
<1>6. ASSUME NEW i \in Entries, NEW j \in Entries, entries'[i].valid, entries'[j].valid, i # j
      PROVE  /\ entries'[i].last_used # entries'[j].last_used
             /\ entries'[i].last_used < entries'[j].last_used
                  => entries'[j].block_num \in since'[entries'[i].block_num]
  <2>1. CASE i = k
    <3>1. entries'[j].last_used <= timestamp /\ entries'[j].last_used \in Nat
      BY <1>1, <1>4, <1>6, <2>1 DEF SameUse
    <3>2. entries'[j].last_used < entries'[i].last_used
      BY <1>1, <2>1, <3>1
    <3> QED BY <1>1, <2>1, <3>1, <3>2
  <2>2. CASE j = k
    <3>1. entries'[i].last_used <= timestamp /\ entries'[i].last_used \in Nat
      BY <1>1, <1>4, <1>6, <2>2 DEF SameUse
    <3>2. entries'[i].last_used # entries'[j].last_used
      BY <1>1, <2>2, <3>1
    <3>3. entries'[i].block_num \in Blocks /\ entries'[i].block_num # b
      BY <1>1, <1>6, <2>2 DEF SameUse
    <3> QED BY <1>3, <2>2, <3>2, <3>3
  <2>3. CASE i # k /\ j # k
    <3>1. entries[i].block_num \in Blocks /\ entries[i].block_num # b
      BY <1>1, <1>6, <2>3 DEF SameUse
    <3>2. since[entries[i].block_num] \subseteq since'[entries[i].block_num]
      BY <1>3, <3>1
    <3> QED BY <1>2, <1>6, <2>3, <3>2 DEF SameUse
  <2> QED BY <2>1, <2>2, <2>3
<1> QED BY <1>5, <1>6 DEF StampsTell

\* The victim of a miss in a full cache has the lowest stamp.
LEMMA VictimLowest ==
  ASSUME IInv, find_lru_entry # NULL, NEW j \in Entries, entries[find_lru_entry].valid
  PROVE  entries[find_lru_entry].last_used <= entries[j].last_used
<1> DEFINE free  == {i \in Entries : ~entries[i].valid}
           older == {i \in Entries : entries[i].last_used < StampMod - 1}
           age(i) == entries[i].last_used
           Lowest(i) == \A n \in older : age(i) < age(n) \/ (age(i) = age(n) /\ i <= n)
<1>1. Entries \subseteq Nat /\ \A i \in Entries : age(i) \in Nat /\ age(i) <= StampMod - 1
  BY DEF IInv, TypeOK, Entries
<1>2. free = {}
  <2> SUFFICES ASSUME free # {} PROVE FALSE
    OBVIOUS
  <2>1. \E i \in free : \A n \in free : i <= n
    BY <1>1, NatMin
  <2>2. find_lru_entry \in free
    BY <2>1 DEF find_lru_entry
  <2> QED BY <2>2
<1>3. older # {} /\ find_lru_entry = CHOOSE i \in older : Lowest(i)
  BY <1>2 DEF find_lru_entry
<1>4. \E i \in older : Lowest(i)
  <2>1. PICK a \in {age(i) : i \in older} : \A c \in {age(i) : i \in older} : a <= c
    <3> DEFINE ages == {age(i) : i \in older}
    <3>1. ages \in SUBSET Nat /\ ages # {}
      BY <1>1, <1>3
    <3> HIDE DEF ages
    <3>2. \E x \in ages : \A y \in ages : x <= y
      BY <3>1, NatMin
    <3> QED BY <3>2 DEF ages
  <2> DEFINE oldest == {i \in older : age(i) = a}
  <2>2. PICK i \in oldest : \A n \in oldest : i <= n
    <3>1. oldest \in SUBSET Nat /\ oldest # {}
      BY <1>1, <2>1
    <3> HIDE DEF oldest
    <3> QED BY <3>1, NatMin
  <2>3. ASSUME NEW n \in older PROVE age(i) < age(n) \/ (age(i) = age(n) /\ i <= n)
    <3>1. age(i) = a /\ a <= age(n) /\ a \in Nat /\ age(n) \in Nat
      BY <1>1, <2>1, <2>2, <2>3
    <3>2. CASE age(n) = a
      BY <2>2, <2>3, <3>1, <3>2
    <3>3. CASE age(n) # a
      BY <3>1, <3>3
    <3> QED BY <3>2, <3>3
  <2> QED BY <2>2, <2>3
<1> HIDE DEF Lowest
<1>5. PICK v \in older : v = find_lru_entry /\ Lowest(v)
  BY <1>3, <1>4
<1>6. entries[v].last_used <= entries[j].last_used
  <2>1. v \in Entries /\ age(v) < StampMod - 1 /\ age(v) \in Nat /\ age(j) \in Nat
    BY <1>1
  <2>2. CASE j \in older
    BY <1>5, <2>1, <2>2 DEF Lowest
  <2>3. CASE j \notin older
    <3>1. ~(age(j) < StampMod - 1)
      BY <2>3
    <3>2. PICK x \in Nat, y \in Nat : x = age(v) /\ y = age(j)
      BY <2>1
    <3>3. StampMod \in Nat
      BY SizeAssumption
    <3>4. ~(y < StampMod - 1) /\ x < StampMod - 1
      BY <2>1, <3>1, <3>2
    <3> HIDE DEF age, older
    <3>5. x <= y
      BY <3>3, <3>4
    <3> QED BY <3>2, <3>5 DEF age
  <2> QED BY <2>2, <2>3
<1> QED BY <1>5, <1>6

\* Entry k takes block b, and gives up another one only as the victim.
TakesBlock(k, b) ==
  /\ entries'[k].block_num = b /\ entries'[k].last_used = timestamp'
  /\ \A i \in Entries \ {k} : SameUse(i) /\ (entries[i].valid => entries[i].block_num # b)
  /\ entries[k].valid /\ entries[k].block_num # b => k = find_lru_entry

\* A call that fails leaves all entries as they are used; one that succeeds
\* gives one entry the block.
CallEffect(b) ==
  \/ ~result'.ok /\ \A i \in Entries : SameUse(i)
  \/ result'.ok /\ \E k \in Entries : TakesBlock(k, b)

\* The victim takes the block of a miss.
LEMMA Replaced ==
  ASSUME IInv, NEW b \in Blocks, ~Cached(b), NEW k \in Entries, k = find_lru_entry, NEW e,
         entries' = [entries EXCEPT ![k] = e], e.block_num = b, e.last_used = timestamp'
  PROVE  TakesBlock(k, b)
<1>1. DOMAIN entries = Entries
  BY DEF IInv, TypeOK
<1>2. entries'[k] = e /\ \A i \in Entries \ {k} : entries'[i] = entries[i]
  BY <1>1
<1>3. \A i \in Entries : entries[i].valid => entries[i].block_num # b
  BY DEF Cached, Hit
<1> QED BY <1>2, <1>3 DEF TakesBlock, SameUse

\* The entry that holds the block takes it again on a hit.
LEMMA Refreshed ==
  ASSUME IInv, NEW b \in Blocks, Cached(b), NEW e,
         entries' = [entries EXCEPT ![Lookup(b)] = e], e.block_num = b, e.last_used = timestamp'
  PROVE  Lookup(b) \in Entries /\ TakesBlock(Lookup(b), b)
<1>1. DOMAIN entries = Entries
  BY DEF IInv, TypeOK
<1>2. PICK k \in Entries : k = Lookup(b) /\ Hit(k, b)
  BY LookupHit DEF IInv
<1>3. entries'[k] = e /\ \A i \in Entries \ {k} : entries'[i] = entries[i]
  BY <1>1, <1>2
<1>4. \A i \in Entries \ {k} : entries[i].valid => entries[i].block_num # b
  BY <1>2 DEF IInv, NoAlias, Hit
<1>5. entries[k].block_num = b
  BY <1>2 DEF Hit
<1>6. TakesBlock(k, b)
  BY <1>3, <1>4, <1>5 DEF TakesBlock, SameUse
<1> QED BY <1>2, <1>6

\* A call that is refused changes no entry.
LEMMA RefusedCall ==
  ASSUME NEW b, NEW op, NoVictim(op, b) \/ WriteBackFails(op, b)
  PROVE  CallEffect(b)
<1>1. result' = Failed(op) /\ entries' = entries
  BY DEF NoVictim, WriteBackFails, Refuse
<1> QED BY <1>1 DEF CallEffect, SameUse, Failed

\* block_cache_read and block_cache_write, in terms of use.
LEMMA ReadCall ==
  ASSUME IInv, NEW b \in Blocks, block_cache_read(b)
  PROVE  CallEffect(b)
<1>1. CASE ReadHit(b)
  <2> DEFINE k == Lookup(b)
             x == entries[k]
             e == [x EXCEPT !.last_used = timestamp']
  <2>1. Cached(b) /\ result'.ok
    BY <1>1 DEF ReadHit, ReadDone
  <2>2. k \in Entries /\ Hit(k, b)
    BY <2>1, LookupHit DEF IInv
  <2>3. x \in [block_num : Blocks, data : Buffer, last_used : 0..(StampMod - 1),
               dirty : BOOLEAN, valid : BOOLEAN]
    BY <2>2 DEF IInv, TypeOK
  <2>4. entries' = [entries EXCEPT ![k] = e]
    BY <1>1, Zenon DEF ReadHit
  <2>5. e.block_num = b /\ e.last_used = timestamp'
    <3>1. x.block_num = b
      BY <2>2 DEF Hit
    <3> HIDE DEF x, k
    <3> QED BY <2>3, <3>1
  <2> HIDE DEF k
  <2> HIDE DEF e
  <2>6. TakesBlock(k, b)
    BY <2>1, <2>4, <2>5, Refreshed DEF k
  <2> QED BY <2>1, <2>2, <2>6 DEF CallEffect
<1>2. CASE ReadMiss(b)
  <2>1. PICK v \in Entries : v = find_lru_entry
    BY <1>2, LruType DEF ReadMiss, Evict, IInv
  <2>2. ~Cached(b)
    BY <1>2 DEF ReadMiss, Evict
  <2>3. PICK m, n : IF n = SectorsPerBlock THEN ReadFills(v, b) ELSE ReadFails(v, b, m, n)
    BY <1>2, <2>1 DEF ReadMiss
  <2>4. CASE ReadFills(v, b)
    <3> DEFINE e == [block_num |-> b, data |-> disk'[b], last_used |-> timestamp',
                     dirty |-> FALSE, valid |-> TRUE]
    <3>1. entries' = [entries EXCEPT ![v] = e] /\ result'.ok
      BY <2>4 DEF ReadFills, ReadDone
    <3>2. e.block_num = b /\ e.last_used = timestamp'
      OBVIOUS
    <3> HIDE DEF e
    <3>3. TakesBlock(v, b)
      BY <2>1, <2>2, <3>1, <3>2, Replaced
    <3> QED BY <3>1, <3>3 DEF CallEffect
  <2>5. CASE ReadFails(v, b, m, n)
    <3> DEFINE x == entries[v]
               data == Transfer(n, disk'[b], x.data)
               e == Filled(x, data, x.last_used, FALSE)
    <3>1. entries' = [entries EXCEPT ![v] = e] /\ result' = Failed("read")
      BY <2>5, Zenon DEF ReadFails
    <3>2. e.block_num = x.block_num /\ e.last_used = x.last_used /\ e.valid = x.valid
      BY DEF Filled
    <3>3. DOMAIN entries = Entries
      BY DEF IInv, TypeOK
    <3> HIDE DEF e
    <3>4. entries'[v] = e /\ \A i \in Entries \ {v} : entries'[i] = entries[i]
      BY <3>1, <3>3
    <3>5. \A i \in Entries : SameUse(i)
      BY <3>2, <3>4 DEF SameUse
    <3> QED BY <3>1, <3>5 DEF CallEffect, Failed
  <2> QED BY <2>3, <2>4, <2>5
<1> QED BY <1>1, <1>2, RefusedCall DEF block_cache_read

LEMMA WriteCall ==
  ASSUME IInv, NEW b \in Blocks, NEW d \in Payloads, block_cache_write(b, d)
  PROVE  CallEffect(b)
<1>1. CASE WriteHit(b, d) /\ result' = Done("write")
  <2> DEFINE k == Lookup(b)
             x == entries[k]
             e == Filled(x, d, timestamp', TRUE)
  <2>1. Cached(b) /\ entries' = [entries EXCEPT ![k] = e] /\ result'.ok
    BY <1>1 DEF WriteHit, Done
  <2>2. k \in Entries /\ Hit(k, b)
    BY <2>1, LookupHit DEF IInv
  <2>3. e.block_num = b /\ e.last_used = timestamp'
    BY <2>2 DEF Hit, Filled
  <2> HIDE DEF e, k
  <2>4. TakesBlock(k, b)
    BY <2>1, <2>3, Refreshed DEF k
  <2> QED BY <2>1, <2>2, <2>4 DEF CallEffect
<1>2. CASE WriteMiss(b, d) /\ result' = Done("write")
  <2>1. PICK v \in Entries : v = find_lru_entry
    BY <1>2, LruType DEF WriteMiss, Evict, IInv
  <2>2. ~Cached(b) /\ result'.ok
    BY <1>2 DEF WriteMiss, Evict, Done
  <2> DEFINE e == [block_num |-> b, data |-> d, last_used |-> timestamp',
                   dirty |-> TRUE, valid |-> TRUE]
  <2>3. entries' = [entries EXCEPT ![v] = e]
    BY <1>2, <2>1 DEF WriteMiss
  <2>4. e.block_num = b /\ e.last_used = timestamp'
    OBVIOUS
  <2> HIDE DEF e
  <2>5. TakesBlock(v, b)
    BY <2>1, <2>2, <2>3, <2>4, Replaced
  <2> QED BY <2>2, <2>5 DEF CallEffect
<1> QED BY <1>1, <1>2, RefusedCall DEF block_cache_write

\* A call on a block that is read or written.
LEMMA CallStep ==
  ASSUME IInv, NEW b \in Blocks, LruCall(b)
  PROVE  /\ CallEffect(b)
         /\ timestamp' \in Nat /\ (timestamp' = 0 \/ timestamp' = timestamp + 1)
<1>1. CallEffect(b)
  BY ReadCall, WriteCall DEF LruCall
<1>2. timestamp' = (timestamp + 1) % StampMod
  BY DEF LruCall, block_cache_read, block_cache_write, Tick
<1>3. timestamp \in 0..(StampMod - 1) /\ StampMod \in Nat \ {0}
  BY SizeAssumption DEF IInv, TypeOK
<1>4. PICK t \in 0..(StampMod - 1) : t = timestamp
  BY <1>3
<1>5. CASE t + 1 = StampMod
  <2>1. (t + 1) % StampMod = 0
    BY <1>3, <1>5
  <2> QED BY <1>1, <1>2, <1>4, <2>1
<1>6. CASE t + 1 < StampMod
  <2>1. (t + 1) % StampMod = t + 1
    BY <1>3, <1>6
  <2> QED BY <1>1, <1>2, <1>4, <2>1
<1> QED BY <1>3, <1>4, <1>5, <1>6

\* Every step keeps what the stamps tell.
LEMMA StampsStep ==
  ASSUME IInv, SinceOK, StampsTell, [LruNext]_lruVars
  PROVE  SinceOK' /\ StampsTell'
<1>1. timestamp \in Nat
  BY DEF IInv, TypeOK
<1>2. ASSUME NEW b \in Blocks, LruCall(b) PROVE SinceOK' /\ StampsTell'
  <2>1. /\ CallEffect(b) /\ timestamp' \in Nat /\ (timestamp' = 0 \/ timestamp' = timestamp + 1)
        /\ wrapped' = (wrapped \/ timestamp' = 0)
        /\ since' = IF wrapped' THEN NeverUsed ELSE IF result'.ok THEN Used(b) ELSE since
    BY <1>2, CallStep DEF LruCall
  <2>2. SinceOK'
    BY <2>1 DEF SinceOK, NeverUsed, Used
  <2>3. CASE wrapped'
    BY <2>2, <2>3 DEF StampsTell
  <2>4. CASE ~wrapped'
    <3>1. ~wrapped /\ timestamp' = timestamp + 1
      BY <2>1, <2>4, Zenon
    <3>2. CASE ~result'.ok /\ \A i \in Entries : SameUse(i)
      <4>1. since' = since /\ timestamp' >= timestamp
        BY <1>1, <2>1, <2>4, <3>1, <3>2
      <4> QED BY <2>1, <2>2, <3>1, <3>2, <4>1, KeepsStamps
    <3>3. CASE result'.ok /\ \E k \in Entries : TakesBlock(k, b)
      <4>1. since' = Used(b)
        BY <2>1, <2>4, <3>3
      <4>2. PICK k \in Entries : TakesBlock(k, b)
        BY <3>3
      <4>3. StampsTell'
        BY <3>1, <4>1, <4>2, UseStamps DEF TakesBlock
      <4> QED BY <2>2, <4>3
    <3> QED BY <2>1, <3>2, <3>3 DEF CallEffect
  <2> QED BY <2>3, <2>4
<1>3. CASE block_cache_flush /\ UNCHANGED <<since, wrapped>>
  <2>1. PICK stop \in 1..(NumEntries + 1) : entries' = FlushedEntries(stop)
    BY <1>3 DEF block_cache_flush
  <2>2. ASSUME NEW i \in Entries PROVE SameUse(i)
    <3> DEFINE x == entries[i]
    <3>1. x \in [block_num : Blocks, data : Buffer, last_used : 0..(StampMod - 1),
                 dirty : BOOLEAN, valid : BOOLEAN]
      BY <2>2 DEF IInv, TypeOK
    <3>2. entries'[i] = [x EXCEPT !.dirty = FALSE] \/ entries'[i] = x
      BY <2>1, <2>2 DEF FlushedEntries
    <3> HIDE DEF x
    <3>3. /\ entries'[i].valid = x.valid /\ entries'[i].block_num = x.block_num
          /\ entries'[i].last_used = x.last_used
      BY <3>1, <3>2
    <3> QED BY <3>3 DEF SameUse, x
  <2>3. timestamp' = timestamp /\ since' = since /\ wrapped' = wrapped
    BY <1>3 DEF block_cache_flush
  <2>4. timestamp' \in Nat /\ timestamp' >= timestamp
    BY <1>1, <2>3
  <2>5. StampsTell'
    BY <2>2, <2>3, <2>4, KeepsStamps
  <2> QED BY <2>3, <2>5 DEF SinceOK
<1>4. CASE /\ block_cache_init \/ block_cache_destroy \/ PowerLoss
           /\ since' = NeverUsed /\ wrapped' = FALSE
  <2>1. entries' = [i \in Entries |-> FreshEntry]
    BY <1>4 DEF block_cache_init, block_cache_destroy, PowerLoss, Forget
  <2>2. \A i \in Entries : ~entries'[i].valid
    BY <2>1 DEF FreshEntry
  <2> QED BY <1>4, <2>2 DEF StampsTell, SinceOK, NeverUsed
<1>5. CASE UNCHANGED lruVars
  <2>1. UNCHANGED <<entries, timestamp, since, wrapped>>
    BY <1>5 DEF lruVars, vars
  <2> QED BY <2>1 DEF StampsTell, SinceOK
<1> QED BY <1>2, <1>3, <1>4, <1>5 DEF LruNext

\* What a step evicts is what was used first.
LEMMA EvictStep ==
  ASSUME IInv, SinceOK, StampsTell, DownEmpty, [LruNext]_lruVars, ~wrapped,
         NEW i \in Entries, NEW j \in Entries, entries[i].valid, up',
         entries'[i].block_num # entries[i].block_num, entries[j].valid, i # j
  PROVE  entries[j].block_num \in since[entries[i].block_num]
<1>1. CASE block_cache_init
  BY <1>1 DEF block_cache_init, DownEmpty
<1>2. CASE block_cache_destroy \/ PowerLoss
  BY <1>2 DEF block_cache_destroy, PowerLoss, Forget
<1>3. CASE block_cache_flush
  <2>1. PICK stop \in 1..(NumEntries + 1) : entries' = FlushedEntries(stop)
    BY <1>3 DEF block_cache_flush
  <2> DEFINE x == entries[i]
  <2>2. x \in [block_num : Blocks, data : Buffer, last_used : 0..(StampMod - 1),
               dirty : BOOLEAN, valid : BOOLEAN]
    BY DEF IInv, TypeOK
  <2>3. entries'[i] = [x EXCEPT !.dirty = FALSE] \/ entries'[i] = x
    BY <2>1 DEF FlushedEntries
  <2> HIDE DEF x
  <2>4. entries'[i].block_num = x.block_num
    BY <2>2, <2>3
  <2> QED BY <2>4 DEF x
<1>4. CASE UNCHANGED lruVars
  BY <1>4 DEF lruVars, vars
<1>5. ASSUME NEW b \in Blocks, LruCall(b) PROVE entries[j].block_num \in since[entries[i].block_num]
  <2>1. CallEffect(b)
    BY <1>5, CallStep
  <2>2. PICK k \in Entries : TakesBlock(k, b)
    BY <2>1 DEF CallEffect, SameUse
  <2>3. i = k
    BY <2>2 DEF TakesBlock, SameUse
  <2>4. i = find_lru_entry
    BY <2>2, <2>3 DEF TakesBlock
  <2>5. i # NULL
    BY DEF Entries, NULL
  <2>6. entries[i].last_used <= entries[j].last_used
    BY <2>4, <2>5, VictimLowest
  <2>7. /\ entries[i].last_used # entries[j].last_used
        /\ entries[i].last_used < entries[j].last_used
             => entries[j].block_num \in since[entries[i].block_num]
    BY DEF StampsTell
  <2>8. entries[i].last_used \in Nat /\ entries[j].last_used \in Nat
    BY DEF IInv, TypeOK
  <2>9. entries[i].last_used < entries[j].last_used
    BY <2>6, <2>7, <2>8
  <2> QED BY <2>7, <2>9
<1> QED BY <1>1, <1>2, <1>3, <1>4, <1>5 DEF LruNext

\* Until the clock of the cache wraps round, find_lru_entry picks the block that
\* was used least recently, for every number of entries and blocks and every
\* mixture of hits, misses, failed calls and flushes before.
THEOREM VictimIsOldest == LruSpec => EvictsOldest
<1> DEFINE LruInv == IInv /\ DownEmpty /\ SinceOK /\ StampsTell
           Oldest == \A i, j \in Entries :
             LET old == entries[i].block_num
                 evicted == entries[i].valid /\ up' /\ entries'[i].block_num # old
             IN  ~wrapped /\ evicted /\ entries[j].valid /\ i # j
                   => entries[j].block_num \in since[old]
<1>1. LruInit => LruInv
  <2> SUFFICES ASSUME LruInit PROVE LruInv
    OBVIOUS
  <2>1. Init /\ since = NeverUsed
    BY DEF LruInit
  <2>2. \A i \in Entries : ~entries[i].valid
    BY <2>1 DEF Init, FreshEntry
  <2> QED BY <2>1, <2>2, InitIInv DEF DownEmpty, SinceOK, StampsTell, NeverUsed
<1>2. [LruNext]_lruVars => [Next]_vars
  BY DEF LruNext, LruCall, lruVars, Next
<1>3. LruInv /\ [LruNext]_lruVars => LruInv'
  <2> SUFFICES ASSUME LruInv, [LruNext]_lruVars PROVE LruInv'
    OBVIOUS
  <2>1. IInv' /\ DownEmpty'
    BY <1>2, NextIInv, NextDownEmpty
  <2>2. SinceOK' /\ StampsTell'
    BY StampsStep
  <2> QED BY <2>1, <2>2
<1>4. LruInv /\ [LruNext]_lruVars => [Oldest]_lruVars
  BY EvictStep
<1> HIDE DEF Oldest, LruInv
<1>5. LruSpec => [][Oldest]_lruVars
  BY <1>1, <1>3, <1>4, PTL DEF LruSpec
<1> QED BY <1>5 DEF EvictsOldest, Oldest
=============================================================================
