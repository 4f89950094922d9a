------------------------------- MODULE Fat16 --------------------------------
(***************************************************************************)
(* The FAT16 driver src/kernel/fs/fat/fat16.c: the allocation table, the   *)
(* root directory and the data clusters, and the two operations that       *)
(* change them.  fat16_write_file replaces the whole contents of a file.   *)
(* The driver takes no lock and is entered by one task at a time, so each  *)
(* call is one step, with every way it can end.                            *)
(*                                                                         *)
(* Subdirectories are left out: every path names a file in the root        *)
(* directory, with or without a slash in front.  Both copies of the        *)
(* allocation table are one: only the first is ever read.  Transfers of    *)
(* table and directory may fail, which the driver does not notice.         *)
(***************************************************************************)
EXTENDS Integers, Sequences, FiniteSets

CONSTANTS
  TotalClusters,   \* data clusters of the volume
  RootEntries,     \* entries of the root directory
  ClusterBytes,
  CountMod,        \* 2^16: fat16_write_file counts clusters in a uint16_t
  Bytes, Zero,     \* what files are made of, and what fills up a cluster
  Paths,           \* the names the callers use
  ShortNames,      \* the 11 bytes of a directory entry
  Component,       \* Component[p]: short name of the last component of p
  Whole,           \* Whole[p]: make_shortname of all of p
  Images,          \* root directories of the volumes that are mounted
  Contents         \* what is written to files

Clusters == 2..(TotalClusters + 1)
EOC == TotalClusters + 2          \* 0xFFFF: end of chain
Slots == 1..RootEntries

EndMark == [name |-> "end", start |-> 0, size |-> 0]       \* first byte 0x00
Deleted == [name |-> "deleted", start |-> 0, size |-> 0]   \* first byte 0xE5
NewEntry(n) == [name |-> n, start |-> 0, size |-> 0]

ASSUME FatAssumption ==
  /\ TotalClusters \in Nat \ {0}
  /\ RootEntries \in Nat \ {0}
  /\ ClusterBytes \in Nat \ {0}
  /\ CountMod \in Nat \ {0, 1}
  /\ Contents \subseteq Seq(Bytes)
  /\ Zero \notin Bytes
  /\ Component \in [Paths -> ShortNames] /\ Whole \in [Paths -> ShortNames]
  /\ {"end", "deleted"} \intersect ShortNames = {}
  /\ Images \subseteq [Slots -> {EndMark, Deleted}]

VARIABLES
  fat,       \* fat[c]: 0 if c is free, the next cluster of its chain, or EOC
  dir,       \* the entries of the root directory
  data,      \* data[c]: the bytes of a cluster, until the volume is damaged
  damaged,   \* history: a call has failed half way
  recreated  \* history: fat16_create_file was called for a file that exists

vars == <<fat, dir, data, damaged, recreated>>

-----------------------------------------------------------------------------
(* The directory.                                                          *)

\* Where the scan of fat16_find_root_entry_bytes ends: no entry behind the
\* first end mark is looked at.
Seen(d) == {i \in Slots : \A j \in 1..i : d[j] # EndMark}
Found(d, n) == {i \in Seen(d) : d[i].name = n}
Least(S) == CHOOSE x \in S : \A y \in S : x <= y

\* The entries that hold a file, behind the end mark too.
Entered(d) == {i \in Slots : d[i] \notin {EndMark, Deleted}}

\* free_off: the end mark if there is one, else the first deleted entry.
FreeSlots(d) ==
  IF Seen(d) # Slots THEN {i \in Slots : i \notin Seen(d)}
  ELSE {i \in Slots : d[i] = Deleted}

Exists(p) == Found(dir, Component[p]) # {}
EntryOf(p) == Least(Found(dir, Component[p]))
HasSlot == FreeSlots(dir) # {}

-----------------------------------------------------------------------------
(* The allocation table.                                                   *)

\* The clusters of the chain that starts at s.
Chain(f, s) ==
  LET upTo[k \in 0..TotalClusters] ==
        IF k = 0 THEN {s} \intersect Clusters
        ELSE LET S == upTo[k - 1]
             IN  S \union ({f[c] : c \in S} \intersect Clusters)
  IN  upTo[TotalClusters]

free_chain(f, s) == [c \in Clusters |-> IF c \in Chain(f, s) THEN 0 ELSE f[c]]

FreeIn(f) == {c \in Clusters : f[c] = 0}
Upto(S, c) == {d \in S : d <= c}

\* The clusters allocate_chain finds, from the lowest up.
FirstFree(f, n) == {c \in FreeIn(f) : Cardinality(Upto(FreeIn(f), c)) <= n}

NextIn(T, c) == LET S == {d \in T : d > c} IN IF S = {} THEN EOC ELSE Least(S)

\* Mutant: the chain is linked backwards.
LinkedBackwards(f, T) ==
  [c \in Clusters |-> IF c \notin T THEN f[c]
                      ELSE LET S == {d \in T : d < c}
                           IN  IF S = {} THEN EOC
                               ELSE CHOOSE x \in S : \A y \in S : y <= x]

Linked(f, T) == [c \in Clusters |-> IF c \in T THEN NextIn(T, c) ELSE f[c]]

ClustersFor(len) == (len + ClusterBytes - 1) \div ClusterBytes

\* need of fat16_write_file, which is cut to a uint16_t; 0 then counts as 1.
need(len) ==
  LET n == ClustersFor(len) % CountMod IN IF n = 0 THEN 1 ELSE n

-----------------------------------------------------------------------------
(* The data.                                                               *)

\* The k-th cluster of the contents b, filled up with zeros.
Piece(b, k) ==
  [i \in 1..ClusterBytes |->
     LET at == (k - 1) * ClusterBytes + i
     IN  IF at <= Len(b) THEN b[at] ELSE Zero]

\* Mutant: the position in the buffer is not advanced.
WrittenAgain(m, T, b) ==
  [c \in Clusters |-> IF c \in T THEN Piece(b, 1) ELSE m[c]]

Written(m, T, b) ==
  [c \in Clusters |->
     IF c \in T THEN Piece(b, Cardinality(Upto(T, c))) ELSE m[c]]

\* What the clusters of a damaged volume contain is not followed.
Blank == [c \in Clusters |-> [i \in 1..ClusterBytes |-> Zero]]
Follow(m) == data' = IF damaged' THEN Blank ELSE m

Reads(b) == [is |-> "file", bytes |-> b]
Fails(why) == [is |-> why, bytes |-> <<>>]

\* fat16_read_file with room for the whole file; a chain that ends early
\* gives fewer bytes.
read_entry(f, m, e) ==
  LET C == Chain(f, e.start)
      At(k) == CHOOSE c \in C : Cardinality(Upto(C, c)) = k
      got == IF e.size <= Cardinality(C) * ClusterBytes THEN e.size
             ELSE Cardinality(C) * ClusterBytes
  IN  IF e.size = 0 THEN Reads(<<>>)
      ELSE IF e.start < 2 THEN Fails("error")
      ELSE Reads([i \in 1..got |->
                    m[At(((i - 1) \div ClusterBytes) + 1)]
                     [((i - 1) % ClusterBytes) + 1]])

read_file(f, d, m, n) ==
  IF Found(d, n) = {} THEN Fails("missing")
  ELSE read_entry(f, m, d[Least(Found(d, n))])

-----------------------------------------------------------------------------
(* fat16_create_file.  The entry of a file that exists is filled with      *)
(* zeros, its name included: it becomes an end mark.                       *)

create_file(p) ==
  \/ /\ Exists(p)
     /\ fat' = free_chain(fat, dir[EntryOf(p)].start)
     /\ dir' = [dir EXCEPT ![EntryOf(p)] = EndMark]
     /\ recreated' = TRUE
     /\ UNCHANGED <<data, damaged>>
  \/ /\ ~Exists(p) /\ HasSlot
     /\ dir' = [dir EXCEPT ![Least(FreeSlots(dir))] = NewEntry(Whole[p])]
     /\ UNCHANGED <<fat, data, damaged, recreated>>

(* fat16_write_file: the old chain is freed, a new one allocated, the data *)
(* written and at last the entry updated.                                  *)

WriteSlot(p) == IF Exists(p) THEN EntryOf(p) ELSE Least(FreeSlots(dir))
WriteName(p) == IF Exists(p) THEN Component[p] ELSE Whole[p]
Proceeds(p) == Exists(p) \/ HasSlot

\* Mutant: the chain the file had is not freed.
FreedNot(p) == fat

Freed(p) ==
  IF Exists(p) THEN free_chain(fat, dir[EntryOf(p)].start) ELSE fat

Enough(p, n) == Cardinality(FreeIn(Freed(p))) >= n

Updated(p, start, len) ==
  [dir EXCEPT ![WriteSlot(p)] =
     [name |-> WriteName(p), start |-> start, size |-> len]]

WriteEmpty(p) ==
  /\ Proceeds(p)
  /\ fat' = Freed(p)
  /\ dir' = Updated(p, 0, 0)
  /\ UNCHANGED <<data, damaged, recreated>>

WriteSucceeds(p, b) ==
  LET T == FirstFree(Freed(p), need(Len(b))) IN
  /\ Proceeds(p)
  /\ b # <<>> /\ Enough(p, need(Len(b)))
  /\ fat' = Linked(Freed(p), T)
  /\ UNCHANGED <<damaged, recreated>>
  /\ Follow(Written(data, T, b))
  /\ dir' = Updated(p, Least(T), Len(b))

\* -3: too few free clusters, or no memory for the list of them.
WriteAllocFails(p, b) ==
  /\ Proceeds(p)
  /\ b # <<>>
  /\ fat' = Freed(p)
  /\ damaged' = (damaged \/ fat' # fat)
  /\ Follow(data)
  /\ UNCHANGED <<dir, recreated>>

\* -1: the block cache refuses a write to one of the clusters.
WriteDataFails(p, b) ==
  LET T == FirstFree(Freed(p), need(Len(b))) IN
  /\ Proceeds(p)
  /\ b # <<>> /\ Enough(p, need(Len(b)))
  /\ fat' = Linked(Freed(p), T)
  /\ damaged' = TRUE
  /\ Follow(data)
  /\ UNCHANGED <<dir, recreated>>

write_file(p, b) ==
  \/ b = <<>> /\ WriteEmpty(p)
  \/ WriteSucceeds(p, b)
  \/ WriteAllocFails(p, b)
  \/ WriteDataFails(p, b)

-----------------------------------------------------------------------------
(* The block cache refuses transfers of the table or the directory, and    *)
(* nobody asks: an entry that cannot be written keeps its value, one that  *)
(* cannot be read counts as the end of a chain and is not free.            *)

\* The tables in which free_chain can end.
PartlyFreed(f, s) ==
  {[c \in Clusters |-> IF c \in F THEN 0 ELSE f[c]] : F \in SUBSET Chain(f, s)}
FreedSomehow(p) ==
  IF Exists(p) THEN PartlyFreed(fat, dir[EntryOf(p)].start) ELSE {fat}

\* Of the links that allocate_chain makes, those of W are written.
PartlyLinked(f, T, W) ==
  [c \in Clusters |-> IF c \in W THEN Linked(f, T)[c] ELSE f[c]]

CreateUnnoticed(p) ==
  /\ Exists(p)
  /\ fat' \in PartlyFreed(fat, dir[EntryOf(p)].start)
  /\ dir' \in {dir, [dir EXCEPT ![EntryOf(p)] = EndMark]}

\* Too few clusters seem to be free, or the data cannot be written (W may be
\* all of T), or the chain is linked in part; the entry is written or not.
WriteUnnoticed(p, b) ==
  /\ Proceeds(p)
  /\ \E f \in FreedSomehow(p) :
       \/ /\ fat' = f
          /\ dir' \in IF b = <<>> THEN {dir, Updated(p, 0, 0)} ELSE {dir}
       \/ /\ b # <<>>
          /\ \E T \in SUBSET FreeIn(f) : \E W \in SUBSET T :
               /\ Cardinality(T) = need(Len(b))
               /\ fat' = PartlyLinked(f, T, W)
               /\ dir' \in {dir, Updated(p, Least(T), Len(b))}

Unnoticed(p) ==
  /\ CreateUnnoticed(p) \/ \E b \in Contents : WriteUnnoticed(p, b)
  /\ damaged' = TRUE
  /\ Follow(data)
  /\ UNCHANGED recreated

\* A volume that has just been formatted.
Init ==
  /\ fat = [c \in Clusters |-> 0]
  /\ dir \in Images
  /\ data = Blank
  /\ damaged = FALSE
  /\ recreated = FALSE

Next ==
  \E p \in Paths :
    create_file(p) \/ (\E b \in Contents : write_file(p, b)) \/ Unnoticed(p)

Spec == Init /\ [][Next]_vars

-----------------------------------------------------------------------------
(* Properties.                                                             *)

Entries == [name : ShortNames \union {"end", "deleted"},
            start : {0} \union Clusters, size : Nat]

\* Type invariant.
TypeOK ==
  /\ fat \in [Clusters -> {0, EOC} \union Clusters]
  /\ dir \in [Slots -> Entries]
  /\ data \in [Clusters -> [1..ClusterBytes -> Bytes \union {Zero}]]
  /\ damaged \in BOOLEAN /\ recreated \in BOOLEAN

\* Every link of the table goes to a higher cluster, whatever has failed
\* before, noticed or not: the loops of free_chain and fat16_read_file come to
\* an end.
LinksAscend ==
  \A c \in Clusters : fat[c] \in Clusters => fat[c] > c

ChainOf(i) == Chain(fat, dir[i].start)

\* Until a call fails half way, the chains are sound, those of entries that an
\* end mark hides too: every file owns as many clusters as its size needs, if
\* a uint16_t can count them, no two files share one, and every allocated
\* cluster belongs to a file.  Until fat16_create_file is called for a file
\* that exists, no file is hidden and no name is in the directory twice.
Sound ==
  TypeOK /\ (damaged \/
    /\ \A i \in Entered(dir) :
         LET n == ClustersFor(dir[i].size) IN
         IF n < CountMod THEN Cardinality(ChainOf(i)) = n
         ELSE Cardinality(ChainOf(i)) \in 1..(CountMod - 1)
    /\ \A i, j \in Entered(dir) :
         i # j => ChainOf(i) \intersect ChainOf(j) = {}
    /\ UNION {ChainOf(i) : i \in Entered(dir)} = Clusters \ FreeIn(fat)
    /\ \/ recreated
       \/ /\ Entered(dir) \subseteq Seen(dir)
          /\ \A i, j \in Entered(dir) : dir[i].name = dir[j].name => i = j)

\* The files a caller can read are those of an abstract store of files, in
\* which a write replaces the contents of one file and touches no other.  The
\* store says what is left of a write that is too long for need, and which
\* files fat16_create_file hides when the file exists; after a call that has
\* failed half way it says nothing.
Files ==
  [n \in ShortNames |->
     IF damaged THEN Fails("unknown") ELSE read_file(fat, dir, data, n)]
Stored ==
  [n \in ShortNames |->
     IF damaged THEN {}
     ELSE {read_entry(fat, data, dir[i]) :
             i \in {j \in Entered(dir) : dir[j].name = n}}]
Store ==
  INSTANCE FileStore WITH
    Names <- ShortNames, Limit <- (CountMod - 1) * ClusterBytes,
    files <- Files, stored <- Stored, hiding <- recreated
StoreSpec == Store!Spec
=============================================================================
