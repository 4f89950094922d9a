-------------------------------- MODULE Ext2 --------------------------------
(***************************************************************************)
(* The ext2 driver src/kernel/fs/ext/ext2.c on a volume that is mounted    *)
(* through the block cache: the bitmaps and the free counts, the inode     *)
(* table, the root directory and the data blocks, and the operations that  *)
(* change them.  The driver is entered by one thread of control, so a call *)
(* is one step; ext2_write_inode_data, which returns to its caller only    *)
(* after several blocks, is one step for each block.                       *)
(*                                                                         *)
(* A block is seen at three scales: as directory records it has BlockBytes *)
(* bytes, as data it has CellsPerBlock cells, as an indirect block it has  *)
(* PtrsPerBlock pointers.  A fault is a transfer that the drive refuses, or *)
(* a kmalloc that fails: a call gives up, or goes on, in the same way.     *)
(***************************************************************************)
EXTENDS Integers, Sequences, FiniteSets, Functions

CONSTANTS
  s_blocks_count, s_blocks_per_group, s_inodes_per_group,
  s_first_data_block,
  Meta,            \* superblock, descriptors, bitmaps and inode tables
  NDirect,         \* direct pointers of an inode (12)
  PtrsPerBlock,    \* block_size / 4
  BlockBytes,      \* block_size
  CellsPerBlock,
  WordMod,         \* 2^32: sizes and offsets are uint32_t
  Names,           \* names of directory entries
  NameLen,         \* NameLen[n]: str_len(n)
  Values, Zero,    \* what a cell contains
  Unknown,         \* a cell the clients have not written
  Clients,         \* the callers that keep a struct ext2_inode in memory
  Writes,          \* what they write: an offset and a sequence of values
  Images,          \* the volumes that are mounted
  MaxFaults        \* bound on the faults

EXT2_ROOT_INO == 2
None == 0

\* num_groups, as both mount functions compute it.
num_groups == (s_blocks_count + s_blocks_per_group - 1) \div s_blocks_per_group
Groups == 0..(num_groups - 1)
Kinds == {"blocks", "inodes"}

\* s_blocks_per_group or s_inodes_per_group: the bits of one bitmap.
Bits(k) == 0..((IF k = "blocks" THEN s_blocks_per_group ELSE s_inodes_per_group) - 1)

\* The block or inode that bit i of group g stands for.
Number(k, g, i) ==
  IF k = "blocks" THEN g * s_blocks_per_group + i + s_first_data_block
  ELSE g * s_inodes_per_group + i + 1

Blocks == s_first_data_block..(s_blocks_count - 1)
Inos == 1..(num_groups * s_inodes_per_group)
Pointers == 0..(NDirect + 2)                    \* of i_block
MaxCells == NDirect * CellsPerBlock             \* what can be written
History == [0..(MaxCells - 1) -> Values \union {Unknown}]

ASSUME Ext2Assumption ==
  /\ {s_blocks_count, s_blocks_per_group, s_inodes_per_group} \subseteq Nat \ {0}
  /\ s_first_data_block \in Nat /\ s_first_data_block < s_blocks_count
  /\ {NDirect, PtrsPerBlock, BlockBytes, CellsPerBlock} \subseteq Nat \ {0}
  /\ WordMod \in Nat /\ 2 * MaxCells < WordMod
  /\ NameLen \in [Names -> 1..255]     \* of a longer one, name_len would be cut
  /\ Zero \notin Values /\ Unknown \notin Values \union {Zero}
  /\ \A w \in Writes : w.off \in Nat /\ w.data \in Seq(Values)
  /\ 0 \notin Blocks \ Meta
  /\ EXT2_ROOT_INO \in Inos
  /\ MaxFaults \in Nat

VARIABLES
  meta,     \* bitmaps, free counts of the groups, in memory and on disk
  inode,    \* the inode tables
  recs,     \* recs[b]: the records of b, up to a rec_len of 0
  ptrs,     \* ptrs[b]: its pointers
  data,     \* data[b]: its cells
  copy,     \* copy[c]: the inode that client c has read, and its number
  call,     \* the ext2_write_inode_data in progress
  faults,   \* faults so far
  unsure,   \* history: a lookup of ext2_create_file could not read a block
  kept,     \* history: what the inode that was last written back should show
  wrote     \* history: what the copy of each client should show

vars == <<meta, inode, recs, ptrs, data, copy, call, faults, unsure, kept, wrote>>

\* A struct ext2_inode; the size of a file is in cells, that of a directory
\* in bytes, and target is the text of a link.
Inode(mode, size, iblocks, block, target) ==
  [mode |-> mode, size |-> size, iblocks |-> iblocks, block |-> block,
   target |-> target]
NoPointers == [p \in Pointers |-> None]
NewInode == Inode("reg", 0, 0, NoPointers, <<>>)
NoCopy == [ino |-> None, inode |-> NewInode]
Idle == [op |-> "idle", client |-> None, off |-> 0, done |-> 0, data |-> <<>>]
Nothing == [i \in 0..(MaxCells - 1) |-> Unknown]

Least(S) == CHOOSE x \in S : \A y \in S : x <= y
Smaller(m, n) == IF m <= n THEN m ELSE n

\* Sums(n, f)[i] is the sum of f[0] .. f[i - 1].
Sums(n, f) ==
  LET upTo[i \in 0..n] == IF i = 0 THEN 0 ELSE upTo[i - 1] + f[i - 1]
  IN  upTo

-----------------------------------------------------------------------------
(* ext2_allocate_block and ext2_allocate_inode.                            *)

Clear(m, k, g) == Bits(k) \ m.bits[k][g]
FirstClear(m, k, g) == Least(Clear(m, k, g))
Less(n) == IF n > 0 THEN n - 1 ELSE n

\* Mutant: the bitmap is not written back.
MarkedNot(m, k, g) == m

\* The bit is set in the bitmap ...
Marked(m, k, g) ==
  [bits  |-> [m.bits EXCEPT ![k][g] = @ \union {FirstClear(m, k, g)}],
   free  |-> m.free, super |-> m.super, sdisk |-> m.sdisk]

\* Mutant: the count on disk is that before the allocation.
CountedStale(m, k, g, stored) ==
  [bits  |-> Marked(m, k, g).bits,
   free  |-> [m.free EXCEPT ![k][g] = Less(@)],
   super |-> [m.super EXCEPT ![k] = Less(@)],
   sdisk |-> IF stored THEN [m.sdisk EXCEPT ![k] = m.super[k]] ELSE m.sdisk]

\* ... and counted in the descriptor of the group and in the superblock, on
\* disk only if the superblock can be read and written.
Counted(m, k, g, stored) ==
  [bits  |-> Marked(m, k, g).bits,
   free  |-> [m.free EXCEPT ![k][g] = Less(@)],
   super |-> [m.super EXCEPT ![k] = Less(@)],
   sdisk |-> IF stored THEN [m.sdisk EXCEPT ![k] = Less(m.super[k])] ELSE m.sdisk]

Open(m, k) == {g \in Groups : Clear(m, k, g) # {}}
First(m, k) == Least(Open(m, k))

Outcome(m, got, bad) == [meta |-> m, got |-> got, bad |-> bad]

\* Every way an allocation can end.  A group that cannot be read is passed
\* over; got is None when the call fails.
Allocations(m, k) ==
  {Outcome(m, None, bad) : bad \in IF Open(m, k) = {} THEN {0} ELSE {1}}
    \union {Outcome(Marked(m, k, g), None, 1) : g \in Open(m, k)}
    \union {Outcome(Counted(m, k, g, stored), Number(k, g, FirstClear(m, k, g)),
                    IF stored /\ g = First(m, k) THEN 0 ELSE 1) :
              g \in Open(m, k), stored \in BOOLEAN}

Succeeded(S) == {o \in S : o.got # None}
Refused(S) == {o \in S : o.got = None}
Faulty(n) == faults + n <= MaxFaults /\ faults' = faults + n

-----------------------------------------------------------------------------
(* The volumes that are mounted: the driver checks no more than a magic    *)
(* number, and relies on the rest.                                         *)

\* The blocks or inodes whose bits are set.
Numbers(bits, k) == UNION {{Number(k, g, i) : i \in bits[k][g]} : g \in Groups}

\* The sum over all groups.
SumOf(f) == Sums(num_groups, f)[num_groups]

\* The blocks a file consists of, its indirect blocks included; t[b] are the
\* pointers in block b.
Kids(t, S) == UNION {{t[b][i] : i \in DOMAIN t[b]} : b \in S} \ {None}
Owns(t, nd) ==
  LET Top(p) == {nd.block[p]} \ {None}
      two == Top(NDirect + 1) \union Kids(t, Top(NDirect + 2))
      one == Top(NDirect) \union Kids(t, two)
  IN  two \union one \union Kids(t, one) \union Top(NDirect + 2)
        \union ({nd.block[p] : p \in 0..(NDirect - 1)} \ {None})

Tables == [Pointers -> Blocks \union {None}]
Distinct(f) == \A p, q \in DOMAIN f : f[p] = f[q] /\ p # q => f[p] = None

\* Every block belongs to one file, to the metadata or to nobody; those of
\* nobody are the clear bits, and they are counted.
Consistent(im) ==
  /\ im.bits \in [Kinds -> [Groups -> SUBSET Nat]]
  /\ im.free \in [Kinds -> [Groups -> Nat]] /\ im.super \in [Kinds -> Nat]
  /\ \A k \in Kinds : /\ im.super[k] = SumOf(im.free[k])
                     /\ \A g \in Groups : /\ im.bits[k][g] \subseteq Bits(k)
                                         /\ im.free[k][g] = Cardinality(Clear(im, k, g))
  /\ \A g \in Groups : \A i \in Clear(im, "blocks", g) : Number("blocks", g, i) \in Blocks \ Meta
  /\ DOMAIN im.inode = Inos
  /\ \A i \in Inos : /\ im.inode[i].block \in Tables /\ Distinct(im.inode[i].block)
                    /\ im.inode[i].size \in Nat
                    /\ Owns(im.ptrs, im.inode[i]) \subseteq Numbers(im.bits, "blocks") \ Meta
                    /\ \A j \in Inos : i # j => Owns(im.ptrs, im.inode[i])
                                                \intersect Owns(im.ptrs, im.inode[j]) = {}

ASSUME ImageAssumption == \A im \in Images : Consistent(im)

-----------------------------------------------------------------------------
(* The block map: ext2_get_block_num and ext2_read_inode_data.             *)

Through(b, i) == IF b = None THEN None ELSE ptrs[b][i]

\* Mutant: the index within the double indirect block is taken the other way
\* round.
ext2_get_block_num_swapped(nd, index) ==
  LET P == PtrsPerBlock
      i == index - NDirect
      j == i - P
      n == j - P * P IN
  IF index < NDirect THEN nd.block[index]
  ELSE IF i < P THEN Through(nd.block[NDirect], i)
  ELSE IF j < P * P
       THEN Through(Through(nd.block[NDirect + 1], j % P), j \div P)
  ELSE IF n < P * P * P
       THEN Through(Through(Through(nd.block[NDirect + 2], n \div (P * P)),
                            (n \div P) % P), n % P)
  ELSE None

\* The block of a file, or None where there is none.
ext2_get_block_num(nd, index) ==
  LET P == PtrsPerBlock
      i == index - NDirect
      j == i - P
      n == j - P * P IN
  IF index < NDirect THEN nd.block[index]
  ELSE IF i < P THEN Through(nd.block[NDirect], i)
  ELSE IF j < P * P
       THEN Through(Through(nd.block[NDirect + 1], j \div P), j % P)
  ELSE IF n < P * P * P
       THEN Through(Through(Through(nd.block[NDirect + 2], n \div (P * P)),
                            (n \div P) % P), n % P)
  ELSE None

CellBlock(nd, at) == ext2_get_block_num(nd, at \div CellsPerBlock)

\* bytes_to_read.  The sum is cut to 32 bits: for a buffer so long that it
\* wraps, the size of the file is no bound.
ToRead(nd, off, len) ==
  LET n == len % WordMod
  IN  IF off >= nd.size THEN 0
      ELSE IF (off + n) % WordMod > nd.size THEN nd.size - off ELSE n

\* The loop stops at the first hole.
ext2_read_inode_data(nd, off, len) ==
  LET want == ToRead(nd, off, len)
      Upto == {n \in 0..want : \A i \in 0..(n - 1) : CellBlock(nd, off + i) # None}
      n == CHOOSE x \in Upto : \A y \in Upto : y <= x
  IN  [i \in 1..n |-> data[CellBlock(nd, off + i - 1)][(off + i - 1) % CellsPerBlock]]

-----------------------------------------------------------------------------
(* Directories.                                                            *)

Rec(ino, len, name) == [ino |-> ino, len |-> len, name |-> name]

\* Begin(s)[i]: where record i + 1 of a block begins, counted in bytes.
Begin(s) == Sums(Len(s), [i \in 0..(Len(s) - 1) |-> s[i + 1].len])
Length(s) == Begin(s)[Len(s)]

\* The blocks a scan of a directory may come to: the direct ones, or all.
Direct(nd) == [k \in 0..(NDirect - 1) |-> nd.block[k]]
Every(nd) ==
  LET P == PtrsPerBlock
  IN  [k \in 0..(NDirect + P + P * P + P * P * P - 1) |-> ext2_get_block_num(nd, k)]

\* A scan stops at the first block that is not there.  read_offset when it
\* comes to block k:
Scanned(bl) == {k \in DOMAIN bl : \A m \in 0..k : bl[m] # None}
ReadOffset(bl) ==
  LET n == Cardinality(Scanned(bl))
  IN  Sums(n, [k \in 0..(n - 1) |-> Length(recs[bl[k]])])

\* The records that it meets, as <<block, record>>.
Met(nd, bl) ==
  UNION {LET s == recs[bl[k]]
             start == ReadOffset(bl)[k]
             at == Begin(s)
         IN  {<<k, i>> : i \in {j \in DOMAIN s : start + at[j - 1] < nd.size}} :
           k \in Scanned(bl)}
RecAt(bl, p) == recs[bl[p[1]]][p[2]]
Live(nd, bl) == {p \in Met(nd, bl) : RecAt(bl, p).ino # None}
Before(p, q) == p[1] < q[1] \/ (p[1] = q[1] /\ p[2] <= q[2])

\* The inode of the first entry with the name, or None.
ext2_find_file_in_dir(nd, name) ==
  LET bl == Direct(nd)
      S == {p \in Live(nd, bl) : RecAt(bl, p).name = name}
  IN  IF nd.mode # "dir" \/ S = {} THEN None
      ELSE RecAt(bl, CHOOSE p \in S : \A q \in S : Before(p, q)).ino

\* The names that are printed.
ext2_list_root(nd) == {RecAt(Direct(nd), p).name : p \in Live(nd, Direct(nd))}
ext2_list_dir(nd) ==
  IF nd.mode # "dir" THEN {}
  ELSE {RecAt(Every(nd), p).name : p \in Live(nd, Every(nd))}

root == inode[EXT2_ROOT_INO]

\* ext2_read_file: a regular file in the root, from its direct blocks.
ext2_read_file(name, len) ==
  LET nd == inode[ext2_find_file_in_dir(root, name)]
      want == Smaller(nd.size, len)
      Upto == {n \in 0..Smaller(want, MaxCells) :
                 \A i \in 0..(n - 1) : nd.block[i \div CellsPerBlock] # None}
      n == CHOOSE x \in Upto : \A y \in Upto : y <= x
  IN  [i \in 1..n |-> data[nd.block[(i - 1) \div CellsPerBlock]]
                          [(i - 1) % CellsPerBlock]]

Needed(n) == ((8 + NameLen[n] + 3) \div 4) * 4

Unused(s, n) == {i \in DOMAIN s : s[i].ino = None /\ s[i].len >= Needed(n)}

\* The last record can be cut behind its own name to make room.
Splits(s, n) ==
  /\ s # <<>>
  /\ Length(s) <= BlockBytes
  /\ s[Len(s)].len >= Needed(s[Len(s)].name) + Needed(n)
HasRoom(s, n) == Unused(s, n) # {} \/ Splits(s, n)

\* Mutant: the new record gets the length that the last one had.
InsertedLong(s, n, ino) ==
  IF Unused(s, n) # {}
  THEN [s EXCEPT ![Least(Unused(s, n))] = Rec(ino, @.len, n)]
  ELSE LET l == s[Len(s)] IN
       Append([s EXCEPT ![Len(s)] = Rec(l.ino, Needed(l.name), l.name)],
              Rec(ino, l.len, n))

Inserted(s, n, ino) ==
  IF Unused(s, n) # {}
  THEN [s EXCEPT ![Least(Unused(s, n))] = Rec(ino, @.len, n)]
  ELSE LET l == s[Len(s)] IN
       Append([s EXCEPT ![Len(s)] = Rec(l.ino, Needed(l.name), l.name)],
              Rec(ino, l.len - Needed(l.name), n))

Records == [ino : Inos \union {None}, len : Nat, name : Names]
InUse(s) == {i \in DOMAIN s : s[i].ino # None}

\* The records of a block fill it without a gap, each has room for its name,
\* and every entry names an inode of its own that is in use.
BlockSound(s, used, nodes) ==
  /\ Length(s) = BlockBytes
  /\ \A i \in DOMAIN s : s[i].len >= Needed(s[i].name)
  /\ \A i \in InUse(s) : s[i].ino \in used /\ nodes[s[i].ino].mode # "none"
  /\ \A i, j \in InUse(s) : s[i].ino = s[j].ino /\ i # j => s[i].ino = EXT2_ROOT_INO
NamesOnce(s) == \A i, j \in InUse(s) : s[i].name = s[j].name => i = j

\* The root directory of a volume that is mounted.  If it has no block, then
\* the blocks it could get hold no records.
RootSound(im) ==
  LET nd == im.inode[EXT2_ROOT_INO]
      first == im.recs[nd.block[0]] IN
  /\ im.recs \in [Blocks -> Seq(Records)]
  /\ nd.mode = "dir" /\ nd.size \in Nat
  /\ EXT2_ROOT_INO \in Numbers(im.bits, "inodes")
  /\ IF nd.block[0] = None
       THEN \A b \in Blocks \ Numbers(im.bits, "blocks") : im.recs[b] = <<>>
       ELSE /\ nd.size >= BlockBytes /\ NamesOnce(first)
            /\ BlockSound(first, Numbers(im.bits, "inodes"), im.inode)

ASSUME RootAssumption == \A im \in Images : RootSound(im)

-----------------------------------------------------------------------------
(* ext2_create_file: the inode, then the entry in the first block of the   *)
(* root directory.  Nothing is given back when a later part fails.         *)

\* The name is not found, or (bad = 1) a block that the lookup needs cannot be
\* read, which is taken for the same.
Looked(n, bad) == ext2_find_file_in_dir(root, n) # None => bad = 1

\* -6: no inode; its bit may have been set.
CreateNoInode(n) ==
  \E o \in Refused(Allocations(meta, "inodes")), bad \in 0..1 :
    /\ Looked(n, bad)
    /\ meta' = o.meta
    /\ Faulty(o.bad + bad)
    /\ UNCHANGED <<inode, recs, ptrs, data, copy, call, unsure, kept, wrote>>

\* -7: the inode cannot be written.
CreateInodeFails(n) ==
  \E o \in Succeeded(Allocations(meta, "inodes")), bad \in 0..1 :
    /\ Looked(n, bad)
    /\ meta' = o.meta
    /\ Faulty(o.bad + bad + 1)
    /\ UNCHANGED <<inode, recs, ptrs, data, copy, call, unsure, kept, wrote>>

\* The first block of the root directory is there, or is allocated.
RootBlocks(m) ==
  IF root.block[0] # None THEN {Outcome(m, root.block[0], 0)}
  ELSE Allocations(m, "blocks")

\* The root inode with that block.
RootWith(b) ==
  IF root.block[0] # None THEN root
  ELSE Inode(root.mode, root.size + BlockBytes, root.iblocks + 1,
             [root.block EXCEPT ![0] = b], root.target)

\* The new inode, and the root inode nd, are written.
Created(ino, nd) ==
  /\ inode' = [inode EXCEPT ![ino] = NewInode, ![EXT2_ROOT_INO] = nd]
  /\ kept' = [kept EXCEPT ![ino] = Nothing]
  /\ UNCHANGED <<ptrs, data, copy, call, wrote>>

\* -8 to -12: no block, no memory, no room, or the block cannot be read or
\* written.
CreateNoEntry(n) ==
  \E o \in Succeeded(Allocations(meta, "inodes")), bad, late \in 0..1 :
  \E r \in RootBlocks(o.meta) :
    /\ Looked(n, bad)
    /\ r.got # None /\ HasRoom(recs[r.got], n) => late = 1
    /\ meta' = r.meta
    /\ Faulty(o.bad + r.bad + bad + late)
    /\ Created(o.got, root)
    /\ UNCHANGED <<recs, unsure>>

\* The entry is written; the root inode is written last, or (late = 1) cannot
\* be: -13.
CreateDone(n) ==
  \E o \in Succeeded(Allocations(meta, "inodes")), bad, late \in 0..1 :
  \E r \in Succeeded(RootBlocks(o.meta)) :
    /\ Looked(n, bad)
    /\ HasRoom(recs[r.got], n)
    /\ meta' = r.meta
    /\ Faulty(o.bad + r.bad + bad + late)
    /\ recs' = [recs EXCEPT ![r.got] = Inserted(@, n, o.got)]
    /\ unsure' = (unsure \/ bad = 1)
    /\ Created(o.got, IF late = 1 THEN root ELSE RootWith(r.got))

ext2_create_file(n) ==
  CreateNoInode(n) \/ CreateInodeFails(n) \/ CreateNoEntry(n) \/ CreateDone(n)

-----------------------------------------------------------------------------
(* The clients.  A file is written through a copy of its inode, which a    *)
(* client reads, changes and writes back.  Nothing keeps two clients from  *)
(* doing so with the same inode.                                           *)

Owner(c) == copy[c].ino

ext2_read_inode(c, ino) ==
  /\ Owner(c) = None
  /\ inode[ino].mode = "reg"
  /\ copy' = [copy EXCEPT ![c] = [ino |-> ino, inode |-> inode[ino]]]
  /\ wrote' = [wrote EXCEPT ![c] = kept[ino]]
  /\ UNCHANGED <<meta, inode, recs, ptrs, data, call, faults, unsure, kept>>

ext2_write_inode(c) ==
  /\ Owner(c) # None
  /\ inode' = [inode EXCEPT ![Owner(c)] = copy[c].inode]
  /\ kept' = [kept EXCEPT ![Owner(c)] = wrote[c]]
  /\ UNCHANGED <<meta, recs, ptrs, data, copy, call, faults, unsure, wrote>>

\* The client forgets the copy, whether it was written back or not.
Forget(c) ==
  /\ Owner(c) # None
  /\ copy' = [copy EXCEPT ![c] = NoCopy]
  /\ wrote' = [wrote EXCEPT ![c] = Nothing]
  /\ UNCHANGED <<meta, inode, recs, ptrs, data, call, faults, unsure, kept>>

\* The copy with block b as its k-th, counted as n more in i_blocks.
Pointing(nd, k, b, n) ==
  Inode(nd.mode, nd.size, nd.iblocks + n, [nd.block EXCEPT ![k] = b], nd.target)
Holding(c, nd) == copy' = [copy EXCEPT ![c] = [ino |-> Owner(c), inode |-> nd]]

\* The block of index k < NDirect, or a new one.
BlockFor(nd, k) ==
  IF nd.block[k] # None THEN {Outcome(meta, nd.block[k], 0)}
  ELSE Allocations(meta, "blocks")

\* It does not count the block in i_blocks.
ext2_get_or_alloc_block(c, k) ==
  \E o \in BlockFor(copy[c].inode, k) :
    /\ Owner(c) # None /\ copy[c].inode.block[k] = None
    /\ meta' = o.meta
    /\ Faulty(o.bad)
    /\ Holding(c, IF o.got = None THEN copy[c].inode
                  ELSE Pointing(copy[c].inode, k, o.got, 0))
    /\ UNCHANGED <<inode, recs, ptrs, data, call, unsure, kept, wrote>>

-----------------------------------------------------------------------------
(* ext2_write_inode_data.                                                  *)

StartWrite(c, w) ==
  /\ Owner(c) # None
  /\ call' = [op |-> "write", client |-> c, off |-> w.off, done |-> 0, data |-> w.data]
  /\ UNCHANGED <<meta, inode, recs, ptrs, data, copy, faults, unsure, kept, wrote>>

Writer == call.client
WriteAt == call.off + call.done
WriteIndex == WriteAt \div CellsPerBlock
Piece == Smaller(CellsPerBlock - (WriteAt % CellsPerBlock), Len(call.data) - call.done)
MoreToWrite == call.op = "write" /\ call.done < Len(call.data) /\ WriteIndex < NDirect

InPiece(i) == WriteAt <= i /\ i < WriteAt + Piece
InBlock(i) == i \div CellsPerBlock = WriteIndex
Given(i) == call.data[i - call.off + 1]

\* Mutant: the copy starts at the beginning of the block.
FilledFromStart(old) ==
  [i \in 0..(CellsPerBlock - 1) |->
     IF i < Piece THEN call.data[call.done + i + 1] ELSE old[i]]

\* The block that was read, with this part of the buffer copied into it.
Filled(old) ==
  [i \in 0..(CellsPerBlock - 1) |->
     LET at == WriteIndex * CellsPerBlock + i
     IN  IF InPiece(at) THEN Given(at) ELSE old[i]]
ZeroBlock == [i \in 0..(CellsPerBlock - 1) |-> Zero]

\* What a reader should find afterwards: if the block could not be read, the
\* rest of it is lost.
Remembered(h, lost, readable(_)) ==
  [i \in 0..(MaxCells - 1) |->
     IF ~InBlock(i) \/ ~readable(i) THEN h[i]
     ELSE IF InPiece(i) THEN Given(i)
     ELSE IF lost THEN Unknown ELSE h[i]]

\* The same for those who read through inode nd, on the disk or in the copy of
\* another client: block b changes for them if they have it.
RememberedBy(nd, h, b, lost) ==
  Remembered(h, lost, LAMBDA i : i < nd.size /\ nd.block[WriteIndex] = b)

\* One round of the loop.  A block that cannot be read is taken to be empty.
WriteBlock ==
  /\ MoreToWrite
  /\ \E o \in Succeeded(BlockFor(copy[Writer].inode, WriteIndex)), lost \in BOOLEAN :
       LET nd == copy[Writer].inode
           b == o.got
           isNew == nd.block[WriteIndex] = None IN
       /\ meta' = o.meta
       /\ Faulty(o.bad + (IF lost THEN 1 ELSE 0))
       /\ Holding(Writer, IF isNew THEN Pointing(nd, WriteIndex, b, 1) ELSE nd)
       /\ data' = [data EXCEPT ![b] = Filled(IF lost THEN ZeroBlock ELSE @)]
       /\ call' = [call EXCEPT !.done = @ + Piece]
       /\ wrote' = [c \in Clients |->
                     IF c = Writer THEN Remembered(wrote[c], lost, LAMBDA i : TRUE)
                     ELSE RememberedBy(copy[c].inode, wrote[c], b, lost)]
       /\ kept' = [i \in Inos |-> RememberedBy(inode[i], kept[i], b, lost)]
       /\ UNCHANGED <<inode, recs, ptrs, unsure>>

\* The end of the call: the size covers what was written.
Ended(nd) ==
  Inode(nd.mode, IF WriteAt > nd.size THEN WriteAt ELSE nd.size, nd.iblocks,
        nd.block, nd.target)

WriteEnd ==
  /\ call.op = "write" /\ ~MoreToWrite
  /\ Holding(Writer, Ended(copy[Writer].inode))
  /\ call' = Idle
  /\ UNCHANGED <<meta, inode, recs, ptrs, data, faults, unsure, kept, wrote>>

\* It ends early when there is no block ...
WriteNoBlock ==
  /\ MoreToWrite
  /\ \E o \in Refused(BlockFor(copy[Writer].inode, WriteIndex)) :
       /\ meta' = o.meta
       /\ Faulty(o.bad)
       /\ Holding(Writer, Ended(copy[Writer].inode))
       /\ call' = Idle
       /\ UNCHANGED <<inode, recs, ptrs, data, unsure, kept, wrote>>

\* ... or when there is no memory or the block cannot be written: a block
\* that is new belongs to the file all the same.
WriteFails ==
  /\ MoreToWrite
  /\ \E o \in Succeeded(BlockFor(copy[Writer].inode, WriteIndex)) :
       LET nd == copy[Writer].inode IN
       /\ meta' = o.meta
       /\ Faulty(o.bad + 1)
       /\ Holding(Writer, Ended(IF nd.block[WriteIndex] # None THEN nd
                                ELSE Pointing(nd, WriteIndex, o.got, 1)))
       /\ call' = Idle
       /\ UNCHANGED <<inode, recs, ptrs, data, unsure, kept, wrote>>

-----------------------------------------------------------------------------
\* ext2_mount_with_cache, for any volume with the magic number.
Init ==
  \E im \in Images :
    /\ meta = [bits |-> im.bits, free |-> im.free, super |-> im.super,
               sdisk |-> im.super]
    /\ inode = im.inode /\ recs = im.recs /\ ptrs = im.ptrs
    /\ data = [b \in Blocks |-> ZeroBlock]
    /\ copy = [c \in Clients |-> NoCopy]
    /\ call = Idle
    /\ faults = 0 /\ unsure = FALSE
    /\ kept = [i \in Inos |-> Nothing]
    /\ wrote = [c \in Clients |-> Nothing]

Calls ==
  \/ \E n \in Names : ext2_create_file(n)
  \/ \E c \in Clients :
       \/ \E i \in Inos : ext2_read_inode(c, i)
       \/ ext2_write_inode(c)
       \/ Forget(c)
       \/ \E k \in 0..(NDirect - 1) : ext2_get_or_alloc_block(c, k)
       \/ \E w \in Writes : StartWrite(c, w)

Next ==
  \/ call.op = "idle" /\ Calls
  \/ WriteBlock \/ WriteEnd \/ WriteNoBlock \/ WriteFails

Spec == Init /\ [][Next]_vars

-----------------------------------------------------------------------------
(* Properties.                                                             *)

\* Type invariant.
TypeOK ==
  /\ meta \in [bits : [Kinds -> [Groups -> SUBSET Nat]], free : [Kinds -> [Groups -> Nat]],
              super : [Kinds -> Nat], sdisk : [Kinds -> Nat]]
  /\ \A k \in Kinds : \A g \in Groups : meta.bits[k][g] \subseteq Bits(k)
  /\ DOMAIN inode = Inos
  /\ \A i \in Inos : inode[i].block \in Tables
  /\ data \in [Blocks -> [0..(CellsPerBlock - 1) -> Values \union {Zero}]]
  /\ \A c \in Clients : Owner(c) \in Inos \union {None}
  /\ faults \in 0..MaxFaults
  /\ unsure \in BOOLEAN

Used(k) == Numbers(meta.bits, k)

\* The blocks of the file with inode i, on disk and in the copy of a client.
BlocksOf(i) ==
  UNION {Owns(ptrs, nd) : nd \in {inode[i]} \union {copy[c].inode : c \in {d \in Clients : Owner(d) = i}}}

\* No block belongs to two files, or twice to one file, or to a file and the
\* metadata, and every block of a file is marked in the bitmap: whatever the
\* clients write at the same time, however many of their inodes they have yet
\* to write back, and whichever transfers fail half way through a call.
BlocksOwned ==
  /\ TypeOK
  /\ LET own == [i \in Inos |-> BlocksOf(i)]
         room == Used("blocks") \ Meta IN
     \A i \in Inos : /\ own[i] \subseteq room
                     /\ \A j \in Inos : i # j => own[i] \intersect own[j] = {}
  /\ \A c \in Clients : Distinct(copy[c].inode.block)

\* The free counts never promise less than there is: after a transfer has
\* failed the groups may count a block or an inode that is taken, and the
\* superblock on disk one more; without failures all of them are exact.
CountsCover ==
  \A k \in Kinds :
    /\ \A g \in Groups : Cardinality(Clear(meta, k, g)) <= meta.free[k][g]
    /\ meta.super[k] = SumOf(meta.free[k])
    /\ meta.super[k] <= meta.sdisk[k]
    /\ faults = 0 => /\ meta.sdisk[k] = meta.super[k]
                     /\ \A g \in Groups : Cardinality(Clear(meta, k, g)) = meta.free[k][g]

RootRecs == recs[root.block[0]]

\* However many files are created, with whatever failures between: the records
\* of the root directory fill its block without a gap, each has room for its
\* name, every entry names an inode of its own that is marked in the bitmap,
\* and what is listed is what can be looked up.  No name is there twice,
\* unless a lookup had to do with a block that could not be read.
DirectorySound ==
  root.block[0] # None =>
    /\ BlockSound(RootRecs, Used("inodes"), inode)
    /\ unsure \/ NamesOnce(RootRecs)
    /\ ext2_list_root(root) = {n \in Names : ext2_find_file_in_dir(root, n) # None}

Reads(nd, h) ==
  h # Nothing =>
  \A off \in 0..(MaxCells - 1), len \in 1..(WordMod - 1) :
    LET r == ext2_read_inode_data(nd, off, len) IN
    /\ h[off] # Unknown => r # <<>>
    /\ \A i \in DOMAIN r : off + i <= MaxCells => h[off + i - 1] \in {Unknown, r[i]}

\* What clients have written is what is read, wherever a read starts and
\* however long its buffer is, whatever part of a write failed.  A client
\* reads through its copy what it has written, and of what others write
\* to the same file what goes into blocks that its copy has too.  From the
\* disk the file is read as the copy showed it that was last written back:
\* of two copies the later one wins, with all its pointers, and what the other
\* client has written into blocks of its own is lost.  ext2_read_file and
\* ext2_read_inode_data agree.
ReadsBack ==
  /\ call.op = "idle" => \A c \in Clients : Owner(c) # None => Reads(copy[c].inode, wrote[c])
  /\ \A i \in Inos : inode[i].mode = "reg" => Reads(inode[i], kept[i])
  /\ \A n \in ext2_list_root(root) :
       LET i == ext2_find_file_in_dir(root, n) IN
       inode[i].mode = "reg" => \A len \in 0..MaxCells :
         ext2_read_file(n, len) = ext2_read_inode_data(inode[i], 0, len)
=============================================================================
