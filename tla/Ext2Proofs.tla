----------------------------- MODULE Ext2Proofs -----------------------------
(***************************************************************************)
(* Proofs about Ext2, for volumes of any size with any number of files and *)
(* of clients, and any sequence of refused transfers: no block belongs to  *)
(* two files, the free counts never promise less than there is, the root   *)
(* directory stays in order, and what clients write is what is read.       *)
(***************************************************************************)
EXTENDS Ext2, FiniteSetTheorems, WellFoundedInduction, TLAPS

-----------------------------------------------------------------------------
(* Numbers.                                                                *)

\* The constants are numbers.
LEMMA Sizes ==
  /\ s_blocks_count \in Nat \ {0} /\ s_blocks_per_group \in Nat \ {0}
  /\ s_inodes_per_group \in Nat \ {0} /\ s_first_data_block \in Nat
  /\ NDirect \in Nat \ {0} /\ CellsPerBlock \in Nat \ {0} /\ MaxFaults \in Nat
  /\ EXT2_ROOT_INO \in Inos
  BY Ext2Assumption

\* A set of natural numbers has a least element.
LEMMA LeastIn ==
  ASSUME NEW S \in SUBSET Nat, S # {}
  PROVE  Least(S) \in S /\ \A y \in S : Least(S) <= y
<1> DEFINE R == {ss \in Nat \X Nat : ss[1] < ss[2]}
<1>1. IsWellFoundedOn(R, Nat)
  BY NatLessThanWellFounded, Zenon DEF OpToRel
<1>2. PICK x \in S : \A y \in S : ~(<<y, x>> \in R)
  <2> HIDE DEF R
  <2> QED BY <1>1, WFMin
<1>3. \A y \in S : ~(y < x)
  BY <1>2
<1>4. \A y \in S : x <= y
  BY <1>3
<1> QED BY <1>4 DEF Least

\* What holds of 0, and of i + 1 if it holds of i, holds up to n.
LEMMA UpToInduction ==
  ASSUME NEW n \in Nat, NEW S, 0 \in S,
         \A i \in 0..(n - 1) : i \in S => i + 1 \in S
  PROVE  \A i \in 0..n : i \in S
<1> DEFINE D == {i \in 0..n : i \notin S}
<1> SUFFICES ASSUME D # {} PROVE FALSE
  OBVIOUS
<1>1. D \in SUBSET Nat
  OBVIOUS
<1>2. PICK m \in D : \A y \in D : m <= y
  <2> HIDE DEF D
  <2> QED BY <1>1, LeastIn
<1>3. m \in 1..n /\ m \notin S
  BY <1>2
<1>4. m - 1 \in 0..(n - 1) /\ (m - 1) + 1 = m
  BY <1>3
<1>5. m - 1 \in S
  BY <1>2, <1>4
<1> QED BY <1>3, <1>4, <1>5

\* A number is a multiple of n and a remainder in one way only.
LEMMA OneQuotient ==
  ASSUME NEW n \in Nat \ {0}, NEW a \in Nat, NEW b \in Nat,
         NEW i \in 0..(n - 1), NEW j \in 0..(n - 1), a * n + i = b * n + j
  PROVE  a = b /\ i = j
<1>1. a * n \in Nat /\ b * n \in Nat
  OBVIOUS
<1>2. (a * n + i) \div n = a
  BY <1>1
<1>3. (b * n + j) \div n = b
  BY <1>1
<1> QED BY <1>1, <1>2, <1>3

LEMMA GroupsNat == Groups \subseteq Nat /\ num_groups \in Nat \ {0}
<1>1. s_blocks_count + s_blocks_per_group - 1 \in Nat /\ s_blocks_count + s_blocks_per_group - 1 >= s_blocks_per_group
  BY Sizes
<1>2. ASSUME NEW x \in Nat, NEW n \in Nat \ {0}, x >= n PROVE x \div n \in Nat \ {0}
  <2>1. x \div n \in Nat /\ (x % n) \in 0..(n - 1) /\ x = (x \div n) * n + (x % n)
    OBVIOUS
  <2>2. ASSUME x \div n = 0 PROVE FALSE
    BY <1>2, <2>1, <2>2
  <2> QED BY <2>1, <2>2
<1>3. num_groups \in Nat \ {0}
  BY <1>1, <1>2, Sizes DEF num_groups
<1> QED BY <1>3 DEF Groups

LEMMA BitsNat ==
  ASSUME NEW k \in Kinds
  PROVE  Bits(k) \subseteq Nat /\ IsFiniteSet(Bits(k))
<1> DEFINE n == IF k = "blocks" THEN s_blocks_per_group ELSE s_inodes_per_group
<1>1. n \in Nat
  BY Sizes
<1>2. Bits(k) = 0..(n - 1)
  BY DEF Bits
<1> HIDE DEF n
<1>3. n - 1 \in Int /\ 0 \in Int
  BY <1>1
<1>4. IsFiniteSet(0..(n - 1))
  BY <1>3, FS_Interval
<1> QED BY <1>1, <1>2, <1>4

\* A bit stands for one block or inode.
LEMMA OneNumber ==
  ASSUME NEW k \in Kinds, NEW g \in Groups, NEW h \in Groups,
         NEW i \in Bits(k), NEW j \in Bits(k), Number(k, g, i) = Number(k, h, j)
  PROVE  g = h /\ i = j
<1>1. CASE k = "blocks"
  <2>1. g * s_blocks_per_group \in Nat /\ h * s_blocks_per_group \in Nat
    BY GroupsNat, Sizes
  <2>2. i \in 0..(s_blocks_per_group - 1) /\ j \in 0..(s_blocks_per_group - 1)
    BY <1>1 DEF Bits
  <2>3. g * s_blocks_per_group + i = h * s_blocks_per_group + j
    BY <1>1, <2>1, <2>2, Sizes DEF Number
  <2> QED BY <2>2, <2>3, OneQuotient, GroupsNat, Sizes
<1>2. CASE k # "blocks"
  <2>1. g * s_inodes_per_group \in Nat /\ h * s_inodes_per_group \in Nat
    BY GroupsNat, Sizes
  <2>2. i \in 0..(s_inodes_per_group - 1) /\ j \in 0..(s_inodes_per_group - 1)
    BY <1>2 DEF Bits
  <2>3. g * s_inodes_per_group + i = h * s_inodes_per_group + j
    BY <1>2, <2>1, <2>2 DEF Number
  <2> QED BY <2>2, <2>3, OneQuotient, GroupsNat, Sizes
<1> QED BY <1>1, <1>2

\* The bits of the inode bitmaps stand for inodes.
LEMMA InodeNumber ==
  ASSUME NEW g \in Groups, NEW i \in Bits("inodes")
  PROVE  Number("inodes", g, i) \in Inos
<1> DEFINE n == s_inodes_per_group
           m == num_groups
<1>1. g \in Nat /\ m \in Nat /\ g <= m - 1 /\ n \in Nat \ {0} /\ i \in 0..(n - 1)
  BY GroupsNat, Sizes DEF Groups, Bits
<1>2. Number("inodes", g, i) = g * n + i + 1
  BY DEF Number
<1> HIDE DEF n, m
<1>3. PICK d \in Nat : m = g + 1 + d
  <2>1. m = g + 1 + (m - g - 1) /\ m - g - 1 \in Nat
    BY <1>1
  <2> QED BY <2>1
<1>4. m * n = g * n + n + d * n
  BY <1>1, <1>3
<1>5. d * n \in Nat /\ g * n \in Nat /\ m * n \in Nat
  BY <1>1
<1>6. g * n + i + 1 \in 1..(m * n)
  BY <1>1, <1>4, <1>5
<1> QED BY <1>2, <1>6 DEF Inos, n, m

-----------------------------------------------------------------------------
(* The bitmaps and an allocation.                                          *)

Metas == [bits : [Kinds -> [Groups -> SUBSET Nat]], free : [Kinds -> [Groups -> Nat]],
          super : [Kinds -> Nat], sdisk : [Kinds -> Nat]]

\* A bit that is clear stands for a block that files may have.
MetaOK(m) ==
  /\ m \in Metas
  /\ \A k \in Kinds : \A g \in Groups : m.bits[k][g] \subseteq Bits(k)
  /\ \A g \in Groups : \A i \in Clear(m, "blocks", g) : Number("blocks", g, i) \in Blocks \ Meta

\* m2 has all the bits of m, and that of x if x is given.
Extends(m, m2, k, x) ==
  /\ \A l \in Kinds : Numbers(m.bits, l) \subseteq Numbers(m2.bits, l)
  /\ x # None => /\ x \in Numbers(m2.bits, k) /\ x \notin Numbers(m.bits, k)
                 /\ k = "blocks" => x \in Blocks \ Meta
                 /\ k = "inodes" => x \in Inos

\* The bits after bit i of a group has been set.
WithBit(m, k, g, i) ==
  [l \in Kinds |-> [h \in Groups |->
     IF l = k /\ h = g THEN m.bits[k][g] \union {i} ELSE m.bits[l][h]]]

LEMMA BitSet ==
  ASSUME NEW m, MetaOK(m), NEW k \in Kinds, NEW g \in Groups, NEW i \in Clear(m, k, g),
         NEW m2 \in Metas, m2.bits = WithBit(m, k, g, i)
  PROVE  MetaOK(m2) /\ Extends(m, m2, k, Number(k, g, i))
<1>1. /\ m.bits \in [Kinds -> [Groups -> SUBSET Nat]] /\ i \in Bits(k) /\ i \notin m.bits[k][g]
      /\ m2.bits \in [Kinds -> [Groups -> SUBSET Nat]]
  BY DEF MetaOK, Metas, Clear
<1>2. \A l \in Kinds : \A h \in Groups :
        m2.bits[l][h] = IF l = k /\ h = g THEN m.bits[k][g] \union {i} ELSE m.bits[l][h]
  BY <1>1 DEF WithBit
<1>3. \A l \in Kinds : \A h \in Groups : m.bits[l][h] \subseteq m2.bits[l][h] /\ m2.bits[l][h] \subseteq Bits(l)
  BY <1>1, <1>2 DEF MetaOK
<1>4. \A h \in Groups : Clear(m2, "blocks", h) \subseteq Clear(m, "blocks", h)
  BY <1>3 DEF Clear, Kinds
<1>5. MetaOK(m2)
  BY <1>3, <1>4 DEF MetaOK
<1>6. \A l \in Kinds : Numbers(m.bits, l) \subseteq Numbers(m2.bits, l)
  BY <1>3 DEF Numbers
<1>7. Number(k, g, i) \in Numbers(m2.bits, k)
  <2>1. i \in m2.bits[k][g]
    BY <1>2
  <2> QED BY <2>1 DEF Numbers
<1>8. Number(k, g, i) \notin Numbers(m.bits, k)
  <2> SUFFICES ASSUME NEW h \in Groups, NEW j \in m.bits[k][h], Number(k, g, i) = Number(k, h, j)
               PROVE  FALSE
    BY DEF Numbers
  <2>1. j \in Bits(k)
    BY DEF MetaOK
  <2>2. g = h /\ i = j
    BY <1>1, <2>1, OneNumber
  <2> QED BY <1>1, <2>2
<1>9. /\ k = "blocks" => Number(k, g, i) \in Blocks \ Meta
      /\ k = "inodes" => Number(k, g, i) \in Inos
  BY <1>1, InodeNumber DEF MetaOK
<1> QED BY <1>5, <1>6, <1>7, <1>8, <1>9 DEF Extends

\* The inodes in use are inodes of the table.
LEMMA UsedInodes ==
  ASSUME NEW m, MetaOK(m)
  PROVE  Numbers(m.bits, "inodes") \subseteq Inos
<1>1. \A g \in Groups : m.bits["inodes"][g] \subseteq Bits("inodes")
  BY DEF MetaOK, Kinds
<1> QED BY <1>1, InodeNumber DEF Numbers

LEMMA NoBit ==
  ASSUME NEW m, NEW k
  PROVE  Extends(m, m, k, None)
  BY DEF Extends

LEMMA LessNat ==
  ASSUME NEW n \in Nat
  PROVE  Less(n) \in Nat /\ Less(n) <= n
  BY DEF Less

LEMMA FirstClearIn ==
  ASSUME NEW m, MetaOK(m), NEW k \in Kinds, NEW g \in Open(m, k)
  PROVE  g \in Groups /\ FirstClear(m, k, g) \in Clear(m, k, g) /\ FirstClear(m, k, g) \in Nat
<1>1. g \in Groups /\ Clear(m, k, g) # {} /\ Clear(m, k, g) \in SUBSET Nat
  BY BitsNat DEF Open, Clear
<1> QED BY <1>1, LeastIn DEF FirstClear

LEMMA MarkedBits ==
  ASSUME NEW m, MetaOK(m), NEW k \in Kinds, NEW g \in Open(m, k)
  PROVE  Marked(m, k, g).bits = WithBit(m, k, g, FirstClear(m, k, g))
<1> DEFINE i == FirstClear(m, k, g)
<1>1. g \in Groups /\ m.bits \in [Kinds -> [Groups -> SUBSET Nat]]
  BY FirstClearIn DEF MetaOK, Metas
<1>2. Marked(m, k, g).bits = [m.bits EXCEPT ![k][g] = @ \union {i}]
  BY DEF Marked
<1> HIDE DEF i
<1>3. Marked(m, k, g).bits = WithBit(m, k, g, i)
  BY <1>1, <1>2 DEF WithBit
<1> QED BY <1>3 DEF i

LEMMA MarkedOK ==
  ASSUME NEW m, MetaOK(m), NEW k \in Kinds, NEW g \in Open(m, k)
  PROVE  /\ MetaOK(Marked(m, k, g))
         /\ Extends(m, Marked(m, k, g), k, Number(k, g, FirstClear(m, k, g)))
<1> DEFINE i == FirstClear(m, k, g)
<1>1. g \in Groups /\ i \in Clear(m, k, g) /\ i \in Nat
  BY FirstClearIn
<1>2. m \in Metas /\ m.bits \in [Kinds -> [Groups -> SUBSET Nat]]
  BY DEF MetaOK, Metas
<1>3. Marked(m, k, g).bits = WithBit(m, k, g, i)
  BY MarkedBits
<1> HIDE DEF i
<1>4. WithBit(m, k, g, i) \in [Kinds -> [Groups -> SUBSET Nat]]
  BY <1>1, <1>2 DEF WithBit
<1>5. Marked(m, k, g) \in Metas
  BY <1>2, <1>3, <1>4 DEF Marked, Metas
<1>6. MetaOK(Marked(m, k, g)) /\ Extends(m, Marked(m, k, g), k, Number(k, g, i))
  BY <1>1, <1>3, <1>5, BitSet
<1> QED BY <1>6 DEF i

LEMMA CountedOK ==
  ASSUME NEW m, MetaOK(m), NEW k \in Kinds, NEW g \in Open(m, k), NEW stored \in BOOLEAN
  PROVE  /\ MetaOK(Counted(m, k, g, stored))
         /\ Extends(m, Counted(m, k, g, stored), k, Number(k, g, FirstClear(m, k, g)))
<1> DEFINE i == FirstClear(m, k, g)
           c == Counted(m, k, g, stored)
<1>1. g \in Groups /\ i \in Clear(m, k, g) /\ i \in Nat
  BY FirstClearIn
<1>2. /\ m \in Metas /\ m.free \in [Kinds -> [Groups -> Nat]]
      /\ m.super \in [Kinds -> Nat] /\ m.sdisk \in [Kinds -> Nat]
  BY DEF MetaOK, Metas
<1>3. c.bits = WithBit(m, k, g, i)
  BY MarkedBits DEF Counted
<1>4. c.bits \in [Kinds -> [Groups -> SUBSET Nat]]
  BY MarkedOK DEF Counted, MetaOK, Metas
<1>5. [m.free EXCEPT ![k][g] = Less(@)] \in [Kinds -> [Groups -> Nat]]
  <2>1. m.free[k] \in [Groups -> Nat] /\ m.free[k][g] \in Nat
    BY <1>1, <1>2
  <2>2. Less(m.free[k][g]) \in Nat
    BY <2>1, LessNat
  <2> QED BY <1>1, <1>2, <2>1, <2>2
<1>6. [m.super EXCEPT ![k] = Less(@)] \in [Kinds -> Nat]
  BY <1>2, LessNat
<1>7. (IF stored THEN [m.sdisk EXCEPT ![k] = Less(m.super[k])] ELSE m.sdisk) \in [Kinds -> Nat]
  BY <1>2, LessNat
<1>8. c \in Metas
  <2>1. c.bits = Marked(m, k, g).bits
    BY DEF Counted
  <2> QED BY <1>4, <1>5, <1>6, <1>7, <2>1 DEF Counted, Metas
<1> HIDE DEF i, c
<1>9. MetaOK(c) /\ Extends(m, c, k, Number(k, g, i))
  BY <1>1, <1>3, <1>8, BitSet
<1> QED BY <1>9 DEF i, c

\* However an allocation ends, the bitmaps stay in order, and what it returns
\* was free.
LEMMA AllocationOK ==
  ASSUME NEW m, MetaOK(m), NEW k \in Kinds, NEW o \in Allocations(m, k)
  PROVE  MetaOK(o.meta) /\ Extends(m, o.meta, k, o.got) /\ o.bad \in 0..1
<1>1. CASE \E bad \in IF Open(m, k) = {} THEN {0} ELSE {1} : o = Outcome(m, None, bad)
  BY <1>1, NoBit DEF Outcome
<1>2. CASE \E g \in Open(m, k) : o = Outcome(Marked(m, k, g), None, 1)
  <2>1. PICK g \in Open(m, k) : o = Outcome(Marked(m, k, g), None, 1)
    BY <1>2
  <2>2. o.meta = Marked(m, k, g) /\ o.got = None /\ o.bad = 1
    BY <2>1 DEF Outcome
  <2>3. Extends(m, o.meta, k, None)
    BY <2>2, MarkedOK DEF Extends
  <2> QED BY <2>2, <2>3, MarkedOK
<1>3. CASE \E g \in Open(m, k), stored \in BOOLEAN :
             o = Outcome(Counted(m, k, g, stored), Number(k, g, FirstClear(m, k, g)),
                         IF stored /\ g = First(m, k) THEN 0 ELSE 1)
  <2>1. PICK g \in Open(m, k), stored \in BOOLEAN :
             o = Outcome(Counted(m, k, g, stored), Number(k, g, FirstClear(m, k, g)),
                         IF stored /\ g = First(m, k) THEN 0 ELSE 1)
    BY <1>3
  <2>2. /\ o.meta = Counted(m, k, g, stored) /\ o.got = Number(k, g, FirstClear(m, k, g))
        /\ o.bad \in 0..1
    BY <2>1 DEF Outcome
  <2> QED BY <2>2, CountedOK
<1> QED BY <1>1, <1>2, <1>3 DEF Allocations

-----------------------------------------------------------------------------
(* Files and the blocks that belong to them.                               *)

\* The blocks of inode i: on disk, and in the copies of clients.
OwnedBy(t, nodes, copies, i) ==
  Owns(t, nodes[i]) \union
    UNION {Owns(t, copies[c].inode) : c \in {d \in Clients : copies[d].ino = i}}

GoodNode(nd) == nd.block \in Tables /\ Distinct(nd.block)

\* The inodes and the copies of inodes.
NodesOK(nodes, copies) ==
  /\ DOMAIN nodes = Inos /\ \A i \in Inos : GoodNode(nodes[i])
  /\ DOMAIN copies = Clients
  /\ \A c \in Clients : copies[c].ino \in Inos \union {None} /\ GoodNode(copies[c].inode)

\* Their blocks are apart, and marked as used.
OwnersOK(m, t, nodes, copies) ==
  \A i \in Inos :
    /\ OwnedBy(t, nodes, copies, i) \subseteq Numbers(m.bits, "blocks") \ Meta
    /\ \A j \in Inos : i # j => OwnedBy(t, nodes, copies, i)
                                  \intersect OwnedBy(t, nodes, copies, j) = {}

\* No file gains anything but, in inode i0, block x.
Gains(t, nodes, copies, nodes2, copies2, i0, x) ==
  \A i \in Inos : \A b \in OwnedBy(t, nodes2, copies2, i) :
    b \in OwnedBy(t, nodes, copies, i) \/ (i = i0 /\ b = x /\ x # None)

\* A volume whose files gain nothing but, in one of them, a block that was
\* not in use stays in order.
LEMMA OwnersStep ==
  ASSUME NEW m, NEW m2, NEW t, NEW nodes, NEW nodes2, NEW copies, NEW copies2,
         NEW x, NEW i0,
         OwnersOK(m, t, nodes, copies), Extends(m, m2, "blocks", x),
         Gains(t, nodes, copies, nodes2, copies2, i0, x)
  PROVE  OwnersOK(m2, t, nodes2, copies2)
<1> SUFFICES ASSUME NEW i \in Inos
             PROVE  /\ OwnedBy(t, nodes2, copies2, i) \subseteq Numbers(m2.bits, "blocks") \ Meta
                    /\ \A j \in Inos : i # j => OwnedBy(t, nodes2, copies2, i)
                                          \intersect OwnedBy(t, nodes2, copies2, j) = {}
  BY DEF OwnersOK
<1>1. Numbers(m.bits, "blocks") \subseteq Numbers(m2.bits, "blocks")
  BY DEF Extends, Kinds
<1>2. x # None => x \in Numbers(m2.bits, "blocks") \ Meta /\ x \notin Numbers(m.bits, "blocks")
  BY DEF Extends
<1>3. ASSUME NEW b \in OwnedBy(t, nodes2, copies2, i) PROVE b \in Numbers(m2.bits, "blocks") \ Meta
  BY <1>1, <1>2, <1>3 DEF OwnersOK, Gains
<1>4. ASSUME NEW j \in Inos, i # j, NEW b \in OwnedBy(t, nodes2, copies2, i),
             b \in OwnedBy(t, nodes2, copies2, j)
      PROVE  FALSE
  <2>1. \A l \in Inos : \A y \in OwnedBy(t, nodes, copies, l) : y \in Numbers(m.bits, "blocks")
    BY DEF OwnersOK
  <2>2. ~(b \in OwnedBy(t, nodes, copies, i) /\ b \in OwnedBy(t, nodes, copies, j))
    BY <1>4 DEF OwnersOK
  <2> QED BY <1>2, <1>4, <2>1, <2>2 DEF Gains
<1> QED BY <1>3, <1>4

\* What an inode points to belongs to it.
LEMMA PointsOwn ==
  ASSUME NEW t, NEW nd, nd.block \in Tables, NEW p \in Pointers, nd.block[p] # None
  PROVE  nd.block[p] \in Owns(t, nd)
<1>1. p \in 0..(NDirect - 1) \/ p = NDirect \/ p = NDirect + 1 \/ p = NDirect + 2
  BY Sizes DEF Pointers
<1>2. CASE p \in 0..(NDirect - 1)
  BY <1>2 DEF Owns
<1>3. CASE p = NDirect
  BY <1>3 DEF Owns
<1>4. CASE p = NDirect + 1
  BY <1>4 DEF Owns
<1>5. CASE p = NDirect + 2
  BY <1>5 DEF Owns
<1> QED BY <1>1, <1>2, <1>3, <1>4, <1>5

\* Only the pointers of an inode matter.
LEMMA SameOwns ==
  ASSUME NEW t, NEW nd, NEW nd2, nd2.block = nd.block
  PROVE  Owns(t, nd2) = Owns(t, nd) /\ (GoodNode(nd) => GoodNode(nd2))
  BY DEF Owns, GoodNode

LEMMA NewOwnsNothing ==
  ASSUME NEW t
  PROVE  Owns(t, NewInode) = {} /\ GoodNode(NewInode)
<1>1. NewInode.block = NoPointers
  BY DEF NewInode, Inode
<1>2. \A p \in Pointers : NoPointers[p] = None
  BY DEF NoPointers
<1>3. NDirect \in Pointers /\ NDirect + 1 \in Pointers /\ NDirect + 2 \in Pointers
      /\ 0..(NDirect - 1) \subseteq Pointers
  BY Sizes DEF Pointers
<1>4. \A p \in 0..(NDirect - 1) : NoPointers[p] = None
  BY <1>2, <1>3
<1>5. NoPointers[NDirect] = None /\ NoPointers[NDirect + 1] = None /\ NoPointers[NDirect + 2] = None
  BY <1>2, <1>3
<1>6. Kids(t, {}) = {}
  BY DEF Kids
<1> DEFINE Top(p) == {NewInode.block[p]} \ {None}
<1>7. Top(NDirect) = {} /\ Top(NDirect + 1) = {} /\ Top(NDirect + 2) = {}
  BY <1>1, <1>5
<1>8. {NewInode.block[p] : p \in 0..(NDirect - 1)} \ {None} = {}
  BY <1>1, <1>4
<1>9. Owns(t, NewInode) = {}
  <2> HIDE DEF NewInode
  <2>1. Top(NDirect + 1) \union Kids(t, Top(NDirect + 2)) = {}
    BY <1>6, <1>7
  <2>2. Top(NDirect) \union Kids(t, {}) = {}
    BY <1>6, <1>7
  <2> QED BY <1>6, <1>7, <1>8, <2>1, <2>2 DEF Owns
<1>10. GoodNode(NewInode)
  <2>1. NoPointers \in Tables /\ Distinct(NoPointers)
    BY <1>2 DEF NoPointers, Tables, Distinct
  <2> QED BY <1>1, <2>1 DEF GoodNode
<1> QED BY <1>9, <1>10

\* What belongs to a file is behind its three indirect pointers or in its
\* direct ones.
Behind(t, b0, b1, b2) ==
  LET two == ({b1} \ {None}) \union Kids(t, {b2} \ {None})
      one == ({b0} \ {None}) \union Kids(t, two)
  IN  two \union one \union Kids(t, one) \union ({b2} \ {None})

LEMMA OwnsParts ==
  ASSUME NEW t, NEW nd
  PROVE  Owns(t, nd) = Behind(t, nd.block[NDirect], nd.block[NDirect + 1], nd.block[NDirect + 2])
                         \union ({nd.block[p] : p \in 0..(NDirect - 1)} \ {None})
  BY DEF Owns, Behind

\* A pointer that was None now leads to a block that was not the file's.
LEMMA PointingOwns ==
  ASSUME NEW t, NEW nd, GoodNode(nd), NEW nd2, NEW k \in 0..(NDirect - 1), NEW x \in Blocks,
         nd2.block = [nd.block EXCEPT ![k] = x], nd.block[k] = None, x # None,
         x \notin Owns(t, nd)
  PROVE  GoodNode(nd2) /\ \A b \in Owns(t, nd2) : b \in Owns(t, nd) \/ b = x
<1>1. /\ NDirect \in Pointers /\ NDirect + 1 \in Pointers /\ NDirect + 2 \in Pointers
      /\ 0..(NDirect - 1) \subseteq Pointers /\ k # NDirect /\ k # NDirect + 1 /\ k # NDirect + 2
  BY Sizes DEF Pointers
<1>2. nd.block \in Tables /\ Distinct(nd.block) /\ DOMAIN nd.block = Pointers
  BY DEF GoodNode, Tables
<1>3. \A p \in Pointers : nd2.block[p] = IF p = k THEN x ELSE nd.block[p]
  BY <1>2 DEF Tables
<1>4. nd2.block \in Tables /\ DOMAIN nd2.block = Pointers
  BY <1>2 DEF Tables
<1>5. Distinct(nd2.block)
  <2> SUFFICES ASSUME NEW p \in Pointers, NEW q \in Pointers,
                      nd2.block[p] = nd2.block[q], p # q
               PROVE  nd2.block[p] = None
    BY <1>4 DEF Distinct
  <2>1. \A r \in Pointers : nd.block[r] # x
    BY <1>2, PointsOwn
  <2>2. p # k /\ q # k
    BY <1>3, <2>1
  <2> QED BY <1>2, <1>3, <2>2 DEF Distinct
<1>6. /\ nd2.block[NDirect] = nd.block[NDirect] /\ nd2.block[NDirect + 1] = nd.block[NDirect + 1]
      /\ nd2.block[NDirect + 2] = nd.block[NDirect + 2]
  BY <1>1, <1>3
<1>7. \A p \in 0..(NDirect - 1) : nd2.block[p] = x \/ nd2.block[p] = nd.block[p]
  BY <1>1, <1>3
<1>8. \A b \in Owns(t, nd2) : b \in Owns(t, nd) \/ b = x
  <2> SUFFICES ASSUME NEW b \in Owns(t, nd2) PROVE b \in Owns(t, nd) \/ b = x
    OBVIOUS
  <2>1. CASE b \in Behind(t, nd.block[NDirect], nd.block[NDirect + 1], nd.block[NDirect + 2])
    BY <2>1, OwnsParts
  <2>2. CASE b \in {nd2.block[p] : p \in 0..(NDirect - 1)} \ {None}
    <3>1. b \in {nd.block[p] : p \in 0..(NDirect - 1)} \ {None} \/ b = x
      BY <1>7, <2>2
    <3> QED BY <3>1, OwnsParts
  <2> QED BY <1>6, <2>1, <2>2, OwnsParts
<1> QED BY <1>4, <1>5, <1>8 DEF GoodNode

FilesOK(m, t, nodes, copies) ==
  /\ MetaOK(m)
  /\ NodesOK(nodes, copies)
  /\ OwnersOK(m, t, nodes, copies)

\* Inode nd may be written in the place of inode i, if block x, which was free
\* in m and is not in m2, is given to it.
MayBe(t, nodes, copies, i, nd, x) ==
  /\ GoodNode(nd)
  /\ i \in Inos => \A b \in Owns(t, nd) : b \in OwnedBy(t, nodes, copies, i) \/ (b = x /\ x # None)

\* A part of an allocation that gives nothing to the files.
LEMMA Extending ==
  ASSUME NEW m, NEW m2, NEW k \in Kinds, NEW x, Extends(m, m2, k, x)
  PROVE  Extends(m, m2, "blocks", None)
  BY DEF Extends

LEMMA ExtendsTwice ==
  ASSUME NEW m, NEW m2, NEW m3, NEW x, Extends(m, m2, "blocks", None), Extends(m2, m3, "blocks", x)
  PROVE  Extends(m, m3, "blocks", x)
  BY DEF Extends, Kinds

LEMMA MetaStep ==
  ASSUME NEW m, NEW t, NEW nodes, NEW copies, FilesOK(m, t, nodes, copies),
         NEW m2, MetaOK(m2), Extends(m, m2, "blocks", None)
  PROVE  FilesOK(m2, t, nodes, copies)
<1>1. Gains(t, nodes, copies, nodes, copies, None, None)
  BY DEF Gains
<1>2. OwnersOK(m2, t, nodes, copies)
  BY <1>1, OwnersStep DEF FilesOK
<1> QED BY <1>2 DEF FilesOK

\* A client gets, changes or drops its copy of inode i.
LEMMA CopyStep ==
  ASSUME NEW m, NEW t, NEW nodes, NEW copies, FilesOK(m, t, nodes, copies),
         NEW m2, MetaOK(m2), NEW x, Extends(m, m2, "blocks", x),
         NEW c \in Clients, NEW i \in Inos \union {None}, NEW nd,
         MayBe(t, nodes, copies, i, nd, x)
  PROVE  FilesOK(m2, t, nodes, [copies EXCEPT ![c] = [ino |-> i, inode |-> nd]])
<1> DEFINE copies2 == [copies EXCEPT ![c] = [ino |-> i, inode |-> nd]]
<1>1. NodesOK(nodes, copies)
  BY DEF FilesOK
<1>2. /\ DOMAIN copies2 = Clients
      /\ \A d \in Clients : d # c => copies2[d] = copies[d]
      /\ copies2[c].ino = i /\ copies2[c].inode = nd
  BY <1>1 DEF NodesOK
<1> HIDE DEF copies2
<1>3. NodesOK(nodes, copies2)
  BY <1>1, <1>2 DEF NodesOK, MayBe
<1>4. ASSUME NEW j \in Inos, NEW b \in OwnedBy(t, nodes, copies2, j)
      PROVE  b \in OwnedBy(t, nodes, copies, j) \/ (j = i /\ b = x /\ x # None)
  <2>1. CASE b \in Owns(t, nodes[j])
    BY <2>1 DEF OwnedBy
  <2>2. CASE \E d \in Clients : copies2[d].ino = j /\ b \in Owns(t, copies2[d].inode)
    <3>1. PICK d \in Clients : copies2[d].ino = j /\ b \in Owns(t, copies2[d].inode)
      BY <2>2
    <3>2. CASE d = c
      BY <1>2, <3>1, <3>2 DEF MayBe
    <3>3. CASE d # c
      <4>1. copies[d].ino = j /\ b \in Owns(t, copies[d].inode)
        BY <1>2, <3>1, <3>3
      <4> QED BY <4>1 DEF OwnedBy
    <3> QED BY <3>2, <3>3
  <2> QED BY <1>4, <2>1, <2>2 DEF OwnedBy
<1>5. OwnersOK(m2, t, nodes, copies2)
  <2>1. OwnersOK(m, t, nodes, copies)
    BY DEF FilesOK
  <2>2. Gains(t, nodes, copies, nodes, copies2, i, x)
    BY <1>4 DEF Gains
  <2> QED BY <2>1, <2>2, OwnersStep
<1> QED BY <1>3, <1>5 DEF FilesOK, copies2

\* An inode is written.
LEMMA NodeStep ==
  ASSUME NEW m, NEW t, NEW nodes, NEW copies, FilesOK(m, t, nodes, copies),
         NEW m2, MetaOK(m2), NEW x, Extends(m, m2, "blocks", x),
         NEW i \in Inos, NEW nodes2, DOMAIN nodes2 = Inos,
         MayBe(t, nodes, copies, i, nodes2[i], x),
         \A j \in Inos : j # i => nodes2[j] \in {nodes[j], NewInode}
  PROVE  FilesOK(m2, t, nodes2, copies)
<1>1. NodesOK(nodes, copies)
  BY DEF FilesOK
<1>2. NodesOK(nodes2, copies)
  <2>1. ASSUME NEW j \in Inos PROVE GoodNode(nodes2[j])
    BY <1>1, NewOwnsNothing DEF NodesOK, MayBe
  <2> QED BY <1>1, <2>1 DEF NodesOK
<1>3. ASSUME NEW j \in Inos, NEW b \in OwnedBy(t, nodes2, copies, j)
      PROVE  b \in OwnedBy(t, nodes, copies, j) \/ (j = i /\ b = x /\ x # None)
  <2>1. CASE b \in Owns(t, nodes2[j])
    <3>1. CASE j = i
      BY <2>1, <3>1 DEF MayBe
    <3>2. CASE j # i
      <4>1. b \in Owns(t, nodes[j])
        BY <2>1, <3>2, NewOwnsNothing
      <4> QED BY <4>1 DEF OwnedBy
    <3> QED BY <3>1, <3>2
  <2>2. CASE b \notin Owns(t, nodes2[j])
    BY <1>3, <2>2 DEF OwnedBy
  <2> QED BY <2>1, <2>2
<1>4. OwnersOK(m2, t, nodes2, copies)
  <2>1. OwnersOK(m, t, nodes, copies)
    BY DEF FilesOK
  <2>2. Gains(t, nodes, copies, nodes2, copies, i, x)
    BY <1>3 DEF Gains
  <2> QED BY <2>1, <2>2, OwnersStep
<1> QED BY <1>2, <1>4 DEF FilesOK

\* An inode that belongs to i already, on disk or in a copy, may be written in
\* its place ...
LEMMA MayBeSame ==
  ASSUME NEW m, NEW t, NEW nodes, NEW copies, FilesOK(m, t, nodes, copies),
         NEW i, NEW x, NEW nd, NEW nd2, nd2.block = nd.block, GoodNode(nd),
         i \in Inos => Owns(t, nd) \subseteq OwnedBy(t, nodes, copies, i)
  PROVE  MayBe(t, nodes, copies, i, nd2, x)
  BY SameOwns DEF MayBe

\* ... and so may one that has a new block besides.
LEMMA MayBeLonger ==
  ASSUME NEW m, NEW t, NEW nodes, NEW copies, FilesOK(m, t, nodes, copies),
         NEW m2, NEW x, Extends(m, m2, "blocks", x), x # None,
         NEW i \in Inos, NEW nd, GoodNode(nd), Owns(t, nd) \subseteq OwnedBy(t, nodes, copies, i),
         NEW k \in 0..(NDirect - 1), nd.block[k] = None,
         NEW nd2, nd2.block = [nd.block EXCEPT ![k] = x]
  PROVE  MayBe(t, nodes, copies, i, nd2, x)
<1>1. x \in Blocks /\ x \notin Numbers(m.bits, "blocks")
  BY DEF Extends
<1>2. x \notin Owns(t, nd)
  BY <1>1 DEF FilesOK, OwnersOK
<1>3. GoodNode(nd2) /\ \A b \in Owns(t, nd2) : b \in Owns(t, nd) \/ b = x
  BY <1>1, <1>2, PointingOwns
<1> QED BY <1>3 DEF MayBe

-----------------------------------------------------------------------------
(* Sums and counts.                                                        *)

\* What Sums computes.
LEMMA SumsAre ==
  ASSUME NEW n \in Nat, NEW f \in [0..(n - 1) -> Nat]
  PROVE  /\ Sums(n, f) \in [0..n -> Nat] /\ Sums(n, f)[0] = 0
         /\ \A i \in 1..n : Sums(n, f)[i] = Sums(n, f)[i - 1] + f[i - 1]
<1> DEFINE Eq(h) == h = [i \in 0..n |-> IF i = 0 THEN 0 ELSE h[i - 1] + f[i - 1]]
           u == CHOOSE h : Eq(h)
           Is(m, h) == h[0] = 0 /\ \A i \in 1..m : h[i] = h[i - 1] + f[i - 1]
           T == {m \in 0..n : \E h \in [0..m -> Nat] : Is(m, h)}
<1>1. 0 \in T
  <2>1. [i \in 0..0 |-> 0] \in [0..0 -> Nat] /\ Is(0, [i \in 0..0 |-> 0])
    OBVIOUS
  <2>2. \E h \in [0..0 -> Nat] : Is(0, h)
    <3> HIDE DEF Is
    <3> QED BY <2>1, Zenon
  <2> QED BY <2>2
<1>2. ASSUME NEW m \in 0..(n - 1), m \in T PROVE m + 1 \in T
  <2>1. PICK h \in [0..m -> Nat] : Is(m, h)
    BY <1>2
  <2> DEFINE k == [i \in 0..(m + 1) |-> IF i <= m THEN h[i] ELSE h[m] + f[m]]
  <2>2. h[m] \in Nat /\ f[m] \in Nat /\ m + 1 \in 0..n
    OBVIOUS
  <2>3. k \in [0..(m + 1) -> Nat]
    BY <2>2
  <2>4. ASSUME NEW i \in 1..(m + 1) PROVE k[i] = k[i - 1] + f[i - 1]
    <3>1. CASE i = m + 1
      BY <3>1
    <3>2. CASE i # m + 1
      <4>1. i \in 1..m /\ i - 1 \in 0..m
        BY <3>2
      <4> QED BY <2>1, <4>1
    <3> QED BY <3>1, <3>2
  <2>5. Is(m + 1, k)
    BY <2>1, <2>4
  <2>6. \E h2 \in [0..(m + 1) -> Nat] : Is(m + 1, h2)
    <3> HIDE DEF Is, k
    <3> QED BY <2>3, <2>5, Zenon
  <2> QED BY <2>2, <2>6
<1>3. \A m \in 0..n : m \in T
  <2> HIDE DEF T
  <2> QED BY <1>1, <1>2, UpToInduction
<1>4. PICK h \in [0..n -> Nat] : Is(n, h)
  <2>1. n \in T
    <3> HIDE DEF T
    <3> QED BY <1>3
  <2> HIDE DEF Is
  <2> QED BY <2>1
<1>5. Eq(h)
  <2>1. ASSUME NEW i \in 0..n PROVE h[i] = IF i = 0 THEN 0 ELSE h[i - 1] + f[i - 1]
    BY <1>4
  <2> QED BY <1>4, <2>1
<1>6. Eq(u)
  <2> HIDE DEF Eq
  <2> QED BY <1>5, Zenon
<1>7. Sums(n, f) = u
  BY DEF Sums
<1> HIDE DEF u
<1>8. DOMAIN u = 0..n /\ u = [i \in 0..n |-> u[i]]
  BY <1>6
<1>9. u[0] = 0 /\ \A i \in 1..n : u[i] = u[i - 1] + f[i - 1]
  <2>1. \A i \in 0..n : u[i] = IF i = 0 THEN 0 ELSE u[i - 1] + f[i - 1]
    BY <1>6
  <2> QED BY <2>1
<1>10. \A i \in 0..n : u[i] \in Nat
  <2> DEFINE S == {i \in 0..n : u[i] \in Nat}
  <2>1. 0 \in S
    BY <1>9
  <2>2. ASSUME NEW i \in 0..(n - 1), i \in S PROVE i + 1 \in S
    <3>1. i + 1 \in 1..n /\ (i + 1) - 1 = i /\ f[i] \in Nat
      OBVIOUS
    <3>2. u[i + 1] = u[i] + f[i]
      BY <1>9, <3>1
    <3> QED BY <2>2, <3>1, <3>2
  <2>3. \A i \in 0..n : i \in S
    <3> HIDE DEF S
    <3> QED BY <2>1, <2>2, UpToInduction
  <2> QED BY <2>3
<1> QED BY <1>7, <1>8, <1>9, <1>10

\* Two sums that differ in one number.
LEMMA SumsDiffer ==
  ASSUME NEW n \in Nat, NEW f \in [0..(n - 1) -> Nat], NEW g \in 0..(n - 1),
         NEW f2 \in [0..(n - 1) -> Nat], \A i \in 0..(n - 1) : i # g => f2[i] = f[i]
  PROVE  /\ Sums(n, f2)[n] - f2[g] = Sums(n, f)[n] - f[g]
         /\ \A m \in 0..g : Sums(n, f2)[m] = Sums(n, f)[m]
<1> DEFINE u == Sums(n, f)
           v == Sums(n, f2)
<1>1. /\ u \in [0..n -> Nat] /\ u[0] = 0 /\ \A i \in 1..n : u[i] = u[i - 1] + f[i - 1]
      /\ v \in [0..n -> Nat] /\ v[0] = 0 /\ \A i \in 1..n : v[i] = v[i - 1] + f2[i - 1]
  BY SumsAre
<1> HIDE DEF u, v
<1> DEFINE S == {i \in 0..n : v[i] = u[i] + (IF i > g THEN f2[g] - f[g] ELSE 0)}
<1>2. 0 \in S
  BY <1>1
<1>3. ASSUME NEW i \in 0..(n - 1), i \in S PROVE i + 1 \in S
  <2>1. i + 1 \in 1..n /\ (i + 1) - 1 = i /\ f[i] \in Nat /\ f2[i] \in Nat /\ u[i] \in Nat
        /\ f[g] \in Nat /\ f2[g] \in Nat
    BY <1>1
  <2>2. u[i + 1] = u[i] + f[i] /\ v[i + 1] = v[i] + f2[i]
    BY <1>1, <2>1
  <2>3. v[i] = u[i] + (IF i > g THEN f2[g] - f[g] ELSE 0)
    BY <1>3
  <2>4. CASE i = g
    BY <2>1, <2>2, <2>3, <2>4
  <2>5. CASE i # g
    <3>1. f2[i] = f[i]
      BY <2>5
    <3>2. (i > g) <=> (i + 1 > g)
      BY <2>5
    <3> QED BY <2>1, <2>2, <2>3, <3>1, <3>2
  <2> QED BY <2>4, <2>5
<1>4. \A i \in 0..n : i \in S
  <2> HIDE DEF S
  <2> QED BY <1>2, <1>3, UpToInduction
<1>5. n \in 0..n /\ n > g /\ u[n] \in Nat /\ f[g] \in Nat /\ f2[g] \in Nat
  BY <1>1
<1>6. v[n] = u[n] + (f2[g] - f[g])
  BY <1>4, <1>5
<1>7. v[n] - f2[g] = u[n] - f[g]
  BY <1>5, <1>6
<1>8. ASSUME NEW m \in 0..g PROVE v[m] = u[m]
  <2>1. m \in 0..n /\ ~(m > g)
    OBVIOUS
  <2> QED BY <1>1, <1>4, <2>1
<1> QED BY <1>7, <1>8 DEF u, v

\* A sum is not smaller than one of its numbers.
LEMMA SumsCover ==
  ASSUME NEW n \in Nat, NEW f \in [0..(n - 1) -> Nat], NEW g \in 0..(n - 1)
  PROVE  Sums(n, f)[n] \in Nat /\ Sums(n, f)[n] >= f[g]
<1> DEFINE f2 == [f EXCEPT ![g] = 0]
<1>1. f2 \in [0..(n - 1) -> Nat] /\ f2[g] = 0 /\ \A i \in 0..(n - 1) : i # g => f2[i] = f[i]
  OBVIOUS
<1> HIDE DEF f2
<1>2. Sums(n, f2)[n] - f2[g] = Sums(n, f)[n] - f[g]
  BY <1>1, SumsDiffer
<1>3. Sums(n, f)[n] \in Nat /\ Sums(n, f2)[n] \in Nat /\ f[g] \in Nat
  BY <1>1, SumsAre
<1> QED BY <1>1, <1>2, <1>3

\* The free counts: exact says that no transfer has failed.
CountsOK(m, exact) ==
  \A k \in Kinds :
    /\ \A g \in Groups : Cardinality(Clear(m, k, g)) <= m.free[k][g]
    /\ m.super[k] = SumOf(m.free[k])
    /\ m.super[k] <= m.sdisk[k]
    /\ exact => /\ m.sdisk[k] = m.super[k]
                /\ \A g \in Groups : Cardinality(Clear(m, k, g)) = m.free[k][g]

LEMMA ClearFinite ==
  ASSUME NEW m, NEW k \in Kinds, NEW g \in Groups
  PROVE  IsFiniteSet(Clear(m, k, g)) /\ Cardinality(Clear(m, k, g)) \in Nat
<1>1. Clear(m, k, g) \in SUBSET Bits(k)
  BY DEF Clear
<1>2. IsFiniteSet(Clear(m, k, g))
  BY <1>1, BitsNat, FS_Subset
<1> QED BY <1>2, FS_CardinalityType

\* The bits that are clear after one has been set.
LEMMA ClearAfter ==
  ASSUME NEW m, NEW m2, NEW k \in Kinds, NEW g \in Groups, NEW i \in Clear(m, k, g),
         m2.bits = WithBit(m, k, g, i), NEW l \in Kinds, NEW h \in Groups
  PROVE  Cardinality(Clear(m2, l, h)) = IF l = k /\ h = g THEN Cardinality(Clear(m, k, g)) - 1
                                        ELSE Cardinality(Clear(m, l, h))
<1>1. m2.bits[l][h] = IF l = k /\ h = g THEN m.bits[k][g] \union {i} ELSE m.bits[l][h]
  BY DEF WithBit
<1>2. CASE l = k /\ h = g
  <2>1. Clear(m2, l, h) = Clear(m, k, g) \ {i}
    BY <1>1, <1>2 DEF Clear
  <2> QED BY <1>2, <2>1, ClearFinite, FS_RemoveElement
<1>3. CASE ~(l = k /\ h = g)
  <2>1. Clear(m2, l, h) = Clear(m, l, h)
    BY <1>1, <1>3 DEF Clear
  <2> QED BY <1>3, <2>1
<1> QED BY <1>2, <1>3

\* A bit that is set and not counted makes the counts too large.
LEMMA MarkedCounts ==
  ASSUME NEW m, MetaOK(m), NEW exact, CountsOK(m, exact), NEW k \in Kinds, NEW g \in Open(m, k)
  PROVE  CountsOK(Marked(m, k, g), FALSE)
<1> DEFINE i == FirstClear(m, k, g)
           m2 == Marked(m, k, g)
<1>1. g \in Groups /\ i \in Clear(m, k, g)
  BY FirstClearIn
<1>2. m2.bits = WithBit(m, k, g, i) /\ m2.free = m.free /\ m2.super = m.super /\ m2.sdisk = m.sdisk
  BY MarkedBits DEF Marked
<1>3. m.free \in [Kinds -> [Groups -> Nat]]
  BY DEF MetaOK, Metas
<1> HIDE DEF i, m2
<1>4. ASSUME NEW l \in Kinds, NEW h \in Groups PROVE Cardinality(Clear(m2, l, h)) <= m.free[l][h]
  <2>1. Cardinality(Clear(m2, l, h)) <= Cardinality(Clear(m, l, h))
    BY <1>1, <1>2, ClearAfter, ClearFinite
  <2>2. Cardinality(Clear(m, l, h)) <= m.free[l][h]
    BY DEF CountsOK
  <2>3. m.free[l][h] \in Nat
    BY <1>3
  <2> QED BY <2>1, <2>2, <2>3, ClearFinite
<1>5. CountsOK(m2, FALSE)
  BY <1>2, <1>4 DEF CountsOK
<1> QED BY <1>5 DEF m2

\* One that is counted keeps them; they stay exact if the superblock is
\* written.
LEMMA CountedCounts ==
  ASSUME NEW m, MetaOK(m), NEW exact \in BOOLEAN, CountsOK(m, exact),
         NEW k \in Kinds, NEW g \in Open(m, k), NEW stored \in BOOLEAN
  PROVE  CountsOK(Counted(m, k, g, stored), exact /\ stored)
<1> DEFINE i == FirstClear(m, k, g)
           m2 == Counted(m, k, g, stored)
<1>1. g \in Groups /\ i \in Clear(m, k, g)
  BY FirstClearIn
<1>2. /\ m2.bits = WithBit(m, k, g, i) /\ m2.free = [m.free EXCEPT ![k][g] = Less(@)]
      /\ m2.super = [m.super EXCEPT ![k] = Less(@)]
      /\ m2.sdisk = IF stored THEN [m.sdisk EXCEPT ![k] = Less(m.super[k])] ELSE m.sdisk
  BY MarkedBits DEF Counted
<1>3. /\ m.free \in [Kinds -> [Groups -> Nat]]
      /\ m.super \in [Kinds -> Nat] /\ m.sdisk \in [Kinds -> Nat]
  BY DEF MetaOK, Metas
<1> HIDE DEF i, m2
<1>4. ASSUME NEW l \in Kinds, l # k
      PROVE  /\ m2.free[l] = m.free[l] /\ m2.super[l] = m.super[l] /\ m2.sdisk[l] = m.sdisk[l]
             /\ \A h \in Groups : Cardinality(Clear(m2, l, h)) = Cardinality(Clear(m, l, h))
  <2>1. m2.free[l] = m.free[l] /\ m2.super[l] = m.super[l] /\ m2.sdisk[l] = m.sdisk[l]
    BY <1>2, <1>3, <1>4
  <2>2. \A h \in Groups : Cardinality(Clear(m2, l, h)) = Cardinality(Clear(m, l, h))
    BY <1>1, <1>2, <1>4, ClearAfter
  <2> QED BY <2>1, <2>2
<1> DEFINE f == m.free[k]
           f2 == m2.free[k]
<1>5. f \in [Groups -> Nat] /\ f2 = [f EXCEPT ![g] = Less(@)]
  BY <1>1, <1>2, <1>3
<1>6. f[g] >= 1 /\ f[g] \in Nat
  <2>1. Cardinality(Clear(m, k, g)) \in Nat /\ Cardinality(Clear(m, k, g)) # 0
    BY <1>1, ClearFinite, FS_EmptySet
  <2>2. Cardinality(Clear(m, k, g)) <= f[g] /\ f[g] \in Nat
    BY <1>1, <1>5 DEF CountsOK
  <2> QED BY <2>1, <2>2
<1> HIDE DEF f, f2
<1>7. f2 \in [Groups -> Nat] /\ f2[g] = f[g] - 1 /\ \A h \in Groups : h # g => f2[h] = f[h]
  <2>1. Less(f[g]) = f[g] - 1 /\ f[g] - 1 \in Nat
    BY <1>6 DEF Less
  <2> QED BY <1>1, <1>5, <2>1
<1>8. SumOf(f) \in Nat /\ SumOf(f) >= f[g] /\ SumOf(f2) = SumOf(f) - 1
  <2>1. Groups = 0..(num_groups - 1) /\ num_groups \in Nat
    BY GroupsNat DEF Groups
  <2>2. SumOf(f) \in Nat /\ SumOf(f) >= f[g]
    BY <1>1, <1>5, <2>1, SumsCover DEF SumOf
  <2>3. SumOf(f2) \in Nat
    BY <1>1, <1>7, <2>1, SumsCover DEF SumOf
  <2>4. Sums(num_groups, f2)[num_groups] - f2[g] = Sums(num_groups, f)[num_groups] - f[g]
    <3> DEFINE n == num_groups
    <3>1. /\ n \in Nat /\ f \in [0..(n - 1) -> Nat] /\ f2 \in [0..(n - 1) -> Nat] /\ g \in 0..(n - 1)
          /\ \A h \in 0..(n - 1) : h # g => f2[h] = f[h]
      BY <1>1, <1>5, <1>7, <2>1
    <3> HIDE DEF n
    <3>2. Sums(n, f2)[n] - f2[g] = Sums(n, f)[n] - f[g]
      BY <3>1, SumsDiffer
    <3> QED BY <3>2 DEF n
  <2>5. SumOf(f2) - f2[g] = SumOf(f) - f[g]
    BY <2>4 DEF SumOf
  <2> QED BY <1>6, <1>7, <2>2, <2>3, <2>5
<1>9. m.super[k] = SumOf(f) /\ m.super[k] >= 1
  BY <1>6, <1>8 DEF CountsOK, f
<1>10. m2.super[k] = m.super[k] - 1 /\ m2.super[k] = SumOf(f2)
  <2>1. Less(m.super[k]) = m.super[k] - 1
    BY <1>3, <1>9 DEF Less
  <2>2. m2.super[k] = Less(m.super[k])
    BY <1>2, <1>3
  <2> QED BY <1>8, <1>9, <2>1, <2>2
<1>11. m2.sdisk[k] = IF stored THEN m.super[k] - 1 ELSE m.sdisk[k]
  <2>1. Less(m.super[k]) = m.super[k] - 1
    BY <1>3, <1>9 DEF Less
  <2> QED BY <1>2, <1>3, <2>1
<1>12. ASSUME NEW h \in Groups
       PROVE  /\ Cardinality(Clear(m2, k, h)) <= f2[h]
              /\ exact => Cardinality(Clear(m2, k, h)) = f2[h]
  <2>1. Cardinality(Clear(m, k, h)) <= f[h] /\ (exact => Cardinality(Clear(m, k, h)) = f[h])
    BY DEF CountsOK, f
  <2>2. Cardinality(Clear(m, k, h)) \in Nat /\ f[h] \in Nat
    BY <1>5, ClearFinite
  <2>3. CASE h = g
    <3>1. Cardinality(Clear(m2, k, h)) = Cardinality(Clear(m, k, h)) - 1
      BY <1>1, <1>2, <2>3, ClearAfter
    <3> QED BY <1>7, <2>1, <2>2, <2>3, <3>1
  <2>4. CASE h # g
    <3>1. Cardinality(Clear(m2, k, h)) = Cardinality(Clear(m, k, h))
      BY <1>1, <1>2, <2>4, ClearAfter
    <3> QED BY <1>7, <2>1, <2>4, <3>1
  <2> QED BY <2>3, <2>4
<1>13. ASSUME NEW l \in Kinds
       PROVE  /\ \A h \in Groups : Cardinality(Clear(m2, l, h)) <= m2.free[l][h]
              /\ m2.super[l] = SumOf(m2.free[l])
              /\ m2.super[l] <= m2.sdisk[l]
              /\ exact /\ stored =>
                   /\ m2.sdisk[l] = m2.super[l]
                   /\ \A h \in Groups : Cardinality(Clear(m2, l, h)) = m2.free[l][h]
  <2>1. CASE l = k
    <3>1. m.super[k] \in Nat /\ m.sdisk[k] \in Nat /\ m.super[k] <= m.sdisk[k]
      BY <1>3 DEF CountsOK
    <3> QED BY <1>10, <1>11, <1>12, <2>1, <3>1 DEF f2
  <2>2. CASE l # k
    BY <1>4, <2>2 DEF CountsOK
  <2> QED BY <2>1, <2>2
<1>14. CountsOK(m2, exact /\ stored)
  BY <1>13 DEF CountsOK
<1> QED BY <1>14 DEF m2

\* An allocation keeps the counts, exact ones exact if nothing is refused.
LEMMA AllocationCounts ==
  ASSUME NEW m, MetaOK(m), NEW exact \in BOOLEAN, CountsOK(m, exact),
         NEW k \in Kinds, NEW o \in Allocations(m, k)
  PROVE  CountsOK(o.meta, exact /\ o.bad = 0)
<1>1. CASE \E bad \in IF Open(m, k) = {} THEN {0} ELSE {1} : o = Outcome(m, None, bad)
  <2>1. o.meta = m
    BY <1>1 DEF Outcome
  <2> QED BY <2>1 DEF CountsOK
<1>2. CASE \E g \in Open(m, k) : o = Outcome(Marked(m, k, g), None, 1)
  <2>1. PICK g \in Open(m, k) : o = Outcome(Marked(m, k, g), None, 1)
    BY <1>2
  <2>2. o.meta = Marked(m, k, g) /\ o.bad = 1
    BY <2>1 DEF Outcome
  <2>3. CountsOK(o.meta, FALSE)
    BY <2>2, MarkedCounts
  <2> QED BY <2>2, <2>3 DEF CountsOK
<1>3. CASE \E g \in Open(m, k), stored \in BOOLEAN :
             o = Outcome(Counted(m, k, g, stored), Number(k, g, FirstClear(m, k, g)),
                         IF stored /\ g = First(m, k) THEN 0 ELSE 1)
  <2>1. PICK g \in Open(m, k), stored \in BOOLEAN :
             o = Outcome(Counted(m, k, g, stored), Number(k, g, FirstClear(m, k, g)),
                         IF stored /\ g = First(m, k) THEN 0 ELSE 1)
    BY <1>3
  <2>2. o.meta = Counted(m, k, g, stored) /\ (o.bad = 0 => stored)
    BY <2>1 DEF Outcome
  <2>3. CountsOK(o.meta, exact /\ stored)
    BY <2>2, CountedCounts
  <2> QED BY <2>2, <2>3 DEF CountsOK
<1> QED BY <1>1, <1>2, <1>3 DEF Allocations

-----------------------------------------------------------------------------
(* The invariant.                                                          *)

BlockData == [0..(CellsPerBlock - 1) -> Values \union {Zero}]

\* A write in progress belongs to a client that has a copy.
CallOK ==
  /\ call \in [op : {"idle", "write"}, client : Clients \union {None}, off : Nat,
               done : Nat, data : Seq(Values)]
  /\ call.op = "write" => /\ Writer \in Clients /\ Owner(Writer) \in Inos
                          /\ call.done <= Len(call.data)

OtherTypes ==
  /\ data \in [Blocks -> BlockData]
  /\ faults \in 0..MaxFaults
  /\ unsure \in BOOLEAN

Inv ==
  /\ FilesOK(meta, ptrs, inode, copy)
  /\ CountsOK(meta, faults = 0)
  /\ CallOK
  /\ OtherTypes

LEMMA CountsWeaker ==
  ASSUME NEW m, NEW e, CountsOK(m, e), NEW e2, e2 => e
  PROVE  CountsOK(m, e2)
  BY DEF CountsOK

\* mount: what ImageAssumption says of a volume.
LEMMA InitInv == Init => Inv
<1> SUFFICES ASSUME Init PROVE Inv
  OBVIOUS
<1>1. PICK im \in Images :
        /\ meta = [bits |-> im.bits, free |-> im.free, super |-> im.super, sdisk |-> im.super]
        /\ inode = im.inode /\ ptrs = im.ptrs
  BY DEF Init
<1>2. Consistent(im)
  BY ImageAssumption
<1>3. /\ data = [b \in Blocks |-> ZeroBlock] /\ copy = [c \in Clients |-> NoCopy]
      /\ call = Idle /\ faults = 0 /\ unsure = FALSE
  BY DEF Init
<1>4. /\ meta.bits = im.bits /\ meta.free = im.free /\ meta.super = im.super /\ meta.sdisk = im.super
      /\ meta \in Metas
  BY <1>1, <1>2 DEF Consistent, Metas
<1>5. \A k \in Kinds : \A g \in Groups : Clear(meta, k, g) = Clear(im, k, g)
  BY <1>4 DEF Clear
<1>6. MetaOK(meta)
  BY <1>2, <1>4, <1>5 DEF Consistent, MetaOK, Kinds
<1>7. \A c \in Clients : copy[c].ino = None /\ copy[c].inode = NewInode
  BY <1>3 DEF NoCopy
<1>8. NodesOK(inode, copy)
  <2>1. \A c \in Clients : GoodNode(copy[c].inode)
    BY <1>7, NewOwnsNothing
  <2>2. \A i \in Inos : GoodNode(inode[i])
    BY <1>1, <1>2 DEF Consistent, GoodNode
  <2>3. DOMAIN inode = Inos
    BY <1>1, <1>2 DEF Consistent
  <2> QED BY <1>3, <1>7, <2>1, <2>2, <2>3 DEF NodesOK
<1>9. \A i \in Inos : OwnedBy(ptrs, inode, copy, i) = Owns(ptrs, inode[i])
  <2>1. \A i \in Inos : i # None
    BY DEF Inos, None
  <2> QED BY <1>7, <2>1 DEF OwnedBy
<1>10. OwnersOK(meta, ptrs, inode, copy)
  BY <1>1, <1>2, <1>4, <1>9 DEF OwnersOK, Consistent
<1>11. CountsOK(meta, faults = 0)
  <2>1. \A k \in Kinds : \A g \in Groups : im.free[k][g] \in Nat
    BY <1>2 DEF Consistent
  <2>2. \A k \in Kinds : im.super[k] \in Nat
    BY <1>2 DEF Consistent
  <2>3. \A k \in Kinds : /\ im.super[k] = SumOf(im.free[k])
                         /\ \A g \in Groups : im.free[k][g] = Cardinality(Clear(meta, k, g))
    BY <1>2, <1>5 DEF Consistent
  <2> QED BY <1>4, <2>1, <2>2, <2>3 DEF CountsOK
<1>12. CallOK
  BY <1>3 DEF CallOK, Idle
<1>13. OtherTypes
  <2>1. ZeroBlock \in BlockData
    BY DEF ZeroBlock, BlockData
  <2>2. data \in [Blocks -> BlockData]
    BY <1>3, <2>1
  <2>3. faults \in 0..MaxFaults
    BY <1>3, Sizes
  <2> QED BY <1>3, <2>2, <2>3 DEF OtherTypes
<1> QED BY <1>6, <1>8, <1>10, <1>11, <1>12, <1>13 DEF Inv, FilesOK

\* What a step does to faults.
LEMMA FaultyStep ==
  ASSUME NEW n \in Nat, faults \in 0..MaxFaults, Faulty(n)
  PROVE  faults' \in 0..MaxFaults /\ (faults' = 0 => faults = 0 /\ n = 0)
  BY Sizes DEF Faulty

\* The counts after an allocation.
LEMMA CountsStep ==
  ASSUME MetaOK(meta), CountsOK(meta, faults = 0), faults \in 0..MaxFaults,
         NEW k \in Kinds, NEW o \in Allocations(meta, k), NEW n \in Nat, Faulty(o.bad + n)
  PROVE  CountsOK(o.meta, faults' = 0) /\ faults' \in 0..MaxFaults
<1>1. o.bad \in 0..1
  BY AllocationOK
<1>2. faults' \in 0..MaxFaults /\ (faults' = 0 => faults = 0 /\ o.bad = 0)
  <2>1. o.bad + n \in Nat
    BY <1>1
  <2>2. faults' \in 0..MaxFaults /\ (faults' = 0 => faults = 0 /\ o.bad + n = 0)
    BY <2>1, FaultyStep
  <2> QED BY <1>1, <2>2
<1>3. CountsOK(o.meta, faults = 0 /\ o.bad = 0)
  BY AllocationCounts
<1> QED BY <1>2, <1>3, CountsWeaker

-----------------------------------------------------------------------------
(* The steps.                                                              *)

\* A step that allocates and gives nothing to a file.
LEMMA AllocOnly ==
  ASSUME Inv, NEW k \in Kinds, NEW o \in Allocations(meta, k), NEW n \in Nat, Faulty(o.bad + n),
         meta' = o.meta, UNCHANGED <<inode, ptrs, data, copy, call, unsure>>
  PROVE  Inv'
<1>1. MetaOK(meta) /\ CountsOK(meta, faults = 0) /\ faults \in 0..MaxFaults
  BY DEF Inv, FilesOK, OtherTypes
<1>2. CountsOK(o.meta, faults' = 0) /\ faults' \in 0..MaxFaults
  BY <1>1, CountsStep
<1>3. MetaOK(o.meta) /\ Extends(meta, o.meta, k, o.got)
  BY <1>1, AllocationOK
<1>4. FilesOK(o.meta, ptrs, inode, copy)
  <2>1. Extends(meta, o.meta, "blocks", None)
    BY <1>3, Extending
  <2> QED BY <1>3, <2>1, MetaStep DEF Inv
<1>5. FilesOK(meta', ptrs', inode', copy')
  BY <1>4
<1>6. CallOK' /\ OtherTypes'
  BY <1>2 DEF Inv, CallOK, OtherTypes, Owner, Writer
<1> QED BY <1>2, <1>5, <1>6 DEF Inv

LEMMA CreateNoInodeInv == ASSUME Inv, NEW n, CreateNoInode(n) PROVE Inv'
<1>1. PICK o \in Refused(Allocations(meta, "inodes")), bad \in 0..1 :
        meta' = o.meta /\ Faulty(o.bad + bad) /\ UNCHANGED <<inode, ptrs, data, copy, call, unsure>>
  BY DEF CreateNoInode
<1>2. o \in Allocations(meta, "inodes") /\ "inodes" \in Kinds /\ bad \in Nat
  BY DEF Refused, Kinds
<1> QED BY <1>1, <1>2, AllocOnly

LEMMA CreateInodeFailsInv == ASSUME Inv, NEW n, CreateInodeFails(n) PROVE Inv'
<1>1. PICK o \in Succeeded(Allocations(meta, "inodes")), bad \in 0..1 :
        meta' = o.meta /\ Faulty(o.bad + bad + 1) /\ UNCHANGED <<inode, ptrs, data, copy, call, unsure>>
  BY DEF CreateInodeFails
<1>2. o \in Allocations(meta, "inodes") /\ "inodes" \in Kinds
  BY DEF Succeeded, Kinds
<1>3. o.bad \in 0..1
  BY <1>2, AllocationOK DEF Inv, FilesOK
<1>4. bad + 1 \in Nat /\ o.bad + bad + 1 = o.bad + (bad + 1)
  BY <1>3
<1>5. Faulty(o.bad + (bad + 1))
  BY <1>1, <1>4
<1> QED BY <1>1, <1>2, <1>4, <1>5, AllocOnly

\* A block that is there, or one that is allocated.
BlockOr(m, b) == IF b # None THEN {Outcome(m, b, 0)} ELSE Allocations(m, "blocks")
NewOf(b, o) == IF b = None THEN o.got ELSE None

LEMMA BlockOrOK ==
  ASSUME NEW m, MetaOK(m), NEW e \in BOOLEAN, CountsOK(m, e), NEW b \in Blocks \union {None},
         NEW o \in BlockOr(m, b)
  PROVE  /\ MetaOK(o.meta) /\ Extends(m, o.meta, "blocks", NewOf(b, o)) /\ o.bad \in 0..1
         /\ CountsOK(o.meta, e /\ o.bad = 0)
         /\ o.got # None => o.got \in Blocks
         /\ b # None => o.got = b
<1>1. CASE b # None
  <2>1. o.meta = m /\ o.got = b /\ o.bad = 0
    BY <1>1 DEF BlockOr, Outcome
  <2> QED BY <1>1, <2>1, NoBit, CountsWeaker DEF NewOf
<1>2. CASE b = None
  <2>1. o \in Allocations(m, "blocks") /\ "blocks" \in Kinds
    BY <1>2 DEF BlockOr, Kinds
  <2>2. MetaOK(o.meta) /\ Extends(m, o.meta, "blocks", o.got) /\ o.bad \in 0..1
    BY <2>1, AllocationOK
  <2>3. CountsOK(o.meta, e /\ o.bad = 0)
    BY <2>1, AllocationCounts
  <2>4. o.got # None => o.got \in Blocks
    BY <2>2 DEF Extends
  <2> QED BY <1>2, <2>2, <2>3, <2>4 DEF NewOf
<1> QED BY <1>1, <1>2

LEMMA ZeroPointer == 0 \in Pointers /\ 0 \in 0..(NDirect - 1) /\ 0..(NDirect - 1) \subseteq Pointers
  BY Sizes DEF Pointers

\* ext2_create_file writes the new inode and the root inode nd.
LEMMA CreatedInv ==
  ASSUME Inv, NEW o \in Succeeded(Allocations(meta, "inodes")), NEW r \in RootBlocks(o.meta),
         NEW n \in Nat, Faulty(o.bad + r.bad + n), meta' = r.meta, NEW nd, Created(o.got, nd),
         nd = root \/ (nd = RootWith(r.got) /\ r.got # None), unsure' \in BOOLEAN
  PROVE  Inv'
<1>1. /\ MetaOK(meta) /\ CountsOK(meta, faults = 0) /\ faults \in 0..MaxFaults
      /\ NodesOK(inode, copy) /\ EXT2_ROOT_INO \in Inos /\ FilesOK(meta, ptrs, inode, copy)
  BY Sizes DEF Inv, FilesOK, OtherTypes
<1>2. /\ o \in Allocations(meta, "inodes") /\ "inodes" \in Kinds /\ "blocks" \in Kinds
      /\ o.got # None
  BY DEF Succeeded, Kinds
<1>3. MetaOK(o.meta) /\ Extends(meta, o.meta, "inodes", o.got) /\ o.bad \in 0..1
  BY <1>1, <1>2, AllocationOK
<1> DEFINE e == faults = 0 /\ o.bad = 0
<1>4. CountsOK(o.meta, e) /\ e \in BOOLEAN
  BY <1>1, <1>2, AllocationCounts
<1> DEFINE b == root.block[0]
           x == NewOf(b, r)
<1>5. root = inode[EXT2_ROOT_INO] /\ GoodNode(root) /\ b \in Blocks \union {None}
  BY <1>1, ZeroPointer DEF root, NodesOK, GoodNode, Tables
<1>6. r \in BlockOr(o.meta, b)
  BY DEF RootBlocks, BlockOr
<1> HIDE DEF b
<1>7. /\ MetaOK(r.meta) /\ Extends(o.meta, r.meta, "blocks", x) /\ r.bad \in 0..1
      /\ CountsOK(r.meta, e /\ r.bad = 0)
  <2> HIDE DEF e
  <2> QED BY <1>3, <1>4, <1>5, <1>6, BlockOrOK
<1> HIDE DEF x
<1>8. Extends(meta, r.meta, "blocks", x)
  <2>1. Extends(meta, o.meta, "blocks", None)
    BY <1>2, <1>3, Extending
  <2> QED BY <1>7, <2>1, ExtendsTwice
<1>9. faults' \in 0..MaxFaults /\ (faults' = 0 => faults = 0 /\ o.bad = 0 /\ r.bad = 0)
  <2>1. o.bad + r.bad + n \in Nat
    BY <1>3, <1>7
  <2>2. faults' \in 0..MaxFaults /\ (faults' = 0 => faults = 0 /\ o.bad + r.bad + n = 0)
    BY <1>1, <2>1, FaultyStep
  <2> QED BY <1>3, <1>7, <2>2
<1>10. CountsOK(meta', faults' = 0)
  BY <1>7, <1>9, CountsWeaker
<1>11. Owns(ptrs, root) \subseteq OwnedBy(ptrs, inode, copy, EXT2_ROOT_INO)
  BY <1>5 DEF OwnedBy
<1>12. MayBe(ptrs, inode, copy, EXT2_ROOT_INO, nd, x)
  <2>1. CASE nd = root
    BY <1>1, <1>5, <1>11, <2>1, MayBeSame
  <2>2. CASE nd = RootWith(r.got) /\ r.got # None /\ b # None
    <3>1. nd = root
      BY <2>2 DEF RootWith, b
    <3> QED BY <2>1, <3>1
  <2>3. CASE nd = RootWith(r.got) /\ r.got # None /\ b = None
    <3>1. nd.block = [root.block EXCEPT ![0] = r.got]
      BY <2>3 DEF RootWith, Inode, b
    <3>2. x = r.got /\ x # None
      BY <2>3 DEF x, NewOf
    <3>3. root.block[0] = None
      BY <2>3 DEF b
    <3> QED BY <1>1, <1>5, <1>8, <1>11, <3>1, <3>2, <3>3, ZeroPointer, MayBeLonger
  <2> QED BY <2>1, <2>2, <2>3
<1>13. /\ DOMAIN inode' = Inos /\ inode'[EXT2_ROOT_INO] = nd
       /\ \A j \in Inos : j # EXT2_ROOT_INO => inode'[j] \in {inode[j], NewInode}
  <2>1. inode' = [inode EXCEPT ![o.got] = NewInode, ![EXT2_ROOT_INO] = nd]
    BY DEF Created
  <2>2. DOMAIN inode = Inos
    BY <1>1 DEF NodesOK
  <2> QED BY <1>1, <2>1, <2>2
<1>14. FilesOK(r.meta, ptrs, inode', copy)
  BY <1>1, <1>7, <1>8, <1>12, <1>13, NodeStep
<1>15. FilesOK(meta', ptrs', inode', copy')
  BY <1>14 DEF Created
<1>16. CallOK' /\ OtherTypes'
  BY <1>9 DEF Created, Inv, CallOK, OtherTypes, Owner, Writer
<1> QED BY <1>10, <1>15, <1>16 DEF Inv

\* The refusals of two allocations in a row are numbers.
LEMMA CreateBads ==
  ASSUME Inv, NEW o \in Succeeded(Allocations(meta, "inodes")), NEW r \in RootBlocks(o.meta),
         NEW bad \in 0..1, NEW late \in 0..1
  PROVE  o.bad + r.bad + bad + late = o.bad + r.bad + (bad + late) /\ bad + late \in Nat
<1>1. o \in Allocations(meta, "inodes") /\ "inodes" \in Kinds /\ "blocks" \in Kinds
  BY DEF Succeeded, Kinds
<1>2. o.bad \in 0..1 /\ MetaOK(o.meta)
  BY <1>1, AllocationOK DEF Inv, FilesOK
<1>3. r.bad \in 0..1
  <2>1. CASE root.block[0] # None
    BY <2>1 DEF RootBlocks, Outcome
  <2>2. CASE root.block[0] = None
    BY <1>1, <1>2, <2>2, AllocationOK DEF RootBlocks
  <2> QED BY <2>1, <2>2
<1> QED BY <1>2, <1>3

LEMMA CreateNoEntryInv == ASSUME Inv, NEW n, CreateNoEntry(n) PROVE Inv'
<1>1. PICK o \in Succeeded(Allocations(meta, "inodes")), bad \in 0..1, late \in 0..1 :
      \E r \in RootBlocks(o.meta) :
        /\ meta' = r.meta /\ Faulty(o.bad + r.bad + bad + late)
        /\ Created(o.got, root) /\ unsure' = unsure
  BY DEF CreateNoEntry
<1>2. PICK r \in RootBlocks(o.meta) :
        /\ meta' = r.meta /\ Faulty(o.bad + r.bad + bad + late)
        /\ Created(o.got, root) /\ unsure' = unsure
  BY <1>1
<1>3. o.bad + r.bad + bad + late = o.bad + r.bad + (bad + late) /\ bad + late \in Nat
  BY CreateBads
<1>4. Faulty(o.bad + r.bad + (bad + late)) /\ unsure' \in BOOLEAN
  BY <1>2, <1>3 DEF Inv, OtherTypes
<1> QED BY <1>2, <1>3, <1>4, CreatedInv

LEMMA CreateDoneInv == ASSUME Inv, NEW n, CreateDone(n) PROVE Inv'
<1>1. PICK o \in Succeeded(Allocations(meta, "inodes")), bad \in 0..1, late \in 0..1 :
      \E r \in Succeeded(RootBlocks(o.meta)) :
        /\ meta' = r.meta /\ Faulty(o.bad + r.bad + bad + late)
        /\ Created(o.got, IF late = 1 THEN root ELSE RootWith(r.got))
        /\ unsure' = (unsure \/ bad = 1)
  BY DEF CreateDone
<1>2. PICK r \in Succeeded(RootBlocks(o.meta)) :
        /\ meta' = r.meta /\ Faulty(o.bad + r.bad + bad + late)
        /\ Created(o.got, IF late = 1 THEN root ELSE RootWith(r.got))
        /\ unsure' = (unsure \/ bad = 1)
  BY <1>1
<1>3. r \in RootBlocks(o.meta) /\ r.got # None
  BY DEF Succeeded
<1>4. o.bad + r.bad + bad + late = o.bad + r.bad + (bad + late) /\ bad + late \in Nat
  BY <1>3, CreateBads
<1>5. Faulty(o.bad + r.bad + (bad + late)) /\ unsure' \in BOOLEAN
  BY <1>2, <1>4
<1> DEFINE nd == IF late = 1 THEN root ELSE RootWith(r.got)
<1>6. nd = root \/ (nd = RootWith(r.got) /\ r.got # None)
  BY <1>3
<1>7. Created(o.got, nd)
  BY <1>2
<1> HIDE DEF nd
<1> QED BY <1>2, <1>3, <1>4, <1>5, <1>6, <1>7, CreatedInv

-----------------------------------------------------------------------------

\* A client without a copy reads an inode.
LEMMA ReadInodeInv == ASSUME Inv, NEW c \in Clients, NEW i \in Inos, ext2_read_inode(c, i),
                             call.op = "idle"
                      PROVE  Inv'
<1>1. FilesOK(meta, ptrs, inode, copy) /\ MetaOK(meta) /\ GoodNode(inode[i])
  BY DEF Inv, FilesOK, NodesOK
<1>2. MayBe(ptrs, inode, copy, i, inode[i], None)
  BY <1>1 DEF MayBe, OwnedBy
<1>3. FilesOK(meta, ptrs, inode, [copy EXCEPT ![c] = [ino |-> i, inode |-> inode[i]]])
  BY <1>1, <1>2, NoBit, CopyStep
<1>4. FilesOK(meta', ptrs', inode', copy')
  BY <1>3 DEF ext2_read_inode
<1>5. UNCHANGED <<meta, data, call, faults, unsure>>
  BY DEF ext2_read_inode
<1>6. CountsOK(meta', faults' = 0) /\ OtherTypes'
  BY <1>5 DEF Inv, OtherTypes
<1>7. CallOK'
  BY <1>5 DEF Inv, CallOK
<1> QED BY <1>4, <1>6, <1>7 DEF Inv

\* A client writes its copy back.
LEMMA WriteInodeInv == ASSUME Inv, NEW c \in Clients, ext2_write_inode(c) PROVE Inv'
<1> DEFINE i == copy[c].ino
           nd == copy[c].inode
<1>1. /\ FilesOK(meta, ptrs, inode, copy) /\ MetaOK(meta) /\ NodesOK(inode, copy)
      /\ i \in Inos /\ GoodNode(nd)
  BY DEF Inv, FilesOK, NodesOK, ext2_write_inode, Owner
<1>2. MayBe(ptrs, inode, copy, i, nd, None)
  BY <1>1 DEF MayBe, OwnedBy
<1>3. /\ DOMAIN inode' = Inos /\ inode'[i] = nd
      /\ \A j \in Inos : j # i => inode'[j] \in {inode[j], NewInode}
  BY <1>1 DEF ext2_write_inode, NodesOK, Owner
<1> HIDE DEF i, nd
<1>4. FilesOK(meta, ptrs, inode', copy)
  BY <1>1, <1>2, <1>3, NoBit, NodeStep
<1>5. UNCHANGED <<meta, ptrs, copy, data, call, faults, unsure>>
  BY DEF ext2_write_inode
<1>6. FilesOK(meta', ptrs', inode', copy')
  BY <1>4, <1>5
<1>7. CountsOK(meta', faults' = 0) /\ OtherTypes'
  BY <1>5 DEF Inv, OtherTypes
<1>8. CallOK'
  BY <1>5 DEF Inv, CallOK, Owner, Writer
<1> QED BY <1>6, <1>7, <1>8 DEF Inv

LEMMA ForgetInv == ASSUME Inv, NEW c \in Clients, Forget(c), call.op = "idle" PROVE Inv'
<1>1. FilesOK(meta, ptrs, inode, copy) /\ MetaOK(meta)
  BY DEF Inv, FilesOK
<1>2. MayBe(ptrs, inode, copy, None, NewInode, None)
  <2>1. None \notin Inos
    BY DEF None, Inos
  <2> QED BY <2>1, NewOwnsNothing DEF MayBe
<1>3. FilesOK(meta, ptrs, inode, [copy EXCEPT ![c] = [ino |-> None, inode |-> NewInode]])
  BY <1>1, <1>2, NoBit, CopyStep
<1>4. FilesOK(meta', ptrs', inode', copy')
  BY <1>3 DEF Forget, NoCopy
<1>5. UNCHANGED <<meta, data, call, faults, unsure>>
  BY DEF Forget
<1>6. CountsOK(meta', faults' = 0) /\ OtherTypes'
  BY <1>5 DEF Inv, OtherTypes
<1>7. CallOK'
  BY <1>5 DEF Inv, CallOK
<1> QED BY <1>4, <1>6, <1>7 DEF Inv

\* What a client holds belongs to the file it holds.
LEMMA CopyOwned ==
  ASSUME Inv, NEW c \in Clients, Owner(c) \in Inos
  PROVE  /\ GoodNode(copy[c].inode)
         /\ Owns(ptrs, copy[c].inode) \subseteq OwnedBy(ptrs, inode, copy, Owner(c))
  BY DEF Inv, FilesOK, NodesOK, OwnedBy, Owner

\* The client's copy, with the block that BlockFor has got for it if it is new.
LEMMA HoldingFiles ==
  ASSUME Inv, NEW c \in Clients, Owner(c) \in Inos, NEW k \in 0..(NDirect - 1),
         NEW o \in BlockFor(copy[c].inode, k), NEW nd,
         \/ nd.block = copy[c].inode.block
         \/ /\ copy[c].inode.block[k] = None /\ o.got # None
            /\ nd.block = [copy[c].inode.block EXCEPT ![k] = o.got],
         meta' = o.meta, Holding(c, nd), UNCHANGED <<ptrs, inode>>,
         NEW n \in Nat, Faulty(o.bad + n)
  PROVE  /\ FilesOK(meta', ptrs', inode', copy') /\ CountsOK(meta', faults' = 0)
         /\ faults' \in 0..MaxFaults /\ (o.got # None => o.got \in Blocks)
         /\ \A d \in Clients : copy'[d].ino = Owner(d)
<1> DEFINE old == copy[c].inode
           b == old.block[k]
           x == NewOf(b, o)
           e == faults = 0
<1>1. /\ MetaOK(meta) /\ CountsOK(meta, e) /\ faults \in 0..MaxFaults /\ e \in BOOLEAN
      /\ NodesOK(inode, copy) /\ FilesOK(meta, ptrs, inode, copy)
  BY DEF Inv, FilesOK, OtherTypes
<1>2. GoodNode(old) /\ Owns(ptrs, old) \subseteq OwnedBy(ptrs, inode, copy, Owner(c))
  BY CopyOwned
<1>3. b \in Blocks \union {None}
  BY <1>2, ZeroPointer DEF GoodNode, Tables
<1>4. o \in BlockOr(meta, b)
  BY DEF BlockFor, BlockOr
<1> HIDE DEF b, e
<1>5. /\ MetaOK(o.meta) /\ Extends(meta, o.meta, "blocks", x) /\ o.bad \in 0..1
      /\ CountsOK(o.meta, e /\ o.bad = 0) /\ (o.got # None => o.got \in Blocks)
  BY <1>1, <1>3, <1>4, BlockOrOK
<1>6. faults' \in 0..MaxFaults /\ (faults' = 0 => faults = 0 /\ o.bad = 0)
  <2>1. o.bad + n \in Nat
    BY <1>5
  <2>2. faults' \in 0..MaxFaults /\ (faults' = 0 => faults = 0 /\ o.bad + n = 0)
    BY <1>1, <2>1, FaultyStep
  <2> QED BY <1>5, <2>2
<1>7. CountsOK(meta', faults' = 0)
  <2>1. faults' = 0 => e /\ o.bad = 0
    BY <1>6 DEF e
  <2> QED BY <1>5, <2>1, CountsWeaker
<1> HIDE DEF x, old
<1>8. MayBe(ptrs, inode, copy, Owner(c), nd, x)
  <2>1. CASE nd.block = old.block
    BY <1>1, <1>2, <2>1, MayBeSame
  <2>2. CASE b = None /\ o.got # None /\ nd.block = [old.block EXCEPT ![k] = o.got]
    <3>1. x = o.got /\ x # None
      BY <2>2 DEF x, NewOf
    <3>2. old.block[k] = None /\ nd.block = [old.block EXCEPT ![k] = x]
      BY <2>2, <3>1 DEF b
    <3> QED BY <1>1, <1>2, <1>5, <3>1, <3>2, MayBeLonger
  <2> QED BY <2>1, <2>2 DEF old, b
<1>9. FilesOK(o.meta, ptrs, inode, [copy EXCEPT ![c] = [ino |-> Owner(c), inode |-> nd]])
  BY <1>1, <1>5, <1>8, CopyStep
<1>10. FilesOK(meta', ptrs', inode', copy')
  BY <1>9 DEF Holding
<1>11. \A d \in Clients : copy'[d].ino = Owner(d)
  <2>1. DOMAIN copy = Clients
    BY <1>1 DEF NodesOK
  <2> QED BY <2>1 DEF Holding, Owner
<1> QED BY <1>5, <1>6, <1>7, <1>10, <1>11

LEMMA GetOrAllocInv ==
  ASSUME Inv, NEW c \in Clients, NEW k \in 0..(NDirect - 1), ext2_get_or_alloc_block(c, k),
         call.op = "idle"
  PROVE  Inv'
<1> DEFINE old == copy[c].inode
<1>1. PICK o \in BlockFor(copy[c].inode, k) :
        /\ Owner(c) # None /\ copy[c].inode.block[k] = None /\ meta' = o.meta /\ Faulty(o.bad)
        /\ Holding(c, IF o.got = None THEN copy[c].inode
                      ELSE Pointing(copy[c].inode, k, o.got, 0))
        /\ UNCHANGED <<inode, ptrs, data, call, unsure>>
  BY DEF ext2_get_or_alloc_block
<1> DEFINE nd == IF o.got = None THEN copy[c].inode ELSE Pointing(copy[c].inode, k, o.got, 0)
<1>2. \/ nd.block = copy[c].inode.block
      \/ /\ copy[c].inode.block[k] = None /\ o.got # None
         /\ nd.block = [copy[c].inode.block EXCEPT ![k] = o.got]
  BY <1>1 DEF Pointing, Inode
<1>3. Owner(c) \in Inos
  BY <1>1 DEF Inv, FilesOK, NodesOK, Owner
<1>4. o.bad \in 0..1
  <2>1. o \in Allocations(meta, "blocks") /\ "blocks" \in Kinds
    BY <1>1 DEF BlockFor, Kinds
  <2> QED BY <2>1, AllocationOK DEF Inv, FilesOK
<1>5. Faulty(o.bad + 0) /\ 0 \in Nat
  <2>1. o.bad + 0 = o.bad
    BY <1>4
  <2> QED BY <1>1, <2>1
<1>6. Holding(c, nd)
  BY <1>1
<1> HIDE DEF nd
<1>7. FilesOK(meta', ptrs', inode', copy') /\ CountsOK(meta', faults' = 0) /\ faults' \in 0..MaxFaults
  BY <1>1, <1>2, <1>3, <1>5, <1>6, HoldingFiles
<1>8. CallOK' /\ OtherTypes'
  BY <1>1, <1>7 DEF Inv, CallOK, OtherTypes
<1> QED BY <1>7, <1>8 DEF Inv

LEMMA StartWriteInv ==
  ASSUME Inv, NEW c \in Clients, NEW w \in Writes, StartWrite(c, w)
  PROVE  Inv'
<1>1. Owner(c) \in Inos
  BY DEF Inv, FilesOK, NodesOK, Owner, StartWrite
<1>2. w.off \in Nat /\ w.data \in Seq(Values) /\ 0 <= Len(w.data)
  BY Ext2Assumption
<1>3. call' = [op |-> "write", client |-> c, off |-> w.off, done |-> 0, data |-> w.data]
  BY DEF StartWrite
<1>4. UNCHANGED <<meta, inode, ptrs, data, copy, faults, unsure>>
  BY DEF StartWrite
<1>5. CallOK'
  BY <1>1, <1>2, <1>3, <1>4 DEF CallOK, Owner, Writer
<1>6. FilesOK(meta', ptrs', inode', copy') /\ CountsOK(meta', faults' = 0) /\ OtherTypes'
  BY <1>4 DEF Inv, OtherTypes
<1> QED BY <1>5, <1>6 DEF Inv

\* Where a write has come to.
LEMMA WritePlace ==
  ASSUME CallOK, MoreToWrite
  PROVE  /\ Writer \in Clients /\ Owner(Writer) \in Inos
         /\ WriteAt \in Nat /\ WriteIndex \in 0..(NDirect - 1)
         /\ Piece \in Nat /\ call.done + Piece <= Len(call.data)
<1>1. /\ call.off \in Nat /\ call.done \in Nat /\ call.data \in Seq(Values)
      /\ call.done < Len(call.data) /\ Len(call.data) \in Nat
      /\ Writer \in Clients /\ Owner(Writer) \in Inos
  BY DEF CallOK, MoreToWrite
<1>2. WriteAt \in Nat
  BY <1>1 DEF WriteAt
<1>3. ASSUME NEW a \in Nat, NEW C \in Nat \ {0} PROVE a \div C \in Nat /\ a % C \in 0..(C - 1)
  OBVIOUS
<1>4. WriteIndex \in Nat /\ WriteAt % CellsPerBlock \in 0..(CellsPerBlock - 1)
  BY <1>2, <1>3, Sizes DEF WriteIndex
<1>5. WriteIndex \in 0..(NDirect - 1)
  BY <1>4, Sizes DEF MoreToWrite
<1> DEFINE r == WriteAt % CellsPerBlock
<1>6. r \in 0..(CellsPerBlock - 1) /\ CellsPerBlock \in Nat
  BY <1>4, Sizes
<1>7. Piece = Smaller(CellsPerBlock - r, Len(call.data) - call.done)
  BY DEF Piece
<1> HIDE DEF r
<1>8. Piece \in Nat /\ call.done + Piece <= Len(call.data)
  BY <1>1, <1>6, <1>7 DEF Smaller
<1> QED BY <1>1, <1>2, <1>5, <1>8

LEMMA FilledType ==
  ASSUME CallOK, MoreToWrite, NEW old \in BlockData
  PROVE  Filled(old) \in BlockData
<1> DEFINE base == WriteIndex * CellsPerBlock
<1>1. base \in Nat
  <2>1. WriteIndex \in Nat /\ CellsPerBlock \in Nat
    BY WritePlace, Sizes
  <2> QED BY <2>1
<1>2. /\ WriteAt \in Nat /\ Piece \in Nat /\ call.done + Piece <= Len(call.data)
      /\ call.data \in Seq(Values) /\ call.done \in Nat /\ call.off \in Nat
      /\ WriteAt = call.off + call.done
  BY WritePlace DEF CallOK, WriteAt
<1> HIDE DEF base
<1>3. ASSUME NEW i \in 0..(CellsPerBlock - 1)
      PROVE  (IF InPiece(base + i) THEN Given(base + i) ELSE old[i]) \in Values \union {Zero}
  <2>1. CASE InPiece(base + i)
    <3>1. WriteAt <= base + i /\ base + i < WriteAt + Piece
      BY <2>1 DEF InPiece
    <3>2. (base + i) - call.off + 1 \in 1..Len(call.data)
      BY <1>1, <1>2, <3>1
    <3>3. Given(base + i) \in Values
      BY <1>2, <3>2 DEF Given
    <3> QED BY <2>1, <3>3
  <2>2. CASE ~InPiece(base + i)
    BY <2>2 DEF BlockData
  <2> QED BY <2>1, <2>2
<1> QED BY <1>3 DEF Filled, BlockData, base

\* What Ended leaves alone.
LEMMA EndedBlock == ASSUME NEW nd PROVE Ended(nd).block = nd.block
  BY DEF Ended, Inode

\* A call that ends leaves nothing in progress.
LEMMA IdleCall == ASSUME call' = Idle PROVE CallOK'
  BY DEF CallOK, Idle

LEMMA BlockForBad ==
  ASSUME Inv, NEW nd, NEW k, NEW o \in BlockFor(nd, k)
  PROVE  o.bad \in 0..1
<1>1. CASE nd.block[k] # None
  BY <1>1 DEF BlockFor, Outcome
<1>2. CASE nd.block[k] = None
  <2>1. o \in Allocations(meta, "blocks") /\ "blocks" \in Kinds
    BY <1>2 DEF BlockFor, Kinds
  <2> QED BY <2>1, AllocationOK DEF Inv, FilesOK
<1> QED BY <1>1, <1>2

\* One round of ext2_write_inode_data.
LEMMA WriteBlockInv == ASSUME Inv, WriteBlock PROVE Inv'
<1> DEFINE c == Writer
           nd == copy[Writer].inode
           k == WriteIndex
<1>1. MoreToWrite /\ CallOK
  BY DEF WriteBlock, Inv
<1>2. c \in Clients /\ Owner(c) \in Inos /\ k \in 0..(NDirect - 1)
  BY <1>1, WritePlace
<1>3. PICK o \in Succeeded(BlockFor(nd, k)), lost \in BOOLEAN :
        /\ meta' = o.meta /\ Faulty(o.bad + (IF lost THEN 1 ELSE 0))
        /\ Holding(c, IF nd.block[k] = None THEN Pointing(nd, k, o.got, 1) ELSE nd)
        /\ data' = [data EXCEPT ![o.got] = Filled(IF lost THEN ZeroBlock ELSE @)]
        /\ call' = [call EXCEPT !.done = @ + Piece]
        /\ UNCHANGED <<inode, ptrs, unsure>>
  BY DEF WriteBlock
<1> DEFINE nd2 == IF nd.block[k] = None THEN Pointing(nd, k, o.got, 1) ELSE nd
           n == IF lost THEN 1 ELSE 0
<1>4. o \in BlockFor(nd, k) /\ o.got # None /\ n \in Nat /\ Holding(c, nd2)
  BY <1>3 DEF Succeeded
<1>5. \/ nd2.block = nd.block
      \/ nd.block[k] = None /\ o.got # None /\ nd2.block = [nd.block EXCEPT ![k] = o.got]
  BY <1>4 DEF Pointing, Inode
<1>6. Faulty(o.bad + n)
  BY <1>3
<1> HIDE DEF nd2, n, c, k
<1>7. /\ FilesOK(meta', ptrs', inode', copy') /\ CountsOK(meta', faults' = 0)
      /\ faults' \in 0..MaxFaults /\ o.got \in Blocks
      /\ \A d \in Clients : copy'[d].ino = Owner(d)
  BY <1>2, <1>3, <1>4, <1>5, <1>6, HoldingFiles DEF c, k
<1>8. data' \in [Blocks -> BlockData]
  <2> DEFINE old == IF lost THEN ZeroBlock ELSE data[o.got]
  <2>1. data \in [Blocks -> BlockData] /\ old \in BlockData
    BY <1>7 DEF Inv, OtherTypes, BlockData, ZeroBlock
  <2>2. data' = [data EXCEPT ![o.got] = Filled(old)]
    BY <1>3
  <2> HIDE DEF old
  <2>3. Filled(old) \in BlockData
    BY <1>1, <2>1, FilledType
  <2> QED BY <2>1, <2>2, <2>3
<1>9. CallOK'
  <2>1. /\ Piece \in Nat /\ call.done + Piece <= Len(call.data) /\ call.op = "write"
        /\ Writer \in Clients /\ Owner(Writer) \in Inos
    BY <1>1, WritePlace DEF MoreToWrite
  <2>2. call.done + Piece \in Nat
    BY <1>1, <2>1 DEF CallOK
  <2>3. /\ call' \in [op : {"idle", "write"}, client : Clients \union {None}, off : Nat,
                      done : Nat, data : Seq(Values)]
        /\ call'.done = call.done + Piece /\ call'.client = call.client /\ call'.data = call.data
    BY <1>1, <1>3, <2>2 DEF CallOK
  <2> QED BY <1>7, <2>1, <2>3 DEF CallOK, Writer, Owner
<1> QED BY <1>3, <1>7, <1>8, <1>9 DEF Inv, OtherTypes

LEMMA WriteEndInv == ASSUME Inv, WriteEnd PROVE Inv'
<1> DEFINE c == Writer
           nd == copy[Writer].inode
<1>1. c \in Clients /\ Owner(c) \in Inos /\ Holding(c, Ended(nd)) /\ call' = Idle
      /\ UNCHANGED <<meta, inode, ptrs, data, faults, unsure>>
  BY DEF WriteEnd, Inv, CallOK
<1>2. FilesOK(meta, ptrs, inode, copy) /\ MetaOK(meta)
  BY DEF Inv, FilesOK
<1>3. GoodNode(nd) /\ Owns(ptrs, nd) \subseteq OwnedBy(ptrs, inode, copy, Owner(c))
  BY <1>1, CopyOwned
<1> HIDE DEF c, nd
<1>4. MayBe(ptrs, inode, copy, Owner(c), Ended(nd), None)
  BY <1>2, <1>3, EndedBlock, MayBeSame
<1>5. FilesOK(meta, ptrs, inode, [copy EXCEPT ![c] = [ino |-> Owner(c), inode |-> Ended(nd)]])
  BY <1>1, <1>2, <1>4, NoBit, CopyStep
<1>6. FilesOK(meta', ptrs', inode', copy')
  BY <1>1, <1>5 DEF Holding
<1>7. CountsOK(meta', faults' = 0) /\ OtherTypes'
  BY <1>1 DEF Inv, OtherTypes
<1> QED BY <1>1, <1>6, <1>7, IdleCall DEF Inv

LEMMA WriteNoBlockInv == ASSUME Inv, WriteNoBlock PROVE Inv'
<1> DEFINE c == Writer
           nd == copy[Writer].inode
           k == WriteIndex
<1>1. MoreToWrite /\ CallOK
  BY DEF WriteNoBlock, Inv
<1>2. c \in Clients /\ Owner(c) \in Inos /\ k \in 0..(NDirect - 1)
  BY <1>1, WritePlace
<1>3. PICK o \in Refused(BlockFor(nd, k)) :
        /\ meta' = o.meta /\ Faulty(o.bad) /\ Holding(c, Ended(nd)) /\ call' = Idle
        /\ UNCHANGED <<inode, ptrs, data, unsure>>
  BY DEF WriteNoBlock
<1>4. o \in BlockFor(nd, k) /\ Ended(nd).block = nd.block
  BY EndedBlock DEF Refused
<1>5. Faulty(o.bad + 0) /\ 0 \in Nat
  <2>1. o.bad \in 0..1
    BY <1>4, BlockForBad
  <2>2. o.bad + 0 = o.bad
    BY <2>1
  <2> QED BY <1>3, <2>2
<1> HIDE DEF c, k
<1>6. FilesOK(meta', ptrs', inode', copy') /\ CountsOK(meta', faults' = 0) /\ faults' \in 0..MaxFaults
  BY <1>2, <1>3, <1>4, <1>5, HoldingFiles DEF c, k
<1>7. OtherTypes'
  BY <1>3, <1>6 DEF Inv, OtherTypes
<1> QED BY <1>3, <1>6, <1>7, IdleCall DEF Inv

LEMMA WriteFailsInv == ASSUME Inv, WriteFails PROVE Inv'
<1> DEFINE c == Writer
           nd == copy[Writer].inode
           k == WriteIndex
<1>1. MoreToWrite /\ CallOK
  BY DEF WriteFails, Inv
<1>2. c \in Clients /\ Owner(c) \in Inos /\ k \in 0..(NDirect - 1)
  BY <1>1, WritePlace
<1>3. PICK o \in Succeeded(BlockFor(nd, k)) :
        /\ meta' = o.meta /\ Faulty(o.bad + 1)
        /\ Holding(c, Ended(IF nd.block[k] # None THEN nd ELSE Pointing(nd, k, o.got, 1)))
        /\ call' = Idle /\ UNCHANGED <<inode, ptrs, data, unsure>>
  BY DEF WriteFails
<1> DEFINE nd2 == Ended(IF nd.block[k] # None THEN nd ELSE Pointing(nd, k, o.got, 1))
<1>4. o \in BlockFor(nd, k) /\ o.got # None /\ 1 \in Nat /\ Holding(c, nd2)
  BY <1>3 DEF Succeeded
<1>5. \/ nd2.block = nd.block
      \/ nd.block[k] = None /\ o.got # None /\ nd2.block = [nd.block EXCEPT ![k] = o.got]
  BY <1>4, EndedBlock DEF Pointing, Inode
<1> HIDE DEF nd2, c, k
<1>6. FilesOK(meta', ptrs', inode', copy') /\ CountsOK(meta', faults' = 0) /\ faults' \in 0..MaxFaults
  BY <1>2, <1>3, <1>4, <1>5, HoldingFiles DEF c, k
<1>7. OtherTypes'
  BY <1>3, <1>6 DEF Inv, OtherTypes
<1> QED BY <1>3, <1>6, <1>7, IdleCall DEF Inv

\* Every step keeps the invariant.
LEMMA NextInv == Inv /\ [Next]_vars => Inv'
<1> SUFFICES ASSUME Inv, [Next]_vars PROVE Inv'
  OBVIOUS
<1>1. ASSUME NEW n \in Names, ext2_create_file(n) PROVE Inv'
  BY <1>1, CreateNoInodeInv, CreateInodeFailsInv, CreateNoEntryInv, CreateDoneInv
  DEF ext2_create_file
<1>2. ASSUME call.op = "idle", Calls PROVE Inv'
  BY <1>1, <1>2, ReadInodeInv, WriteInodeInv, ForgetInv, GetOrAllocInv, StartWriteInv DEF Calls
<1>3. CASE UNCHANGED vars
  BY <1>3 DEF vars, Inv, CallOK, OtherTypes, Owner, Writer
<1> QED BY <1>2, <1>3, WriteBlockInv, WriteEndInv, WriteNoBlockInv, WriteFailsInv DEF Next

\* The invariant holds on every volume that was in order when it was mounted.
THEOREM Ext2Invariant == Spec => []Inv
  BY InitInv, NextInv, PTL DEF Spec

LEMMA InvTypes == Inv => TypeOK
<1> SUFFICES ASSUME Inv PROVE TypeOK
  OBVIOUS
<1>1. meta \in Metas /\ \A k \in Kinds : \A g \in Groups : meta.bits[k][g] \subseteq Bits(k)
  BY DEF Inv, FilesOK, MetaOK
<1>2. /\ DOMAIN inode = Inos /\ \A i \in Inos : inode[i].block \in Tables
      /\ \A c \in Clients : Owner(c) \in Inos \union {None}
  BY DEF Inv, FilesOK, NodesOK, GoodNode, Owner
<1>3. data \in [Blocks -> [0..(CellsPerBlock - 1) -> Values \union {Zero}]]
  BY DEF Inv, OtherTypes, BlockData
<1> QED BY <1>1, <1>2, <1>3 DEF TypeOK, Metas, Inv, OtherTypes

LEMMA InvOwned == Inv => BlocksOwned
<1> SUFFICES ASSUME Inv PROVE BlocksOwned
  OBVIOUS
<1>1. \A i \in Inos : BlocksOf(i) = OwnedBy(ptrs, inode, copy, i)
  BY DEF BlocksOf, OwnedBy, Owner
<1>2. \A c \in Clients : Distinct(copy[c].inode.block)
  BY DEF Inv, FilesOK, NodesOK, GoodNode
<1>3. OwnersOK(meta, ptrs, inode, copy)
  BY DEF Inv, FilesOK
<1> DEFINE own == [i \in Inos |-> BlocksOf(i)]
<1>4. ASSUME NEW i \in Inos
      PROVE  /\ own[i] \subseteq Used("blocks") \ Meta
             /\ \A j \in Inos : i # j => own[i] \intersect own[j] = {}
  BY <1>1, <1>3 DEF OwnersOK, Used
<1> QED BY <1>2, <1>4, InvTypes DEF BlocksOwned

\* The driver's tables keep their types.
THEOREM Ext2Types == Spec => []TypeOK
  BY Ext2Invariant, InvTypes, PTL

\* No block that ext2_allocate_block has handed out is handed out again, or
\* belongs to two files, or twice to one, through all copies of inodes that
\* clients hold and all calls that fail half way.
THEOREM EveryBlockHasOneOwner == Spec => []BlocksOwned
  BY Ext2Invariant, InvOwned, PTL

\* The free counts of groups and superblock cover the clear bits of the
\* bitmaps, and are exact as long as no transfer has failed.
THEOREM FreeCountsCover == Spec => []CountsCover
<1>1. Inv => CountsCover
  BY DEF Inv, CountsOK, CountsCover
<1> QED BY <1>1, Ext2Invariant, PTL

-----------------------------------------------------------------------------
(* Records and their lengths.                                              *)

\* Sums of two functions that agree in front of m.
LEMMA SumsAgree ==
  ASSUME NEW n \in Nat, NEW f \in [0..(n - 1) -> Nat],
         NEW n2 \in Nat, NEW f2 \in [0..(n2 - 1) -> Nat],
         NEW m \in Nat, m <= n, m <= n2, \A i \in 0..(m - 1) : f2[i] = f[i]
  PROVE  Sums(n2, f2)[m] = Sums(n, f)[m]
<1> DEFINE u == Sums(n, f)
           v == Sums(n2, f2)
<1>1. /\ u \in [0..n -> Nat] /\ u[0] = 0 /\ \A i \in 1..n : u[i] = u[i - 1] + f[i - 1]
      /\ v \in [0..n2 -> Nat] /\ v[0] = 0 /\ \A i \in 1..n2 : v[i] = v[i - 1] + f2[i - 1]
  BY SumsAre
<1> HIDE DEF u, v
<1> DEFINE S == {i \in 0..m : v[i] = u[i]}
<1>2. 0 \in S
  BY <1>1
<1>3. ASSUME NEW i \in 0..(m - 1), i \in S PROVE i + 1 \in S
  <2>1. i + 1 \in 1..n /\ i + 1 \in 1..n2 /\ (i + 1) - 1 = i
    OBVIOUS
  <2>2. u[i + 1] = u[i] + f[i] /\ v[i + 1] = v[i] + f2[i]
    BY <1>1, <2>1
  <2> QED BY <1>3, <2>2
<1>4. \A i \in 0..m : i \in S
  <2> HIDE DEF S
  <2> QED BY <1>2, <1>3, UpToInduction
<1> QED BY <1>4 DEF u, v

\* A sum of numbers above zero grows with every number.
LEMMA SumsGrow ==
  ASSUME NEW n \in Nat, NEW f \in [0..(n - 1) -> Nat], \A i \in 0..(n - 1) : f[i] > 0,
         NEW k \in 0..(n - 1)
  PROVE  Sums(n, f)[k] < Sums(n, f)[n]
<1> DEFINE u == Sums(n, f)
<1>1. u \in [0..n -> Nat] /\ \A i \in 1..n : u[i] = u[i - 1] + f[i - 1]
  BY SumsAre
<1> HIDE DEF u
<1> DEFINE S == {i \in 0..n : i > k => u[k] < u[i]}
<1>2. 0 \in S
  OBVIOUS
<1>3. ASSUME NEW i \in 0..(n - 1), i \in S PROVE i + 1 \in S
  <2>1. i + 1 \in 1..n /\ (i + 1) - 1 = i /\ i \in 0..n
    OBVIOUS
  <2>2. u[i + 1] = u[i] + f[i] /\ f[i] > 0 /\ f[i] \in Nat /\ u[i] \in Nat
    BY <1>1, <2>1
  <2>3. CASE i > k
    <3>1. u[k] < u[i] /\ u[k] \in Nat
      BY <1>1, <1>3, <2>3
    <3> QED BY <2>1, <2>2, <3>1
  <2>4. CASE i = k
    BY <2>1, <2>2, <2>4
  <2>5. CASE i < k
    BY <2>1, <2>5
  <2> QED BY <2>3, <2>4, <2>5
<1>4. \A i \in 0..n : i \in S
  <2> HIDE DEF S
  <2> QED BY <1>2, <1>3, UpToInduction
<1> QED BY <1>4 DEF u

LEMMA RecordFields ==
  ASSUME NEW x \in Records
  PROVE  x.ino \in Inos \union {None} /\ x.len \in Nat /\ x.name \in Names
  BY DEF Records

Lengths(s) == [i \in 0..(Len(s) - 1) |-> s[i + 1].len]

LEMMA LengthsType ==
  ASSUME NEW s \in Seq(Records)
  PROVE  /\ Len(s) \in Nat /\ DOMAIN s = 1..Len(s) /\ Lengths(s) \in [0..(Len(s) - 1) -> Nat]
         /\ \A i \in 1..Len(s) : s[i] \in Records /\ Lengths(s)[i - 1] = s[i].len
         /\ Begin(s) = Sums(Len(s), Lengths(s)) /\ Length(s) = Sums(Len(s), Lengths(s))[Len(s)]
<1>1. \A i \in 1..Len(s) : s[i] \in Records /\ s[i].len \in Nat
  BY RecordFields
<1>2. \A i \in 0..(Len(s) - 1) : i + 1 \in 1..Len(s)
  OBVIOUS
<1>3. Lengths(s) \in [0..(Len(s) - 1) -> Nat]
  BY <1>1, <1>2 DEF Lengths
<1>4. \A i \in 1..Len(s) : i - 1 \in 0..(Len(s) - 1) /\ (i - 1) + 1 = i
  OBVIOUS
<1>5. \A i \in 1..Len(s) : Lengths(s)[i - 1] = s[i].len
  BY <1>4 DEF Lengths
<1> QED BY <1>1, <1>3, <1>5 DEF Begin, Length, Lengths

LEMMA NeededNat ==
  ASSUME NEW n \in Names
  PROVE  Needed(n) \in Nat /\ Needed(n) > 0
<1>1. NameLen[n] \in Nat
  <2>1. NameLen \in [Names -> 1..255]
    BY Ext2Assumption
  <2>2. NameLen[n] \in 1..255
    BY <2>1
  <2> QED BY <2>2
<1> DEFINE l == NameLen[n]
<1>2. Needed(n) = ((8 + l + 3) \div 4) * 4
  BY DEF Needed
<1>3. l \in Nat
  BY <1>1
<1> HIDE DEF l
<1> QED BY <1>2, <1>3

\* A record that is replaced by one of the same length.
LEMMA ReplacedLength ==
  ASSUME NEW s \in Seq(Records), NEW j \in 1..Len(s), NEW x \in Records, x.len = s[j].len
  PROVE  [s EXCEPT ![j] = x] \in Seq(Records) /\ Length([s EXCEPT ![j] = x]) = Length(s)
<1> DEFINE t == [s EXCEPT ![j] = x]
<1>1. t \in Seq(Records) /\ Len(t) = Len(s) /\ \A i \in 1..Len(s) : t[i] = IF i = j THEN x ELSE s[i]
  OBVIOUS
<1> HIDE DEF t
<1>2. \A i \in 1..Len(s) : t[i].len = s[i].len
  BY <1>1
<1>3. Lengths(t) = Lengths(s)
  <2>1. \A i \in 0..(Len(s) - 1) : i + 1 \in 1..Len(s)
    OBVIOUS
  <2> QED BY <1>1, <1>2, <2>1 DEF Lengths
<1>4. Length(t) = Length(s)
  BY <1>1, <1>3, LengthsType
<1> QED BY <1>1, <1>4 DEF t

\* A last record that is cut in two.
CutLast(s, x, y) == Append([s EXCEPT ![Len(s)] = x], y)

LEMMA CutFields ==
  ASSUME NEW s \in Seq(Records), s # <<>>, NEW x \in Records, NEW y \in Records
  PROVE  /\ CutLast(s, x, y) \in Seq(Records) /\ Len(CutLast(s, x, y)) = Len(s) + 1
         /\ \A i \in 1..(Len(s) + 1) :
              CutLast(s, x, y)[i] = IF i = Len(s) + 1 THEN y ELSE IF i = Len(s) THEN x ELSE s[i]
<1> DEFINE t == [s EXCEPT ![Len(s)] = x]
<1>1. Len(s) \in 1..Len(s)
  OBVIOUS
<1>2. t \in Seq(Records) /\ Len(t) = Len(s) /\ \A i \in 1..Len(s) : t[i] = IF i = Len(s) THEN x ELSE s[i]
  BY <1>1
<1> HIDE DEF t
<1>3. /\ Append(t, y) \in Seq(Records) /\ Len(Append(t, y)) = Len(s) + 1
      /\ \A i \in 1..(Len(s) + 1) : Append(t, y)[i] = IF i = Len(s) + 1 THEN y ELSE t[i]
  BY <1>2
<1>4. \A i \in 1..(Len(s) + 1) : i # Len(s) + 1 => i \in 1..Len(s)
  OBVIOUS
<1>5. CutLast(s, x, y) = Append(t, y)
  BY DEF CutLast, t
<1> QED BY <1>2, <1>3, <1>4, <1>5

LEMMA CutLength ==
  ASSUME NEW s \in Seq(Records), s # <<>>, NEW x \in Records, NEW y \in Records,
         x.len + y.len = s[Len(s)].len
  PROVE  Length(CutLast(s, x, y)) = Length(s)
<1> DEFINE t == CutLast(s, x, y)
           n == Len(s)
           f == Lengths(s)
           f2 == Lengths(t)
<1>1. /\ t \in Seq(Records) /\ Len(t) = n + 1
      /\ \A i \in 1..(n + 1) : t[i] = IF i = n + 1 THEN y ELSE IF i = n THEN x ELSE s[i]
  BY CutFields
<1>2. n \in Nat /\ n >= 1
  OBVIOUS
<1> HIDE DEF t
<1>3. /\ f \in [0..(n - 1) -> Nat] /\ Length(s) = Sums(n, f)[n]
      /\ \A i \in 1..n : f[i - 1] = s[i].len
  BY LengthsType
<1>4. /\ f2 \in [0..((n + 1) - 1) -> Nat] /\ Length(t) = Sums(n + 1, f2)[n + 1]
      /\ \A i \in 1..(n + 1) : f2[i - 1] = t[i].len
  BY <1>1, LengthsType
<1> HIDE DEF n, f, f2
<1>5. f2[n] = y.len /\ f2[n - 1] = x.len /\ f[n - 1] = s[n].len
  <2>1. n + 1 \in 1..(n + 1) /\ n \in 1..(n + 1) /\ n \in 1..n /\ (n + 1) - 1 = n /\ n # n + 1
    BY <1>2
  <2> QED BY <1>1, <1>3, <1>4, <2>1
<1>6. \A i \in 0..((n - 1) - 1) : f2[i] = f[i]
  <2> SUFFICES ASSUME NEW i \in 0..((n - 1) - 1) PROVE f2[i] = f[i]
    OBVIOUS
  <2>1. i + 1 \in 1..n /\ i + 1 \in 1..(n + 1) /\ (i + 1) - 1 = i /\ i + 1 # n /\ i + 1 # n + 1
    BY <1>2
  <2>2. f2[i] = t[i + 1].len /\ f[i] = s[i + 1].len
    BY <1>3, <1>4, <2>1
  <2> QED BY <1>1, <2>1, <2>2
<1>7. Sums(n + 1, f2)[n - 1] = Sums(n, f)[n - 1]
  <2>1. n + 1 \in Nat /\ n - 1 \in Nat /\ n - 1 <= n /\ n - 1 <= n + 1
    BY <1>2
  <2> QED BY <1>2, <1>3, <1>4, <1>6, <2>1, SumsAgree
<1>8. Sums(n, f)[n] = Sums(n, f)[n - 1] + f[n - 1] /\ Sums(n, f)[n - 1] \in Nat
  <2>1. n \in 1..n /\ n - 1 \in 0..n
    BY <1>2
  <2>2. Sums(n, f) \in [0..n -> Nat] /\ \A i \in 1..n : Sums(n, f)[i] = Sums(n, f)[i - 1] + f[i - 1]
    BY <1>2, <1>3, SumsAre
  <2> QED BY <2>1, <2>2
<1>9. /\ Sums(n + 1, f2)[n + 1] = Sums(n + 1, f2)[n] + f2[n]
      /\ Sums(n + 1, f2)[n] = Sums(n + 1, f2)[n - 1] + f2[n - 1]
  <2>1. /\ n + 1 \in Nat /\ n + 1 \in 1..(n + 1) /\ n \in 1..(n + 1) /\ (n + 1) - 1 = n
    BY <1>2
  <2>2. \A i \in 1..(n + 1) : Sums(n + 1, f2)[i] = Sums(n + 1, f2)[i - 1] + f2[i - 1]
    BY <1>4, <2>1, SumsAre
  <2> QED BY <2>1, <2>2
<1>10. x.len \in Nat /\ y.len \in Nat
  BY DEF Records
<1>11. x.len + y.len = s[n].len
  BY DEF n
<1>12. Length(t) = Length(s)
  BY <1>3, <1>4, <1>5, <1>7, <1>8, <1>9, <1>10, <1>11
<1> QED BY <1>12 DEF t

\* t is s with an entry for n, at place p.
Gets(s, t, p, n, ino) ==
  /\ p \in DOMAIN t /\ t[p].ino = ino /\ t[p].name = n /\ t[p].len >= Needed(n)
  /\ \A i \in DOMAIN t : i # p =>
       /\ i \in DOMAIN s /\ t[i].ino = s[i].ino /\ t[i].name = s[i].name
       /\ t[i].len >= Needed(t[i].name)

\* The entry takes the place of a record that is not used, or the end of the
\* last one; the records still fill the block.
LEMMA InsertedShape ==
  ASSUME NEW s \in Seq(Records), \A i \in DOMAIN s : s[i].len >= Needed(s[i].name),
         NEW n \in Names, NEW ino \in Inos, HasRoom(s, n)
  PROVE  /\ Inserted(s, n, ino) \in Seq(Records)
         /\ Length(Inserted(s, n, ino)) = Length(s)
         /\ \E p : Gets(s, Inserted(s, n, ino), p, n, ino)
<1>1. Len(s) \in Nat /\ DOMAIN s = 1..Len(s) /\ \A i \in 1..Len(s) : s[i] \in Records
  BY LengthsType
<1>2. CASE Unused(s, n) # {}
  <2> DEFINE j == Least(Unused(s, n))
             x == Rec(ino, s[j].len, n)
             t == [s EXCEPT ![j] = x]
  <2>1. j \in 1..Len(s) /\ s[j].len >= Needed(n)
    <3>1. Unused(s, n) \in SUBSET Nat
      BY <1>1 DEF Unused
    <3>2. j \in Unused(s, n)
      BY <1>2, <3>1, LeastIn
    <3> QED BY <1>1, <3>2 DEF Unused
  <2>2. Inserted(s, n, ino) = t
    BY <1>2 DEF Inserted
  <2> HIDE DEF j
  <2>3. s[j].len \in Nat
    BY <1>1, <2>1, RecordFields
  <2>4. x \in Records /\ x.ino = ino /\ x.len = s[j].len /\ x.name = n
    BY <2>3 DEF Rec, Records
  <2> HIDE DEF x
  <2>5. t \in Seq(Records) /\ Length(t) = Length(s)
    BY <2>1, <2>4, ReplacedLength
  <2>6. DOMAIN t = 1..Len(s) /\ \A i \in 1..Len(s) : t[i] = IF i = j THEN x ELSE s[i]
    BY <1>1
  <2> HIDE DEF t
  <2>7. Gets(s, t, j, n, ino)
    BY <1>1, <2>1, <2>4, <2>6 DEF Gets
  <2> QED BY <2>2, <2>5, <2>7
<1>3. CASE Unused(s, n) = {}
  <2> DEFINE m == Len(s)
             l == s[m]
             x == Rec(l.ino, Needed(l.name), l.name)
             y == Rec(ino, l.len - Needed(l.name), n)
             t == CutLast(s, x, y)
  <2>1. s # <<>> /\ l.len >= Needed(l.name) + Needed(n)
    BY <1>3 DEF HasRoom, Splits
  <2>2. Inserted(s, n, ino) = t
    BY <1>3 DEF Inserted, CutLast
  <2>3. m \in 1..m /\ m + 1 \in 1..(m + 1) /\ m # m + 1 /\ m \in Nat
    <3>1. s # <<>>
      BY <2>1
    <3>2. Len(s) \in Nat /\ Len(s) >= 1
      BY <3>1
    <3> HIDE DEF l, x, y, t
    <3> QED BY <3>2
  <2>4. l \in Records
    BY <1>1, <2>3
  <2> HIDE DEF l
  <2>5. l.ino \in Inos \union {None} /\ l.len \in Nat /\ l.name \in Names
    BY <2>4, RecordFields
  <2>6. Needed(l.name) \in Nat /\ Needed(n) \in Nat
    BY <2>5, NeededNat
  <2>7. l.len - Needed(l.name) \in Nat /\ l.len - Needed(l.name) >= Needed(n)
        /\ Needed(l.name) + (l.len - Needed(l.name)) = l.len
    BY <2>1, <2>5, <2>6
  <2>8. x \in Records /\ x.ino = l.ino /\ x.len = Needed(l.name) /\ x.name = l.name
    BY <2>5, <2>6 DEF Rec, Records
  <2>9. y \in Records /\ y.ino = ino /\ y.len = l.len - Needed(l.name) /\ y.name = n
    BY <2>7 DEF Rec, Records
  <2> HIDE DEF x, y
  <2>10. x.len + y.len = s[Len(s)].len
    BY <2>7, <2>8, <2>9 DEF l
  <2>11. Length(t) = Length(s)
    BY <2>1, <2>8, <2>9, <2>10, CutLength
  <2>12. /\ t \in Seq(Records) /\ Len(t) = m + 1
         /\ \A i \in 1..(m + 1) : t[i] = IF i = m + 1 THEN y ELSE IF i = m THEN x ELSE s[i]
    BY <2>1, <2>8, <2>9, CutFields
  <2>13. DOMAIN t = 1..(m + 1)
    BY <2>12
  <2> HIDE DEF t
  <2>14. Needed(l.name) >= Needed(l.name)
    BY <2>6
  <2>15. ASSUME NEW i \in 1..(m + 1), i # m + 1
         PROVE  /\ i \in DOMAIN s /\ t[i].ino = s[i].ino /\ t[i].name = s[i].name
                /\ t[i].len >= Needed(t[i].name)
    <3>1. i \in 1..m
      BY <1>1, <2>15
    <3>2. CASE i = m
      BY <1>1, <2>8, <2>12, <2>14, <2>15, <3>1, <3>2 DEF l
    <3>3. CASE i # m
      BY <1>1, <2>12, <2>15, <3>1, <3>3
    <3> QED BY <3>2, <3>3
  <2>16. m + 1 \in DOMAIN t /\ t[m + 1] = y
    BY <2>3, <2>12, <2>13
  <2>17. Gets(s, t, m + 1, n, ino)
    BY <2>7, <2>9, <2>13, <2>15, <2>16 DEF Gets
  <2> QED BY <2>2, <2>11, <2>12, <2>17
<1> QED BY <1>2, <1>3

\* What held of the inodes in use still holds.
Grown(used, nodes, used2, nodes2) ==
  \A i \in used : i \in used2 /\ (nodes[i].mode # "none" => nodes2[i].mode # "none")

\* A directory gets an entry for an inode that was free.
LEMMA InsertedSound ==
  ASSUME NEW s \in Seq(Records), NEW n \in Names, NEW ino \in Inos, HasRoom(s, n),
         NEW used, NEW nodes, NEW used2, NEW nodes2, BlockSound(s, used, nodes),
         Grown(used, nodes, used2, nodes2),
         ino \notin used, ino \in used2, nodes2[ino].mode # "none"
  PROVE  /\ Inserted(s, n, ino) \in Seq(Records)
         /\ BlockSound(Inserted(s, n, ino), used2, nodes2)
         /\ NamesOnce(s) /\ (\A i \in InUse(s) : s[i].name # n) => NamesOnce(Inserted(s, n, ino))
<1> DEFINE t == Inserted(s, n, ino)
<1>1. t \in Seq(Records) /\ Length(t) = BlockBytes /\ \E p : Gets(s, t, p, n, ino)
  BY InsertedShape DEF BlockSound
<1> HIDE DEF t
<1>2. PICK p : Gets(s, t, p, n, ino)
  BY <1>1
<1>3. \A i \in InUse(t) : i # p => i \in InUse(s) /\ t[i].ino = s[i].ino /\ t[i].name = s[i].name
  BY <1>2 DEF Gets, InUse
<1>4. t[p].ino = ino /\ t[p].name = n
  BY <1>2 DEF Gets
<1>5. \A i \in InUse(s) : s[i].ino \in used /\ s[i].ino # ino /\ nodes[s[i].ino].mode # "none"
  BY DEF BlockSound
<1>6. \A i \in DOMAIN t : t[i].len >= Needed(t[i].name)
  BY <1>2 DEF Gets
<1>7. \A i \in InUse(t) : t[i].ino \in used2 /\ nodes2[t[i].ino].mode # "none"
  BY <1>3, <1>4, <1>5 DEF Grown
<1>8. \A i, j \in InUse(t) : t[i].ino = t[j].ino /\ i # j => t[i].ino = EXT2_ROOT_INO
  BY <1>3, <1>4, <1>5 DEF BlockSound
<1>9. BlockSound(t, used2, nodes2)
  BY <1>1, <1>6, <1>7, <1>8 DEF BlockSound
<1>10. ASSUME NamesOnce(s), \A i \in InUse(s) : s[i].name # n PROVE NamesOnce(t)
  BY <1>3, <1>4, <1>10 DEF NamesOnce
<1> QED BY <1>1, <1>9, <1>10 DEF t


-----------------------------------------------------------------------------
(* A lookup in a directory.                                                *)

\* There is a first among pairs of numbers.
LEMMA FirstPair ==
  ASSUME NEW S \in SUBSET (Nat \X Nat), S # {}
  PROVE  \E p \in S : \A q \in S : Before(p, q)
<1> DEFINE A == {q[1] : q \in S}
           a == Least(A)
           B == {q[2] : q \in {r \in S : r[1] = a}}
           b == Least(B)
<1>1. a \in A /\ \A q \in S : a <= q[1]
  <2>1. A \in SUBSET Nat /\ A # {}
    OBVIOUS
  <2>2. Least(A) \in A /\ \A y \in A : Least(A) <= y
    <3> HIDE DEF A
    <3> QED BY <2>1, LeastIn
  <2>3. \A q \in S : q[1] \in A
    OBVIOUS
  <2> HIDE DEF A
  <2> QED BY <2>2, <2>3
<1>2. PICK r \in S : r[1] = a
  BY <1>1
<1> HIDE DEF a, A
<1>3. b \in B /\ \A q \in S : q[1] = a => b <= q[2]
  <2>1. B \in SUBSET Nat /\ B # {}
    BY <1>2
  <2>2. Least(B) \in B /\ \A y \in B : Least(B) <= y
    <3> HIDE DEF B
    <3> QED BY <2>1, LeastIn
  <2>3. \A q \in S : q[1] = a => q[2] \in B
    OBVIOUS
  <2> HIDE DEF B
  <2> QED BY <2>2, <2>3
<1>4. PICK p \in S : p[1] = a /\ p[2] = b
  BY <1>3
<1> HIDE DEF b, B
<1>5. \A q \in S : q[1] \in Nat /\ q[2] \in Nat
  OBVIOUS
<1>6. \A q \in S : Before(p, q)
  <2> SUFFICES ASSUME NEW q \in S PROVE Before(p, q)
    OBVIOUS
  <2>1. a <= q[1] /\ (q[1] = a => b <= q[2]) /\ q[1] \in Nat /\ a \in Nat
    BY <1>1, <1>3, <1>4, <1>5
  <2> QED BY <1>4, <2>1 DEF Before
<1> QED BY <1>6

\* A directory whose blocks can be read.
Scannable(rs, nd) ==
  /\ rs \in [Blocks -> Seq(Records)]
  /\ nd.block \in Tables /\ nd.size \in Nat /\ nd.mode = "dir"

LEMMA DirectBlocks ==
  ASSUME NEW nd, nd.block \in Tables
  PROVE  /\ DOMAIN Direct(nd) = 0..(NDirect - 1)
         /\ \A k \in 0..(NDirect - 1) : Direct(nd)[k] = nd.block[k]
         /\ \A k \in Scanned(Direct(nd)) : /\ k \in 0..(NDirect - 1) /\ Direct(nd)[k] \in Blocks
                                           /\ \A j \in 0..k : j \in Scanned(Direct(nd))
<1>1. 0..(NDirect - 1) \subseteq Pointers
  BY ZeroPointer
<1> DEFINE bl == Direct(nd)
<1>2. DOMAIN bl = 0..(NDirect - 1) /\ \A k \in 0..(NDirect - 1) : bl[k] = nd.block[k]
  BY DEF Direct
<1> HIDE DEF bl
<1>3. ASSUME NEW k \in Scanned(bl)
      PROVE  k \in 0..(NDirect - 1) /\ bl[k] \in Blocks /\ \A j \in 0..k : j \in Scanned(bl)
  <2>1. k \in 0..(NDirect - 1) /\ \A m \in 0..k : bl[m] # None
    BY <1>2 DEF Scanned
  <2>2. k \in 0..k /\ NDirect \in Nat
    BY <2>1, Sizes
  <2>3. bl[k] \in Blocks
    BY <1>1, <1>2, <2>1, <2>2 DEF Tables
  <2>4. ASSUME NEW j \in 0..k PROVE j \in Scanned(bl)
    <3>1. j \in 0..(NDirect - 1) /\ \A m \in 0..j : m \in 0..k
      BY <2>1, <2>2
    <3> QED BY <1>2, <2>1, <3>1 DEF Scanned
  <2> QED BY <2>1, <2>3, <2>4
<1> QED BY <1>2, <1>3 DEF bl

\* A scan comes to the blocks in front of the first hole.
LEMMA ScannedInterval ==
  ASSUME NEW nd, nd.block \in Tables
  PROVE  /\ Cardinality(Scanned(Direct(nd))) \in Nat
         /\ Scanned(Direct(nd)) = 0..(Cardinality(Scanned(Direct(nd))) - 1)
<1> DEFINE S == Scanned(Direct(nd))
           D == Nat \ S
           m == Least(D)
<1>1. \A k \in S : k \in 0..(NDirect - 1) /\ \A j \in 0..k : j \in S
  BY DirectBlocks
<1> HIDE DEF S
<1>2. m \in Nat /\ m \notin S /\ \A y \in Nat : y \notin S => m <= y
  <2>1. NDirect \in Nat /\ NDirect \notin S
    BY <1>1, Sizes
  <2>2. D \in SUBSET Nat /\ D # {}
    BY <2>1
  <2>3. Least(D) \in D /\ \A y \in D : Least(D) <= y
    <3> HIDE DEF D
    <3> QED BY <2>2, LeastIn
  <2> QED BY <2>3
<1> HIDE DEF m, D
<1>3. S = 0..(m - 1)
  <2>1. ASSUME NEW k \in S PROVE k \in 0..(m - 1)
    <3>1. k \in Nat /\ ~(m \in 0..k)
      BY <1>1, <1>2, <2>1, Sizes
    <3> QED BY <1>2, <3>1
  <2>2. ASSUME NEW k \in 0..(m - 1) PROVE k \in S
    BY <1>2, <2>2
  <2> QED BY <2>1, <2>2
<1>4. Cardinality(0..(m - 1)) = m
  <2>1. m - 1 \in Int /\ 0 \in Int
    BY <1>2
  <2>2. Cardinality(0..(m - 1)) = IF 0 > m - 1 THEN 0 ELSE (m - 1) - 0 + 1
    BY <2>1, FS_Interval
  <2> QED BY <1>2, <2>2
<1> QED BY <1>2, <1>3, <1>4 DEF S

\* A scan meets every record of the first block, if the size covers it.
LEMMA FirstMet ==
  ASSUME NEW nd, Scannable(recs, nd), nd.block[0] # None, BlockBytes <= nd.size,
         Length(recs[nd.block[0]]) = BlockBytes,
         \A i \in DOMAIN recs[nd.block[0]] :
           recs[nd.block[0]][i].len >= Needed(recs[nd.block[0]][i].name),
         NEW i \in DOMAIN recs[nd.block[0]]
  PROVE  <<0, i>> \in Met(nd, Direct(nd))
<1> DEFINE bl == Direct(nd)
           s == recs[nd.block[0]]
           n == Cardinality(Scanned(bl))
           f == [k \in 0..(n - 1) |-> Length(recs[bl[k]])]
<1>1. nd.block \in Tables /\ nd.size \in Nat
  BY DEF Scannable
<1>2. bl[0] = nd.block[0] /\ DOMAIN bl = 0..(NDirect - 1)
  BY <1>1, DirectBlocks, ZeroPointer
<1>3. 0 \in Scanned(bl)
  <2>1. 0 \in 0..(NDirect - 1) /\ \A m \in 0..0 : m = 0
    BY ZeroPointer
  <2> QED BY <1>2, <2>1 DEF Scanned
<1>4. n \in Nat /\ Scanned(bl) = 0..(n - 1) /\ \A k \in Scanned(bl) : bl[k] \in Blocks
  BY <1>1, ScannedInterval, DirectBlocks
<1>5. s \in Seq(Records)
  BY <1>2, <1>3, <1>4 DEF Scannable
<1>6. ReadOffset(bl) = Sums(n, f)
  BY DEF ReadOffset
<1> HIDE DEF bl, n
<1>7. f \in [0..(n - 1) -> Nat]
  <2>1. ASSUME NEW k \in 0..(n - 1) PROVE Length(recs[bl[k]]) \in Nat
    <3> DEFINE t == recs[bl[k]]
    <3>1. t \in Seq(Records)
      BY <1>4 DEF Scannable
    <3> HIDE DEF t
    <3>2. /\ Len(t) \in Nat /\ Lengths(t) \in [0..(Len(t) - 1) -> Nat]
          /\ Length(t) = Sums(Len(t), Lengths(t))[Len(t)]
      BY <3>1, LengthsType
    <3>3. Sums(Len(t), Lengths(t)) \in [0..Len(t) -> Nat]
      BY <3>2, SumsAre
    <3>4. Length(t) \in Nat
      BY <3>2, <3>3
    <3> QED BY <3>4 DEF t
  <2> QED BY <2>1
<1> HIDE DEF f
<1>8. ReadOffset(bl)[0] = 0
  BY <1>4, <1>6, <1>7, SumsAre
<1> HIDE DEF s
<1>9. Begin(s)[i - 1] < BlockBytes /\ Begin(s)[i - 1] \in Nat
  <2>1. /\ Len(s) \in Nat /\ DOMAIN s = 1..Len(s) /\ Lengths(s) \in [0..(Len(s) - 1) -> Nat]
        /\ \A j \in 1..Len(s) : s[j] \in Records /\ Lengths(s)[j - 1] = s[j].len
        /\ Begin(s) = Sums(Len(s), Lengths(s)) /\ Length(s) = Sums(Len(s), Lengths(s))[Len(s)]
    BY <1>5, LengthsType
  <2>2. ASSUME NEW k \in 0..(Len(s) - 1) PROVE Lengths(s)[k] > 0
    <3>1. k + 1 \in 1..Len(s) /\ (k + 1) - 1 = k
      BY <2>1
    <3>2. s[k + 1].len >= Needed(s[k + 1].name) /\ s[k + 1].len \in Nat /\ s[k + 1].name \in Names
      BY <2>1, <3>1, RecordFields DEF s
    <3>3. Needed(s[k + 1].name) \in Nat /\ Needed(s[k + 1].name) > 0
      BY <3>2, NeededNat
    <3>4. Lengths(s)[k] = s[k + 1].len
      BY <2>1, <3>1
    <3> QED BY <3>2, <3>3, <3>4
  <2>3. i \in 1..Len(s)
    BY <2>1 DEF s
  <2>4. i - 1 \in 0..(Len(s) - 1) /\ i - 1 \in 0..Len(s)
    BY <2>1, <2>3
  <2>5. Begin(s)[i - 1] < Length(s)
    BY <2>1, <2>2, <2>4, SumsGrow
  <2>6. Begin(s) \in [0..Len(s) -> Nat]
    BY <2>1, SumsAre
  <2> QED BY <2>4, <2>5, <2>6 DEF s
<1>10. ReadOffset(bl)[0] + Begin(s)[i - 1] < nd.size
  <2>1. BlockBytes \in Nat
    BY Ext2Assumption
  <2> QED BY <1>1, <1>8, <1>9, <2>1
<1>11. <<0, i>> \in Met(nd, bl)
  <2>1. s = recs[bl[0]] /\ i \in DOMAIN s
    BY <1>2 DEF s
  <2> QED BY <1>3, <1>10, <2>1 DEF Met
<1> QED BY <1>11 DEF bl


\* What a scan of a directory comes to.
LEMMA MetTypes ==
  ASSUME NEW nd, Scannable(recs, nd), NEW p \in Met(nd, Direct(nd))
  PROVE  /\ p \in Nat \X Nat /\ RecAt(Direct(nd), p).name \in Names
         /\ RecAt(Direct(nd), p).ino \in Inos \union {None}
<1> DEFINE bl == Direct(nd)
<1>1. \A k \in Scanned(bl) : k \in 0..(NDirect - 1) /\ bl[k] \in Blocks
  BY DirectBlocks DEF Scannable
<1> HIDE DEF bl
<1>2. PICK k \in Scanned(bl) : \E i \in DOMAIN recs[bl[k]] : p = <<k, i>>
  BY DEF Met, bl
<1>7. PICK i \in DOMAIN recs[bl[k]] : p = <<k, i>>
  BY <1>2
<1> DEFINE s == recs[bl[k]]
<1>3. s \in Seq(Records)
  BY <1>1 DEF Scannable
<1> HIDE DEF s
<1>4. i \in 1..Len(s) /\ s[i] \in Records /\ Len(s) \in Nat
  BY <1>3, LengthsType DEF s
<1>5. s[i].name \in Names /\ s[i].ino \in Inos \union {None}
  BY <1>4, RecordFields
<1>6. k \in Nat /\ i \in Nat
  BY <1>1, <1>4, Sizes
<1> QED BY <1>5, <1>6, <1>7 DEF RecAt, s, bl

\* A lookup finds a name if and only if a scan meets an entry with it.
LEMMA FoundIn ==
  ASSUME NEW nd, Scannable(recs, nd), NEW n
  PROVE  /\ ext2_find_file_in_dir(nd, n) # None
              <=> \E p \in Live(nd, Direct(nd)) : RecAt(Direct(nd), p).name = n
         /\ ext2_find_file_in_dir(nd, n) \in Inos \union {None}
<1> DEFINE bl == Direct(nd)
           S == {p \in Live(nd, bl) : RecAt(bl, p).name = n}
<1>1. nd.mode = "dir"
  BY DEF Scannable
<1>2. S \in SUBSET (Nat \X Nat)
  BY MetTypes DEF Live
<1>3. CASE S = {}
  BY <1>1, <1>3 DEF ext2_find_file_in_dir
<1>4. CASE S # {}
  <2> DEFINE x == CHOOSE p \in S : \A q \in S : Before(p, q)
  <2>1. \E p \in S : \A q \in S : Before(p, q)
    <3> HIDE DEF S
    <3> QED BY <1>2, <1>4, FirstPair
  <2>2. x \in S
    <3> HIDE DEF S
    <3> QED BY <2>1
  <2>3. ext2_find_file_in_dir(nd, n) = RecAt(bl, x).ino
    BY <1>1, <1>4 DEF ext2_find_file_in_dir
  <2> HIDE DEF x
  <2>4. RecAt(bl, x).ino # None /\ RecAt(bl, x).ino \in Inos \union {None}
    BY <2>2, MetTypes DEF Live
  <2> QED BY <2>2, <2>3, <2>4
<1> QED BY <1>3, <1>4

\* What is listed is what can be looked up.
LEMMA ListedFound ==
  ASSUME NEW nd, Scannable(recs, nd)
  PROVE  ext2_list_root(nd) = {n \in Names : ext2_find_file_in_dir(nd, n) # None}
<1> DEFINE bl == Direct(nd)
<1>1. \A p \in Live(nd, bl) : RecAt(bl, p).name \in Names
  BY MetTypes DEF Live
<1>2. ext2_list_root(nd) = {RecAt(bl, p).name : p \in Live(nd, bl)}
  BY DEF ext2_list_root
<1>3. \A n : ext2_find_file_in_dir(nd, n) # None <=> \E p \in Live(nd, bl) : RecAt(bl, p).name = n
  BY FoundIn
<1> HIDE DEF bl
<1> QED BY <1>1, <1>2, <1>3


-----------------------------------------------------------------------------
(* The root directory.                                                     *)

\* Free blocks hold no records.
FreeBlank(m, rs) == \A b \in Blocks \ Numbers(m.bits, "blocks") : rs[b] = <<>>

\* The first block of the directory nd.
FirstSound(m, nodes, nd, rs, un) ==
  /\ BlockBytes <= nd.size
  /\ BlockSound(rs[nd.block[0]], Numbers(m.bits, "inodes"), nodes)
  /\ un \/ NamesOnce(rs[nd.block[0]])

DirOK(m, nodes, rs, un) ==
  /\ Scannable(rs, nodes[EXT2_ROOT_INO])
  /\ EXT2_ROOT_INO \in Numbers(m.bits, "inodes")
  /\ nodes[EXT2_ROOT_INO].block[0] = None => FreeBlank(m, rs)
  /\ nodes[EXT2_ROOT_INO].block[0] # None =>
       FirstSound(m, nodes, nodes[EXT2_ROOT_INO], rs, un)

\* No client has a copy of the root inode, and what they write back is in use.
CopiesReg(copies) ==
  \A c \in Clients : copies[c].ino # None =>
    copies[c].ino # EXT2_ROOT_INO /\ copies[c].inode.mode = "reg"

DirInv == DirOK(meta, inode, recs, unsure) /\ CopiesReg(copy)

\* mount: what RootAssumption says of a volume.
LEMMA InitDir == Init => DirInv
<1> SUFFICES ASSUME Init PROVE DirInv
  OBVIOUS
<1>1. PICK im \in Images :
        /\ meta = [bits |-> im.bits, free |-> im.free, super |-> im.super, sdisk |-> im.super]
        /\ inode = im.inode /\ recs = im.recs
  BY DEF Init
<1>2. Consistent(im) /\ RootSound(im)
  BY ImageAssumption, RootAssumption
<1>3. meta.bits = im.bits /\ copy = [c \in Clients |-> NoCopy] /\ unsure = FALSE
  BY <1>1 DEF Init
<1>4. CopiesReg(copy)
  BY <1>3 DEF CopiesReg, NoCopy
<1> DEFINE nd == im.inode[EXT2_ROOT_INO]
<1>5. nd.block \in Tables
  BY <1>2, Sizes DEF Consistent
<1>6. /\ recs \in [Blocks -> Seq(Records)] /\ nd.mode = "dir" /\ nd.size \in Nat
      /\ EXT2_ROOT_INO \in Numbers(meta.bits, "inodes")
      /\ nd.block[0] = None => FreeBlank(meta, recs)
      /\ nd.block[0] # None => /\ BlockSound(recs[nd.block[0]], Numbers(meta.bits, "inodes"), inode)
                               /\ nd.size >= BlockBytes /\ NamesOnce(recs[nd.block[0]])
  BY <1>1, <1>2, <1>3 DEF RootSound, FreeBlank
<1>7. nd.size >= BlockBytes => BlockBytes <= nd.size
  BY <1>6, Ext2Assumption
<1>8. nd = inode[EXT2_ROOT_INO]
  BY <1>1
<1> HIDE DEF nd
<1>9. DirOK(meta, inode, recs, unsure)
  BY <1>5, <1>6, <1>7, <1>8 DEF DirOK, Scannable, FirstSound
<1> QED BY <1>4, <1>9 DEF DirInv

\* Allocations, and inodes that are written beside that of the root, leave the
\* directory as it is.
LEMMA DirKeeps ==
  ASSUME NEW m, NEW nodes, NEW rs, NEW un, DirOK(m, nodes, rs, un),
         NEW m2, Extends(m, m2, "blocks", None),
         NEW nodes2, nodes2[EXT2_ROOT_INO] = nodes[EXT2_ROOT_INO],
         Grown(Numbers(m.bits, "inodes"), nodes, Numbers(m2.bits, "inodes"), nodes2)
  PROVE  DirOK(m2, nodes2, rs, un)
<1> DEFINE nd == nodes[EXT2_ROOT_INO]
           used == Numbers(m.bits, "inodes")
           used2 == Numbers(m2.bits, "inodes")
<1>1. used \subseteq used2 /\ Numbers(m.bits, "blocks") \subseteq Numbers(m2.bits, "blocks")
  BY DEF Extends, Kinds
<1>2. FreeBlank(m, rs) => FreeBlank(m2, rs)
  BY <1>1 DEF FreeBlank
<1>3. ASSUME NEW s, BlockSound(s, used, nodes) PROVE BlockSound(s, used2, nodes2)
  <2> HIDE DEF used, used2
  <2>1. Grown(used, nodes, used2, nodes2)
    BY DEF used, used2
  <2>2. \A i \in InUse(s) : s[i].ino \in used2 /\ nodes2[s[i].ino].mode # "none"
    BY <1>3, <2>1 DEF BlockSound, Grown
  <2> QED BY <1>3, <2>2 DEF BlockSound
<1>4. FirstSound(m, nodes, nd, rs, un) => FirstSound(m2, nodes2, nd, rs, un)
  BY <1>3 DEF FirstSound
<1> QED BY <1>1, <1>2, <1>4 DEF DirOK

\* Nothing is written to the inodes.
LEMMA DirAlloc ==
  ASSUME DirInv, NEW m2, meta' = m2, Extends(meta, m2, "blocks", None),
         UNCHANGED <<inode, recs, unsure>>
  PROVE  DirOK(meta', inode', recs', unsure')
<1>1. Numbers(meta.bits, "inodes") \subseteq Numbers(m2.bits, "inodes")
  BY DEF Extends, Kinds
<1>2. Grown(Numbers(meta.bits, "inodes"), inode, Numbers(m2.bits, "inodes"), inode)
  BY <1>1 DEF Grown
<1>3. DirOK(meta, inode, recs, unsure)
  BY DEF DirInv
<1>4. DirOK(m2, inode, recs, unsure)
  BY <1>2, <1>3, DirKeeps
<1> QED BY <1>4

\* The copy of a client changes, but not its mode.
LEMMA DirHolding ==
  ASSUME Inv, DirInv, NEW c \in Clients, Owner(c) # None, NEW nd, nd.mode = copy[c].inode.mode,
         Holding(c, nd), Extends(meta, meta', "blocks", None), UNCHANGED <<inode, recs, unsure>>
  PROVE  DirInv'
<1>1. DOMAIN copy = Clients
  BY DEF Inv, FilesOK, NodesOK
<1>2. copy' = [copy EXCEPT ![c] = [ino |-> copy[c].ino, inode |-> nd]]
  BY DEF Holding, Owner
<1>3. ASSUME NEW d \in Clients
      PROVE  copy'[d].ino = copy[d].ino /\ (copy[d].ino # None => copy'[d].inode.mode = copy[d].inode.mode)
  BY <1>1, <1>2
<1>4. CopiesReg(copy')
  BY <1>3 DEF DirInv, CopiesReg
<1>5. DirOK(meta', inode', recs', unsure')
  BY DirAlloc
<1> QED BY <1>4, <1>5 DEF DirInv

LEMMA BlockForExtends ==
  ASSUME Inv, NEW nd, NEW k, NEW o \in BlockFor(nd, k)
  PROVE  Extends(meta, o.meta, "blocks", None)
<1>1. CASE nd.block[k] # None
  BY <1>1, NoBit DEF BlockFor, Outcome
<1>2. CASE nd.block[k] = None
  <2>1. o \in Allocations(meta, "blocks") /\ "blocks" \in Kinds
    BY <1>2 DEF BlockFor, Kinds
  <2>2. Extends(meta, o.meta, "blocks", o.got)
    BY <2>1, AllocationOK DEF Inv, FilesOK
  <2> QED BY <2>1, <2>2, Extending
<1> QED BY <1>1, <1>2

-----------------------------------------------------------------------------

LEMMA ReadInodeDir == ASSUME Inv, DirInv, NEW c \in Clients, NEW i \in Inos, ext2_read_inode(c, i)
                      PROVE  DirInv'
<1>1. /\ inode[i].mode = "reg" /\ copy' = [copy EXCEPT ![c] = [ino |-> i, inode |-> inode[i]]]
      /\ UNCHANGED <<meta, inode, recs, unsure>>
  BY DEF ext2_read_inode
<1>2. i # EXT2_ROOT_INO
  BY <1>1 DEF DirInv, DirOK, Scannable
<1>3. DOMAIN copy = Clients
  BY DEF Inv, FilesOK, NodesOK
<1>4. CopiesReg(copy')
  BY <1>1, <1>2, <1>3 DEF DirInv, CopiesReg
<1> QED BY <1>1, <1>4 DEF DirInv

LEMMA WriteInodeDir == ASSUME Inv, DirInv, NEW c \in Clients, ext2_write_inode(c) PROVE DirInv'
<1> DEFINE i == copy[c].ino
           used == Numbers(meta.bits, "inodes")
<1>1. /\ i # None /\ inode' = [inode EXCEPT ![i] = copy[c].inode]
      /\ UNCHANGED <<meta, recs, copy, unsure>>
  BY DEF ext2_write_inode, Owner
<1>2. i # EXT2_ROOT_INO /\ copy[c].inode.mode = "reg" /\ DOMAIN inode = Inos /\ i \in Inos
  BY <1>1 DEF DirInv, CopiesReg, Inv, FilesOK, NodesOK
<1>3. inode'[EXT2_ROOT_INO] = inode[EXT2_ROOT_INO]
  BY <1>1, <1>2, Sizes
<1>4. \A j \in Inos : inode[j].mode # "none" => inode'[j].mode # "none"
  BY <1>1, <1>2
<1>7. used \subseteq Inos
  BY UsedInodes DEF Inv, FilesOK
<1> HIDE DEF i, used
<1>5. Grown(used, inode, used, inode')
  BY <1>4, <1>7 DEF Grown
<1>6. DirOK(meta, inode', recs, unsure)
  BY <1>3, <1>5, NoBit, DirKeeps DEF DirInv, used
<1> QED BY <1>1, <1>6 DEF DirInv

LEMMA ForgetDir == ASSUME Inv, DirInv, NEW c \in Clients, Forget(c) PROVE DirInv'
<1>1. copy' = [copy EXCEPT ![c] = NoCopy] /\ UNCHANGED <<meta, inode, recs, unsure>>
  BY DEF Forget
<1>2. DOMAIN copy = Clients
  BY DEF Inv, FilesOK, NodesOK
<1>3. CopiesReg(copy')
  BY <1>1, <1>2 DEF DirInv, CopiesReg, NoCopy
<1> QED BY <1>1, <1>3 DEF DirInv

LEMMA PointingMode == ASSUME NEW nd, NEW k, NEW b, NEW n PROVE Pointing(nd, k, b, n).mode = nd.mode
  BY DEF Pointing, Inode

LEMMA EndedMode == ASSUME NEW nd PROVE Ended(nd).mode = nd.mode
  BY DEF Ended, Inode

LEMMA GetOrAllocDir ==
  ASSUME Inv, DirInv, NEW c \in Clients, NEW k \in 0..(NDirect - 1), ext2_get_or_alloc_block(c, k)
  PROVE  DirInv'
<1>1. PICK o \in BlockFor(copy[c].inode, k) :
        /\ Owner(c) # None /\ meta' = o.meta
        /\ Holding(c, IF o.got = None THEN copy[c].inode
                      ELSE Pointing(copy[c].inode, k, o.got, 0))
        /\ UNCHANGED <<inode, recs, unsure>>
  BY DEF ext2_get_or_alloc_block
<1> DEFINE nd == IF o.got = None THEN copy[c].inode ELSE Pointing(copy[c].inode, k, o.got, 0)
<1>2. nd.mode = copy[c].inode.mode /\ Holding(c, nd)
  BY <1>1, PointingMode
<1> HIDE DEF nd
<1>3. Extends(meta, meta', "blocks", None)
  BY <1>1, BlockForExtends
<1> QED BY <1>1, <1>2, <1>3, DirHolding

LEMMA WriteBlockDir == ASSUME Inv, DirInv, WriteBlock PROVE DirInv'
<1> DEFINE c == Writer
           nd == copy[Writer].inode
           k == WriteIndex
<1>1. c \in Clients /\ Owner(c) # None
  <2>1. Owner(Writer) \in Inos /\ Writer \in Clients
    BY WritePlace DEF Inv, WriteBlock
  <2> QED BY <2>1 DEF Inos, None
<1>2. PICK o \in Succeeded(BlockFor(nd, k)), lost \in BOOLEAN :
        /\ meta' = o.meta
        /\ Holding(c, IF nd.block[k] = None THEN Pointing(nd, k, o.got, 1) ELSE nd)
        /\ UNCHANGED <<inode, recs, unsure>>
  BY DEF WriteBlock
<1> DEFINE nd2 == IF nd.block[k] = None THEN Pointing(nd, k, o.got, 1) ELSE nd
<1>3. nd2.mode = nd.mode /\ Holding(c, nd2)
  BY <1>2, PointingMode
<1>4. o \in BlockFor(nd, k)
  BY DEF Succeeded
<1>5. Extends(meta, meta', "blocks", None)
  BY <1>2, <1>4, BlockForExtends
<1> HIDE DEF nd2, c, k
<1> QED BY <1>1, <1>2, <1>3, <1>5, DirHolding DEF c

LEMMA WriteEndDir == ASSUME Inv, DirInv, WriteEnd PROVE DirInv'
<1>1. Writer \in Clients /\ Owner(Writer) # None
  BY DEF WriteEnd, Inv, CallOK, Inos, None
<1>2. Holding(Writer, Ended(copy[Writer].inode)) /\ UNCHANGED <<meta, inode, recs, unsure>>
  BY DEF WriteEnd
<1>3. Extends(meta, meta', "blocks", None)
  BY <1>2, NoBit
<1> QED BY <1>1, <1>2, <1>3, EndedMode, DirHolding

LEMMA WriteNoBlockDir == ASSUME Inv, DirInv, WriteNoBlock PROVE DirInv'
<1>1. Writer \in Clients /\ Owner(Writer) # None
  BY DEF WriteNoBlock, MoreToWrite, Inv, CallOK, Inos, None
<1>2. PICK o \in Refused(BlockFor(copy[Writer].inode, WriteIndex)) :
        /\ meta' = o.meta /\ Holding(Writer, Ended(copy[Writer].inode))
        /\ UNCHANGED <<inode, recs, unsure>>
  BY DEF WriteNoBlock
<1>3. o \in BlockFor(copy[Writer].inode, WriteIndex)
  BY DEF Refused
<1>4. Extends(meta, meta', "blocks", None)
  BY <1>2, <1>3, BlockForExtends
<1> QED BY <1>1, <1>2, <1>4, EndedMode, DirHolding

LEMMA WriteFailsDir == ASSUME Inv, DirInv, WriteFails PROVE DirInv'
<1> DEFINE c == Writer
           nd == copy[Writer].inode
           k == WriteIndex
<1>1. c \in Clients /\ Owner(c) # None
  BY DEF WriteFails, MoreToWrite, Inv, CallOK, Inos, None
<1>2. PICK o \in Succeeded(BlockFor(nd, k)) :
        /\ meta' = o.meta
        /\ Holding(c, Ended(IF nd.block[k] # None THEN nd ELSE Pointing(nd, k, o.got, 1)))
        /\ UNCHANGED <<inode, recs, unsure>>
  BY DEF WriteFails
<1> DEFINE nd1 == IF nd.block[k] # None THEN nd ELSE Pointing(nd, k, o.got, 1)
<1>3. nd1.mode = nd.mode /\ Holding(c, Ended(nd1))
  BY <1>2, PointingMode
<1> HIDE DEF nd1
<1>4. Ended(nd1).mode = nd.mode
  BY <1>3, EndedMode
<1>5. o \in BlockFor(nd, k)
  BY DEF Succeeded
<1>6. Extends(meta, meta', "blocks", None)
  BY <1>2, <1>5, BlockForExtends
<1> HIDE DEF c, k
<1> QED BY <1>1, <1>2, <1>3, <1>4, <1>6, DirHolding DEF c


-----------------------------------------------------------------------------

LEMMA CreateNoInodeDir == ASSUME Inv, DirInv, NEW n, CreateNoInode(n) PROVE DirInv'
<1>1. PICK o \in Refused(Allocations(meta, "inodes")) :
        meta' = o.meta /\ UNCHANGED <<inode, recs, copy, unsure>>
  BY DEF CreateNoInode
<1>2. o \in Allocations(meta, "inodes") /\ "inodes" \in Kinds
  BY DEF Refused, Kinds
<1>3. Extends(meta, o.meta, "inodes", o.got)
  BY <1>2, AllocationOK DEF Inv, FilesOK
<1>4. Extends(meta, o.meta, "blocks", None)
  BY <1>2, <1>3, Extending
<1>5. DirOK(meta', inode', recs', unsure')
  BY <1>1, <1>4, DirAlloc
<1> QED BY <1>1, <1>5 DEF DirInv

LEMMA CreateInodeFailsDir == ASSUME Inv, DirInv, NEW n, CreateInodeFails(n) PROVE DirInv'
<1>1. PICK o \in Succeeded(Allocations(meta, "inodes")) :
        meta' = o.meta /\ UNCHANGED <<inode, recs, copy, unsure>>
  BY DEF CreateInodeFails
<1>2. o \in Allocations(meta, "inodes") /\ "inodes" \in Kinds
  BY DEF Succeeded, Kinds
<1>3. Extends(meta, o.meta, "inodes", o.got)
  BY <1>2, AllocationOK DEF Inv, FilesOK
<1>4. Extends(meta, o.meta, "blocks", None)
  BY <1>2, <1>3, Extending
<1>5. DirOK(meta', inode', recs', unsure')
  BY <1>1, <1>4, DirAlloc
<1> QED BY <1>1, <1>5 DEF DirInv

\* The allocations of ext2_create_file: an inode that was free, and a block
\* for the root directory that was free or is its own.
LEMMA CreateAllocs ==
  ASSUME Inv, DirInv, NEW o \in Succeeded(Allocations(meta, "inodes")), NEW r \in RootBlocks(o.meta)
  PROVE  /\ Extends(meta, r.meta, "blocks", NewOf(root.block[0], r))
         /\ Extends(meta, r.meta, "blocks", None)
         /\ o.got \in Inos /\ o.got # EXT2_ROOT_INO
         /\ o.got \notin Numbers(meta.bits, "inodes") /\ o.got \in Numbers(r.meta.bits, "inodes")
         /\ root.block[0] # None => r.got = root.block[0]
         /\ Numbers(meta.bits, "inodes") \subseteq Numbers(r.meta.bits, "inodes")
         /\ Numbers(meta.bits, "inodes") \subseteq Inos
<1> DEFINE b == root.block[0]
           x == NewOf(b, r)
           e == faults = 0 /\ o.bad = 0
<1>1. MetaOK(meta) /\ CountsOK(meta, faults = 0) /\ (faults = 0) \in BOOLEAN
  BY DEF Inv, FilesOK
<1>2. /\ o \in Allocations(meta, "inodes") /\ "inodes" \in Kinds /\ "blocks" \in Kinds
      /\ o.got # None
  BY DEF Succeeded, Kinds
<1>3. MetaOK(o.meta) /\ Extends(meta, o.meta, "inodes", o.got)
  BY <1>1, <1>2, AllocationOK
<1>4. CountsOK(o.meta, e) /\ e \in BOOLEAN
  BY <1>1, <1>2, AllocationCounts
<1>5. b \in Blocks \union {None}
  BY Sizes, ZeroPointer DEF Inv, FilesOK, root, NodesOK, GoodNode, Tables
<1>6. r \in BlockOr(o.meta, b)
  BY DEF RootBlocks, BlockOr
<1> HIDE DEF b, e
<1>7. Extends(o.meta, r.meta, "blocks", x) /\ (b # None => r.got = b)
  BY <1>3, <1>4, <1>5, <1>6, BlockOrOK
<1>8. Extends(meta, o.meta, "blocks", None)
  BY <1>2, <1>3, Extending
<1> HIDE DEF x
<1>9. Extends(meta, r.meta, "blocks", x)
  BY <1>7, <1>8, ExtendsTwice
<1>10. Extends(meta, r.meta, "blocks", None)
  BY <1>2, <1>9, Extending
<1>11. /\ o.got \in Inos /\ o.got \notin Numbers(meta.bits, "inodes")
       /\ o.got \in Numbers(o.meta.bits, "inodes")
  BY <1>2, <1>3 DEF Extends
<1>12. Numbers(o.meta.bits, "inodes") \subseteq Numbers(r.meta.bits, "inodes")
  BY <1>2, <1>7 DEF Extends
<1>13. Numbers(meta.bits, "inodes") \subseteq Numbers(r.meta.bits, "inodes")
  BY <1>2, <1>10 DEF Extends
<1>14. o.got # EXT2_ROOT_INO
  BY <1>11 DEF DirInv, DirOK
<1>15. Numbers(meta.bits, "inodes") \subseteq Inos
  BY <1>1, UsedInodes
<1> QED BY <1>7, <1>9, <1>10, <1>11, <1>12, <1>13, <1>14, <1>15 DEF b, x

\* The new inode is written, the root inode is as it was.
LEMMA CreatedNodes ==
  ASSUME Inv, NEW ino \in Inos, ino # EXT2_ROOT_INO, Created(ino, root)
  PROVE  /\ inode'[EXT2_ROOT_INO] = inode[EXT2_ROOT_INO] /\ inode'[ino].mode = "reg"
         /\ copy' = copy
         /\ \A used, used2 : used \subseteq Inos /\ used \subseteq used2 => Grown(used, inode, used2, inode')
<1>1. inode' = [inode EXCEPT ![ino] = NewInode, ![EXT2_ROOT_INO] = root] /\ copy' = copy
  BY DEF Created
<1>2. DOMAIN inode = Inos /\ EXT2_ROOT_INO \in Inos
  BY Sizes DEF Inv, FilesOK, NodesOK
<1>3. inode'[EXT2_ROOT_INO] = inode[EXT2_ROOT_INO] /\ inode'[ino] = NewInode
  BY <1>1, <1>2 DEF root
<1>4. NewInode.mode = "reg"
  BY DEF NewInode, Inode
<1>5. \A j \in Inos : j # ino => inode'[j] = inode[j]
  BY <1>1, <1>2 DEF root
<1>6. \A j \in Inos : inode[j].mode # "none" => inode'[j].mode # "none"
  BY <1>3, <1>4, <1>5
<1> QED BY <1>1, <1>3, <1>4, <1>6 DEF Grown

LEMMA CreateNoEntryDir == ASSUME Inv, DirInv, NEW n, CreateNoEntry(n) PROVE DirInv'
<1>1. PICK o \in Succeeded(Allocations(meta, "inodes")) :
      \E r \in RootBlocks(o.meta) :
        meta' = r.meta /\ Created(o.got, root) /\ UNCHANGED <<recs, unsure>>
  BY DEF CreateNoEntry
<1>2. PICK r \in RootBlocks(o.meta) :
        meta' = r.meta /\ Created(o.got, root) /\ UNCHANGED <<recs, unsure>>
  BY <1>1
<1>3. /\ Extends(meta, r.meta, "blocks", None) /\ o.got \in Inos /\ o.got # EXT2_ROOT_INO
      /\ Numbers(meta.bits, "inodes") \subseteq Numbers(r.meta.bits, "inodes")
      /\ Numbers(meta.bits, "inodes") \subseteq Inos
  BY CreateAllocs
<1>4. /\ inode'[EXT2_ROOT_INO] = inode[EXT2_ROOT_INO] /\ copy' = copy
      /\ Grown(Numbers(meta.bits, "inodes"), inode, Numbers(r.meta.bits, "inodes"), inode')
  BY <1>2, <1>3, CreatedNodes
<1>5. DirOK(meta, inode, recs, unsure)
  BY DEF DirInv
<1>6. DirOK(r.meta, inode', recs, unsure)
  BY <1>3, <1>4, <1>5, DirKeeps
<1>7. DirOK(meta', inode', recs', unsure')
  BY <1>2, <1>6
<1> QED BY <1>4, <1>7 DEF DirInv

\* A block without records has no room.
LEMMA NoRoom == ASSUME NEW n PROVE ~HasRoom(<<>>, n)
  BY DEF HasRoom, Unused, Splits

\* A lookup that reads its blocks sees every entry.
LEMMA NotFound ==
  ASSUME DirInv, root.block[0] # None, NEW n, ext2_find_file_in_dir(root, n) = None
  PROVE  \A i \in InUse(RootRecs) : RootRecs[i].name # n
<1> DEFINE s == RootRecs
<1>1. Scannable(recs, root) /\ FirstSound(meta, inode, root, recs, unsure)
  BY DEF DirInv, DirOK, root
<1>2. BlockBytes <= root.size /\ Length(s) = BlockBytes
      /\ \A i \in DOMAIN s : s[i].len >= Needed(s[i].name)
  BY <1>1 DEF FirstSound, BlockSound, RootRecs
<1>3. SUFFICES ASSUME NEW i \in InUse(s), s[i].name = n PROVE FALSE
  OBVIOUS
<1>4. i \in DOMAIN s /\ s[i].ino # None
  BY DEF InUse
<1>5. <<0, i>> \in Met(root, Direct(root))
  BY <1>1, <1>2, <1>4, FirstMet DEF RootRecs
<1>6. RecAt(Direct(root), <<0, i>>) = s[i]
  <2>1. Direct(root)[0] = root.block[0]
    BY <1>1, DirectBlocks, ZeroPointer DEF Scannable
  <2> QED BY <2>1 DEF RecAt, RootRecs
<1>7. <<0, i>> \in Live(root, Direct(root))
  BY <1>4, <1>5, <1>6 DEF Live
<1>8. ext2_find_file_in_dir(root, n) # None
  BY <1>1, <1>3, <1>6, <1>7, FoundIn
<1> QED BY <1>8

LEMMA CreateDoneDir == ASSUME Inv, DirInv, NEW n \in Names, CreateDone(n) PROVE DirInv'
<1>1. PICK o \in Succeeded(Allocations(meta, "inodes")), bad \in 0..1, late \in 0..1 :
      \E r \in Succeeded(RootBlocks(o.meta)) :
        /\ Looked(n, bad) /\ HasRoom(recs[r.got], n) /\ meta' = r.meta
        /\ recs' = [recs EXCEPT ![r.got] = Inserted(@, n, o.got)]
        /\ unsure' = (unsure \/ bad = 1)
        /\ Created(o.got, IF late = 1 THEN root ELSE RootWith(r.got))
  BY DEF CreateDone
<1>2. PICK r \in Succeeded(RootBlocks(o.meta)) :
        /\ Looked(n, bad) /\ HasRoom(recs[r.got], n) /\ meta' = r.meta
        /\ recs' = [recs EXCEPT ![r.got] = Inserted(@, n, o.got)]
        /\ unsure' = (unsure \/ bad = 1)
        /\ Created(o.got, IF late = 1 THEN root ELSE RootWith(r.got))
  BY <1>1
<1> DEFINE b == root.block[0]
           s == recs[b]
           t == Inserted(s, n, o.got)
           used == Numbers(meta.bits, "inodes")
           used2 == Numbers(r.meta.bits, "inodes")
<1>3. r \in RootBlocks(o.meta) /\ r.got # None
  BY DEF Succeeded
<1>4. /\ Extends(meta, r.meta, "blocks", NewOf(b, r)) /\ Extends(meta, r.meta, "blocks", None)
      /\ o.got \in Inos /\ o.got # EXT2_ROOT_INO /\ o.got \notin used /\ o.got \in used2
      /\ (b # None => r.got = b) /\ used \subseteq used2
      /\ used \subseteq Inos
  BY <1>3, CreateAllocs
<1>5. /\ root = inode[EXT2_ROOT_INO] /\ Scannable(recs, root) /\ EXT2_ROOT_INO \in used
      /\ (b = None => FreeBlank(meta, recs))
      /\ (b # None => FirstSound(meta, inode, root, recs, unsure))
  BY DEF DirInv, DirOK, root
<1>6. b # None
  <2> SUFFICES ASSUME b = None PROVE FALSE
    OBVIOUS
  <2>1. NewOf(b, r) = r.got
    BY DEF NewOf
  <2>2. r.got \in Blocks \ Numbers(meta.bits, "blocks")
    BY <1>3, <1>4, <2>1 DEF Extends
  <2>3. recs[r.got] = <<>>
    BY <1>5, <2>2 DEF FreeBlank
  <2>4. HasRoom(<<>>, n)
    BY <1>2, <2>3
  <2> QED BY <2>4, NoRoom
<1>7. r.got = b /\ RootWith(r.got) = root
  BY <1>4, <1>6 DEF RootWith
<1>8. Created(o.got, root)
  BY <1>2, <1>7
<1>9. /\ inode'[EXT2_ROOT_INO] = root /\ inode'[o.got].mode = "reg" /\ copy' = copy
      /\ Grown(used, inode, used2, inode')
  BY <1>4, <1>5, <1>8, CreatedNodes
<1>10. b \in Blocks /\ s \in Seq(Records) /\ BlockSound(s, used, inode) /\ HasRoom(s, n)
       /\ BlockBytes <= root.size /\ (unsure \/ NamesOnce(s))
  <2>1. b \in Blocks
    BY <1>5, <1>6, ZeroPointer DEF Scannable, Tables
  <2> QED BY <1>2, <1>5, <1>6, <1>7, <2>1 DEF Scannable, FirstSound
<1>11. recs' = [recs EXCEPT ![b] = t]
  BY <1>2, <1>7
<1>12. bad # 1 => \A i \in InUse(s) : s[i].name # n
  <2>1. bad # 1 => ext2_find_file_in_dir(root, n) = None
    BY <1>2 DEF Looked
  <2>2. s = RootRecs
    BY DEF RootRecs
  <2> QED BY <1>6, <2>1, <2>2, NotFound
<1> HIDE DEF b, s, used, used2
<1>13. /\ t \in Seq(Records) /\ BlockSound(t, used2, inode')
       /\ NamesOnce(s) /\ (\A i \in InUse(s) : s[i].name # n) => NamesOnce(t)
  BY <1>4, <1>9, <1>10, InsertedSound
<1> HIDE DEF t
<1>14. recs' \in [Blocks -> Seq(Records)] /\ recs'[b] = t
  BY <1>5, <1>10, <1>11, <1>13 DEF Scannable
<1>15. unsure' \/ NamesOnce(t)
  BY <1>2, <1>10, <1>12, <1>13
<1>16. FirstSound(r.meta, inode', root, recs', unsure')
  BY <1>10, <1>13, <1>14, <1>15 DEF FirstSound, b, used2
<1>17. Scannable(recs', root) /\ EXT2_ROOT_INO \in used2 /\ root.block[0] # None
  BY <1>4, <1>5, <1>6, <1>14 DEF Scannable, b
<1>18. DirOK(r.meta, inode', recs', unsure')
  BY <1>9, <1>16, <1>17 DEF DirOK, used2
<1>19. DirOK(meta', inode', recs', unsure') /\ CopiesReg(copy')
  BY <1>2, <1>9, <1>18 DEF DirInv
<1> QED BY <1>19 DEF DirInv

\* Every step keeps the directory in order.
LEMMA NextDir == Inv /\ DirInv /\ [Next]_vars => DirInv'
<1> SUFFICES ASSUME Inv, DirInv, [Next]_vars PROVE DirInv'
  OBVIOUS
<1>1. ASSUME NEW n \in Names, ext2_create_file(n) PROVE DirInv'
  BY <1>1, CreateNoInodeDir, CreateInodeFailsDir, CreateNoEntryDir, CreateDoneDir
  DEF ext2_create_file
<1>2. ASSUME NEW c \in Clients, NEW w \in Writes, StartWrite(c, w) PROVE DirInv'
  BY <1>2 DEF StartWrite, DirInv
<1>3. ASSUME Calls PROVE DirInv'
  BY <1>1, <1>2, <1>3, ReadInodeDir, WriteInodeDir, ForgetDir, GetOrAllocDir DEF Calls
<1>4. CASE UNCHANGED vars
  BY <1>4 DEF vars, DirInv
<1> QED BY <1>3, <1>4, WriteBlockDir, WriteEndDir, WriteNoBlockDir, WriteFailsDir DEF Next

LEMMA DirSound == DirInv => DirectorySound
<1> SUFFICES ASSUME DirInv, root.block[0] # None
             PROVE  /\ BlockSound(RootRecs, Used("inodes"), inode)
                    /\ unsure \/ NamesOnce(RootRecs)
                    /\ ext2_list_root(root) = {n \in Names : ext2_find_file_in_dir(root, n) # None}
  BY DEF DirectorySound
<1>1. Scannable(recs, root) /\ FirstSound(meta, inode, root, recs, unsure)
  BY DEF DirInv, DirOK, root
<1>2. ext2_list_root(root) = {n \in Names : ext2_find_file_in_dir(root, n) # None}
  BY <1>1, ListedFound
<1> QED BY <1>1, <1>2 DEF FirstSound, RootRecs, Used

\* After any number of calls of ext2_create_file, with whatever failures
\* between them, the records of the root directory fill its block, every
\* entry has a name with room for it and an inode of its own that is marked as
\* used, and what is listed is what can be looked up.  No name is there twice,
\* unless a lookup took a block that it could not read for an empty one.
THEOREM RootDirectorySound == Spec => []DirectorySound
<1>1. Spec => []DirInv
  <2>1. DirInv /\ Inv /\ [Next]_vars => DirInv'
    BY NextDir
  <2> QED BY <2>1, InitDir, Ext2Invariant, PTL DEF Spec
<1> QED BY <1>1, DirSound, PTL


-----------------------------------------------------------------------------
(* What readers find.                                                      *)

Cells == 0..(MaxCells - 1)
Indexes == 0..(NDirect - 1)

\* Whatever h knows of a file is found through the pointers of nd, in front
\* of limit.
Shows(d, nd, h, limit) ==
  \A at \in Cells : h[at] # Unknown =>
    /\ at < limit
    /\ nd.block[at \div CellsPerBlock] # None
    /\ d[nd.block[at \div CellsPerBlock]][at % CellsPerBlock] = h[at]

\* nd2 has the blocks of nd, and may have more.
Follows(nd, nd2) == \A k \in Indexes : nd.block[k] \in {None, nd2.block[k]}

\* A block that both have is in the same place of both.
InPlace(nd, nd2) ==
  \A p, q \in Indexes : p # q /\ nd.block[p] # None => nd.block[p] # nd2.block[q]

\* The inode of a file and the copies of it that clients have.
Places(nodes, copies) ==
  /\ \A c \in Clients : copies[c].ino # None => InPlace(nodes[copies[c].ino], copies[c].inode)
  /\ \A c, d \in Clients : c # d /\ copies[c].ino = copies[d].ino /\ copies[c].ino # None =>
       InPlace(copies[c].inode, copies[d].inode)

\* The size that the copy of client c has, or will have when the write in
\* progress ends.
Limit(c) ==
  IF call.op = "write" /\ Writer = c /\ WriteAt > copy[c].inode.size THEN WriteAt
  ELSE copy[c].inode.size

DiskShows ==
  /\ DOMAIN kept = Inos
  /\ \A i \in Inos : inode[i].size \in Nat
  /\ \A i \in Inos : inode[i].mode = "reg" => Shows(data, inode[i], kept[i], inode[i].size)

CopiesShow ==
  /\ DOMAIN wrote = Clients
  /\ \A c \in Clients : copy[c].inode.size \in Nat
  /\ \A c \in Clients : Owner(c) # None => Shows(data, copy[c].inode, wrote[c], Limit(c))

DataInv == DiskShows /\ CopiesShow /\ Places(inode, copy)

LEMMA CellPlace ==
  ASSUME NEW at \in Cells
  PROVE  /\ at \in Nat /\ at \div CellsPerBlock \in Indexes
         /\ at % CellsPerBlock \in 0..(CellsPerBlock - 1)
         /\ at = (at \div CellsPerBlock) * CellsPerBlock + (at % CellsPerBlock)
<1> DEFINE C == CellsPerBlock
           D == NDirect
<1>1. C \in Nat \ {0} /\ D \in Nat \ {0} /\ Cells = 0..(D * C - 1) /\ D * C \in Nat
  BY Sizes DEF Cells, MaxCells
<1> DEFINE q == at \div C
           r == at % C
<1> HIDE DEF C, D
<1>2. at \in Nat /\ at < D * C
  BY <1>1
<1>3. q \in Nat /\ r \in 0..(C - 1) /\ at = q * C + r
  BY <1>1, <1>2
<1> HIDE DEF q, r
<1>4. q < D
  <2> SUFFICES ASSUME ~(q < D) PROVE FALSE
    OBVIOUS
  <2>1. PICK e \in Nat : q = D + e
    <3>1. q - D \in Nat /\ q = D + (q - D)
      BY <1>1, <1>3
    <3> QED BY <3>1
  <2>2. q * C = D * C + e * C /\ e * C \in Nat
    BY <1>1, <2>1
  <2> QED BY <1>1, <1>2, <1>3, <2>2
<1> QED BY <1>1, <1>2, <1>3, <1>4 DEF q, r, C, D, Indexes

\* With more blocks and a higher limit, no less is found.
LEMMA ShowsMore ==
  ASSUME NEW d, NEW nd, NEW h, NEW limit \in Nat, Shows(d, nd, h, limit),
         NEW nd2, Follows(nd, nd2), NEW limit2 \in Nat, limit <= limit2
  PROVE  Shows(d, nd2, h, limit2)
<1> SUFFICES ASSUME NEW at \in Cells, h[at] # Unknown
             PROVE  /\ at < limit2
                    /\ nd2.block[at \div CellsPerBlock] # None
                    /\ d[nd2.block[at \div CellsPerBlock]][at % CellsPerBlock] = h[at]
  BY DEF Shows
<1> DEFINE k == at \div CellsPerBlock
<1>1. at < limit /\ nd.block[k] # None /\ d[nd.block[k]][at % CellsPerBlock] = h[at]
  BY DEF Shows
<1>2. at \in Nat /\ k \in Indexes
  BY CellPlace
<1> HIDE DEF k
<1>3. nd2.block[k] = nd.block[k]
  BY <1>1, <1>2 DEF Follows
<1>4. at < limit2
  BY <1>1, <1>2
<1> QED BY <1>1, <1>3, <1>4 DEF k

LEMMA FollowsItself == ASSUME NEW nd, NEW nd2, nd2.block = nd.block PROVE Follows(nd, nd2)
  BY DEF Follows

LEMMA NothingShown == ASSUME NEW d, NEW nd, NEW n PROVE Shows(d, nd, Nothing, n)
  BY DEF Shows, Nothing, Cells

\* b is none of the blocks of nd but, perhaps, the k-th.
ElsewhereNot(nd, b, k) == \A p \in Indexes : p # k => nd.block[p] # b

\* h2 is h after the round of a write into block b: what h2 knows was known,
\* or has been given.
Learns(h, h2, lost, nd, b, limit) ==
  \A at \in Cells : h2[at] # Unknown =>
    \/ (~InBlock(at) \/ nd.block[WriteIndex] # b) /\ h2[at] = h[at]
    \/ /\ InBlock(at) /\ at < limit /\ nd.block[WriteIndex] = b
       /\ \/ InPiece(at) /\ h2[at] = Given(at)
          \/ ~InPiece(at) /\ ~lost /\ h2[at] = h[at]

LEMMA FilledCell ==
  ASSUME NEW old, NEW at \in Cells, InBlock(at)
  PROVE  Filled(old)[at % CellsPerBlock] = IF InPiece(at) THEN Given(at) ELSE old[at % CellsPerBlock]
<1> DEFINE r == at % CellsPerBlock
<1>1. r \in 0..(CellsPerBlock - 1) /\ WriteIndex * CellsPerBlock + r = at
  BY CellPlace DEF InBlock
<1> HIDE DEF r
<1>2. Filled(old)[r] = IF InPiece(WriteIndex * CellsPerBlock + r)
                       THEN Given(WriteIndex * CellsPerBlock + r) ELSE old[r]
  BY <1>1 DEF Filled
<1> QED BY <1>1, <1>2 DEF r

\* The file that is written.
LEMMA ShowsWritten ==
  ASSUME NEW d \in [Blocks -> BlockData], NEW b \in Blocks, NEW lost \in BOOLEAN, NEW nd, NEW nd2,
         NEW h, NEW h2, NEW limit \in Nat, NEW limit2 \in Nat, limit <= limit2,
         Shows(d, nd, h, limit), Follows(nd, nd2), ElsewhereNot(nd2, b, WriteIndex),
         Learns(h, h2, lost, nd2, b, limit2), b # None
  PROVE  Shows([d EXCEPT ![b] = Filled(IF lost THEN ZeroBlock ELSE d[b])], nd2, h2, limit2)
<1> DEFINE x == Filled(IF lost THEN ZeroBlock ELSE d[b])
<1> SUFFICES ASSUME NEW at \in Cells, h2[at] # Unknown
             PROVE  /\ at < limit2
                    /\ nd2.block[at \div CellsPerBlock] # None
                    /\ [d EXCEPT ![b] = x][nd2.block[at \div CellsPerBlock]][at % CellsPerBlock] = h2[at]
  BY DEF Shows
<1> DEFINE k == at \div CellsPerBlock
           r == at % CellsPerBlock
<1>1. k \in Indexes /\ at \in Nat
  BY CellPlace
<1>2. h[at] # Unknown => /\ at < limit /\ nd.block[k] # None /\ d[nd.block[k]][r] = h[at]
  BY DEF Shows
<1>3. InBlock(at) => x[r] = IF InPiece(at) THEN Given(at) ELSE (IF lost THEN ZeroBlock ELSE d[b])[r]
  BY FilledCell
<1>4. InBlock(at) <=> k = WriteIndex
  BY DEF InBlock
<1> HIDE DEF k, r, x
<1>5. h[at] # Unknown => nd2.block[k] = nd.block[k] /\ at < limit2
  BY <1>1, <1>2 DEF Follows
<1>6. CASE ~InBlock(at) \/ nd2.block[WriteIndex] # b
  <2>1. h2[at] = h[at]
    BY <1>6 DEF Learns
  <2>2. nd2.block[k] # b
    BY <1>1, <1>4, <1>6 DEF ElsewhereNot
  <2>3. [d EXCEPT ![b] = x][nd2.block[k]] = d[nd2.block[k]]
    BY <2>2
  <2> QED BY <1>2, <1>5, <2>1, <2>3 DEF k, r
<1>7. CASE InBlock(at) /\ nd2.block[WriteIndex] = b
  <2>1. at < limit2 /\ nd2.block[k] = b
    BY <1>4, <1>7 DEF Learns
  <2>2. [d EXCEPT ![b] = x][b] = x
    OBVIOUS
  <2>3. CASE InPiece(at)
    <3>1. h2[at] = Given(at)
      BY <1>7, <2>3 DEF Learns
    <3> QED BY <1>3, <1>7, <2>1, <2>2, <2>3, <3>1 DEF k, r
  <2>4. CASE ~InPiece(at)
    <3>1. h2[at] = h[at] /\ ~lost
      BY <1>7, <2>4 DEF Learns
    <3>2. x[r] = d[b][r]
      BY <1>3, <1>7, <2>4, <3>1
    <3>3. d[b][r] = h[at]
      BY <1>2, <1>5, <2>1, <3>1
    <3> QED BY <2>1, <2>2, <3>1, <3>2, <3>3 DEF k, r
  <2> QED BY <2>3, <2>4
<1> QED BY <1>6, <1>7

-----------------------------------------------------------------------------

LEMMA InitData == Init => DataInv
<1> SUFFICES ASSUME Init PROVE DataInv
  OBVIOUS
<1>1. PICK im \in Images : inode = im.inode
  BY DEF Init
<1>2. \A i \in Inos : inode[i].size \in Nat
  BY <1>1, ImageAssumption DEF Consistent
<1>3. /\ kept = [i \in Inos |-> Nothing] /\ wrote = [c \in Clients |-> Nothing]
      /\ copy = [c \in Clients |-> NoCopy]
  BY DEF Init
<1>4. DiskShows
  BY <1>2, <1>3, NothingShown DEF DiskShows
<1>5. \A c \in Clients : copy[c].ino = None /\ copy[c].inode.size = 0
  BY <1>3 DEF NoCopy, NewInode, Inode
<1>6. CopiesShow
  BY <1>3, <1>5 DEF CopiesShow, Owner
<1>7. Places(inode, copy)
  BY <1>5 DEF Places
<1> QED BY <1>4, <1>6, <1>7 DEF DataInv

\* Steps that only allocate.
LEMMA DataSame ==
  ASSUME DataInv, UNCHANGED <<inode, data, copy, call, kept, wrote>>
  PROVE  DataInv'
<1>1. \A c \in Clients : Limit(c)' = Limit(c) /\ Owner(c)' = Owner(c)
  BY DEF Limit, Writer, WriteAt, Owner
<1>2. DiskShows'
  BY DEF DataInv, DiskShows
<1>3. CopiesShow'
  BY <1>1 DEF DataInv, CopiesShow
<1>4. Places(inode', copy')
  BY DEF DataInv
<1> QED BY <1>2, <1>3, <1>4 DEF DataInv

LEMMA LimitNat ==
  ASSUME Inv, DataInv, NEW c \in Clients
  PROVE  Limit(c) \in Nat /\ copy[c].inode.size <= Limit(c)
<1>1. copy[c].inode.size \in Nat /\ call.off \in Nat /\ call.done \in Nat
  BY DEF Inv, CallOK, DataInv, CopiesShow
<1>2. WriteAt \in Nat
  BY <1>1 DEF WriteAt
<1> QED BY <1>1, <1>2 DEF Limit

LEMMA LimitIdle ==
  ASSUME NEW c \in Clients, call.op = "idle" \/ Writer # c
  PROVE  Limit(c) = copy[c].inode.size
  BY DEF Limit

LEMMA InPlaceBack == ASSUME NEW nd, NEW nd2, InPlace(nd, nd2) PROVE InPlace(nd2, nd)
  BY DEF InPlace

LEMMA InPlaceSame == ASSUME NEW nd, GoodNode(nd) PROVE InPlace(nd, nd)
<1>1. Indexes \subseteq DOMAIN nd.block
  BY ZeroPointer DEF GoodNode, Tables, Indexes
<1> QED BY <1>1 DEF GoodNode, Distinct, InPlace

\* The blocks of a file are marked, so one that was not marked is none of them.
AllMarked(nd) == \A p \in Indexes : nd.block[p] # None => nd.block[p] \in Numbers(meta.bits, "blocks")

LEMMA PointersMarked ==
  ASSUME Inv
  PROVE  /\ \A i \in Inos : AllMarked(inode[i])
         /\ \A c \in Clients : Owner(c) \in Inos => AllMarked(copy[c].inode)
<1>1. NodesOK(inode, copy) /\ OwnersOK(meta, ptrs, inode, copy) /\ Indexes \subseteq Pointers
  BY ZeroPointer DEF Inv, FilesOK, Indexes
<1>2. \A i \in Inos : OwnedBy(ptrs, inode, copy, i) \subseteq Numbers(meta.bits, "blocks")
  BY <1>1 DEF OwnersOK
<1>3. ASSUME NEW nd, nd.block \in Tables, NEW i \in Inos,
             Owns(ptrs, nd) \subseteq OwnedBy(ptrs, inode, copy, i)
      PROVE  AllMarked(nd)
  <2> SUFFICES ASSUME NEW p \in Indexes, nd.block[p] # None
               PROVE  nd.block[p] \in Numbers(meta.bits, "blocks")
    BY DEF AllMarked
  <2>1. nd.block[p] \in Owns(ptrs, nd)
    BY <1>1, <1>3, PointsOwn
  <2> QED BY <1>2, <1>3, <2>1
<1>4. ASSUME NEW i \in Inos PROVE AllMarked(inode[i])
  <2>1. inode[i].block \in Tables /\ Owns(ptrs, inode[i]) \subseteq OwnedBy(ptrs, inode, copy, i)
    BY <1>1 DEF NodesOK, GoodNode, OwnedBy
  <2> QED BY <1>3, <2>1
<1>5. ASSUME NEW c \in Clients, Owner(c) \in Inos PROVE AllMarked(copy[c].inode)
  <2>1. /\ copy[c].inode.block \in Tables
        /\ Owns(ptrs, copy[c].inode) \subseteq OwnedBy(ptrs, inode, copy, Owner(c))
    BY <1>5, CopyOwned DEF GoodNode
  <2> QED BY <1>3, <1>5, <2>1
<1> QED BY <1>4, <1>5

\* What nd2 has and nd has not was not marked.
Fresh(nd, nd2) ==
  \A p \in Indexes : nd2.block[p] = nd.block[p] \/ nd2.block[p] \notin Numbers(meta.bits, "blocks")

LEMMA InPlaceFresh ==
  ASSUME NEW nd, NEW nd1, NEW nd2, InPlace(nd, nd1), Fresh(nd1, nd2), AllMarked(nd)
  PROVE  InPlace(nd, nd2)
  BY DEF InPlace, Fresh, AllMarked

\* A client changes its copy.
LEMMA PlacesStep ==
  ASSUME Inv, DataInv, NEW c \in Clients, Owner(c) # None, NEW nd, Holding(c, nd),
         Fresh(copy[c].inode, nd), UNCHANGED inode
  PROVE  Places(inode', copy')
<1>1. DOMAIN copy = Clients /\ \A d \in Clients : Owner(d) \in Inos \union {None}
  BY DEF Inv, FilesOK, NodesOK, Owner
<1>2. /\ copy'[c].ino = Owner(c) /\ copy'[c].inode = nd
      /\ \A d \in Clients : d # c => copy'[d] = copy[d]
  BY <1>1 DEF Holding
<1>3. /\ \A d \in Clients : Owner(d) # None => InPlace(inode[Owner(d)], copy[d].inode)
      /\ \A d, e \in Clients : d # e /\ Owner(d) = Owner(e) /\ Owner(d) # None =>
           InPlace(copy[d].inode, copy[e].inode)
  BY DEF DataInv, Places, Owner
<1>4. ASSUME NEW d \in Clients, copy'[d].ino # None PROVE InPlace(inode[copy'[d].ino], copy'[d].inode)
  <2>1. CASE d # c
    BY <1>2, <1>3, <1>4, <2>1 DEF Owner
  <2>2. CASE d = c
    <3>1. InPlace(inode[Owner(c)], copy[c].inode) /\ AllMarked(inode[Owner(c)])
      BY <1>1, <1>3, PointersMarked
    <3>2. InPlace(inode[Owner(c)], nd)
      BY <3>1, InPlaceFresh
    <3> QED BY <1>2, <2>2, <3>2
  <2> QED BY <2>1, <2>2
<1>5. ASSUME NEW d \in Clients, d # c, Owner(d) = Owner(c) PROVE InPlace(copy[d].inode, nd)
  <2>1. InPlace(copy[d].inode, copy[c].inode) /\ AllMarked(copy[d].inode)
    BY <1>1, <1>3, <1>5, PointersMarked
  <2> QED BY <2>1, InPlaceFresh
<1>6. ASSUME NEW d \in Clients, NEW e \in Clients, d # e, copy'[d].ino = copy'[e].ino, copy'[d].ino # None
      PROVE  InPlace(copy'[d].inode, copy'[e].inode)
  <2>1. Owner(d) = Owner(e) /\ Owner(d) # None
    BY <1>2, <1>6 DEF Owner
  <2>2. CASE d # c /\ e # c
    BY <1>2, <1>3, <1>6, <2>1, <2>2
  <2>3. CASE d = c
    <3>1. InPlace(copy[e].inode, nd)
      BY <1>5, <1>6, <2>1, <2>3
    <3> QED BY <1>2, <1>6, <2>3, <3>1, InPlaceBack
  <2>4. CASE e = c
    <3>1. InPlace(copy[d].inode, nd)
      BY <1>5, <1>6, <2>1, <2>4
    <3> QED BY <1>2, <1>6, <2>4, <3>1
  <2> QED BY <2>2, <2>3, <2>4
<1>7. Places(inode, copy')
  BY <1>4, <1>6 DEF Places
<1> QED BY <1>7

\* ext2_create_file writes inodes that nobody has written to.
LEMMA CreatedData ==
  ASSUME Inv, DirInv, DataInv, NEW ino \in Inos, ino # EXT2_ROOT_INO, NEW nd,
         nd.mode = "dir", nd.size \in Nat, Created(ino, nd)
  PROVE  DataInv'
<1>1. /\ inode' = [inode EXCEPT ![ino] = NewInode, ![EXT2_ROOT_INO] = nd]
      /\ kept' = [kept EXCEPT ![ino] = Nothing] /\ UNCHANGED <<data, copy, call, wrote>>
  BY DEF Created
<1>2. DOMAIN inode = Inos /\ EXT2_ROOT_INO \in Inos /\ DOMAIN kept = Inos
  BY Sizes DEF Inv, FilesOK, NodesOK, DataInv, DiskShows
<1>3. /\ inode'[EXT2_ROOT_INO] = nd /\ inode'[ino] = NewInode
      /\ \A j \in Inos : j # ino /\ j # EXT2_ROOT_INO => inode'[j] = inode[j]
  BY <1>1, <1>2
<1>4. DOMAIN kept' = Inos /\ kept'[ino] = Nothing /\ \A j \in Inos : j # ino => kept'[j] = kept[j]
  BY <1>1, <1>2
<1>5. NewInode.size = 0 /\ NewInode.block = NoPointers
  BY DEF NewInode, Inode
<1>6. \A i \in Inos : inode'[i].size \in Nat
  BY <1>3, <1>5 DEF DataInv, DiskShows
<1>7. ASSUME NEW i \in Inos, inode'[i].mode = "reg"
      PROVE  Shows(data, inode'[i], kept'[i], inode'[i].size)
  <2>1. CASE i = ino
    BY <1>4, <2>1, NothingShown
  <2>2. CASE i # ino
    <3>1. i # EXT2_ROOT_INO
      BY <1>3, <1>7
    <3> QED BY <1>3, <1>4, <1>7, <2>2, <3>1 DEF DataInv, DiskShows
  <2> QED BY <2>1, <2>2
<1>8. DiskShows'
  BY <1>1, <1>4, <1>6, <1>7 DEF DiskShows
<1>9. ASSUME NEW c \in Clients, copy[c].ino # None
      PROVE  InPlace(inode'[copy[c].ino], copy[c].inode)
  <2>1. copy[c].ino # EXT2_ROOT_INO /\ copy[c].ino \in Inos
    BY <1>9 DEF DirInv, CopiesReg, Inv, FilesOK, NodesOK
  <2>2. CASE copy[c].ino = ino
    <3>1. \A k \in Indexes : NewInode.block[k] = None
      BY <1>5, ZeroPointer DEF NoPointers, Indexes
    <3> QED BY <1>3, <2>2, <3>1 DEF InPlace
  <2>3. CASE copy[c].ino # ino
    BY <1>3, <1>9, <2>1, <2>3 DEF DataInv, Places
  <2> QED BY <2>2, <2>3
<1>10. \A c \in Clients : Limit(c)' = Limit(c) /\ Owner(c)' = Owner(c)
  BY <1>1 DEF Limit, Writer, WriteAt, Owner
<1>11. CopiesShow'
  BY <1>1, <1>10 DEF DataInv, CopiesShow
<1>12. Places(inode', copy)
  BY <1>9 DEF DataInv, Places
<1> QED BY <1>1, <1>8, <1>11, <1>12 DEF DataInv

LEMMA RootWithFields ==
  ASSUME DirInv, NEW b
  PROVE  /\ root.mode = "dir" /\ root.size \in Nat
         /\ RootWith(b).mode = "dir" /\ RootWith(b).size \in Nat
<1>1. root.mode = "dir" /\ root.size \in Nat /\ BlockBytes \in Nat
  BY Ext2Assumption DEF DirInv, DirOK, Scannable, root
<1>2. root.size + BlockBytes \in Nat
  BY <1>1
<1> QED BY <1>1, <1>2 DEF RootWith, Inode

LEMMA CreateData == ASSUME Inv, DirInv, DataInv, NEW n, ext2_create_file(n) PROVE DataInv'
<1>1. CASE CreateNoInode(n)
  BY <1>1, DataSame DEF CreateNoInode
<1>2. CASE CreateInodeFails(n)
  BY <1>2, DataSame DEF CreateInodeFails
<1>3. CASE CreateNoEntry(n)
  <2>1. PICK o \in Succeeded(Allocations(meta, "inodes")) :
          \E r \in RootBlocks(o.meta) : Created(o.got, root)
    BY <1>3 DEF CreateNoEntry
  <2>2. PICK r \in RootBlocks(o.meta) : Created(o.got, root)
    BY <2>1
  <2>3. o.got \in Inos /\ o.got # EXT2_ROOT_INO
    BY CreateAllocs
  <2> QED BY <2>2, <2>3, RootWithFields, CreatedData
<1>4. CASE CreateDone(n)
  <2>1. PICK o \in Succeeded(Allocations(meta, "inodes")), late \in 0..1 :
          \E r \in Succeeded(RootBlocks(o.meta)) :
            Created(o.got, IF late = 1 THEN root ELSE RootWith(r.got))
    BY <1>4 DEF CreateDone
  <2>2. PICK r \in Succeeded(RootBlocks(o.meta)) :
            Created(o.got, IF late = 1 THEN root ELSE RootWith(r.got))
    BY <2>1
  <2>3. o.got \in Inos /\ o.got # EXT2_ROOT_INO
    BY CreateAllocs DEF Succeeded
  <2> DEFINE nd == IF late = 1 THEN root ELSE RootWith(r.got)
  <2>4. nd.mode = "dir" /\ nd.size \in Nat /\ Created(o.got, nd)
    BY <2>2, RootWithFields
  <2> HIDE DEF nd
  <2> QED BY <2>3, <2>4, CreatedData
<1> QED BY <1>1, <1>2, <1>3, <1>4 DEF ext2_create_file

LEMMA ReadInodeData ==
  ASSUME Inv, DataInv, NEW c \in Clients, NEW i \in Inos, ext2_read_inode(c, i), call.op = "idle"
  PROVE  DataInv'
<1>1. /\ inode[i].mode = "reg"
      /\ copy' = [copy EXCEPT ![c] = [ino |-> i, inode |-> inode[i]]]
      /\ wrote' = [wrote EXCEPT ![c] = kept[i]] /\ UNCHANGED <<inode, data, call, kept>>
  BY DEF ext2_read_inode
<1>2. DOMAIN copy = Clients /\ DOMAIN wrote = Clients
  BY DEF Inv, FilesOK, NodesOK, DataInv, CopiesShow
<1>3. /\ copy'[c].ino = i /\ copy'[c].inode = inode[i] /\ wrote'[c] = kept[i]
      /\ \A d \in Clients : d # c => copy'[d] = copy[d] /\ wrote'[d] = wrote[d]
      /\ DOMAIN wrote' = Clients
  BY <1>1, <1>2
<1>4. DiskShows'
  BY <1>1 DEF DataInv, DiskShows
<1>5. \A d \in Clients : Limit(d) = copy[d].inode.size /\ Limit(d)' = copy'[d].inode.size
  BY <1>1 DEF Limit
<1>6. Shows(data, inode[i], kept[i], inode[i].size) /\ inode[i].size \in Nat
  BY <1>1 DEF DataInv, DiskShows
<1>7. \A d \in Clients : Owner(d)' = IF d = c THEN i ELSE Owner(d)
  BY <1>3 DEF Owner
<1>8. ASSUME NEW d \in Clients, Owner(d)' # None
      PROVE  Shows(data, copy'[d].inode, wrote'[d], Limit(d)')
  <2>1. CASE d = c
    BY <1>3, <1>5, <1>6, <1>7, <2>1
  <2>2. CASE d # c
    <3>1. Owner(d) # None /\ Owner(d)' = Owner(d) /\ Limit(d)' = Limit(d)
      BY <1>3, <1>5, <1>7, <1>8, <2>2
    <3> QED BY <1>3, <2>2, <3>1 DEF DataInv, CopiesShow
  <2> QED BY <2>1, <2>2
<1>9. \A d \in Clients : copy'[d].inode.size \in Nat
  BY <1>3, <1>6 DEF DataInv, CopiesShow
<1>10. CopiesShow'
  BY <1>1, <1>3, <1>8, <1>9 DEF CopiesShow
<1>11. InPlace(inode[i], inode[i])
  BY InPlaceSame DEF Inv, FilesOK, NodesOK
<1>12. ASSUME NEW d \in Clients, d # c, copy[d].ino = i
       PROVE  InPlace(inode[i], copy[d].inode) /\ InPlace(copy[d].inode, inode[i])
  <2>1. i # None
    BY DEF Inos, None
  <2>2. InPlace(inode[i], copy[d].inode)
    BY <1>12, <2>1 DEF DataInv, Places
  <2> QED BY <2>2, InPlaceBack
<1>13. ASSUME NEW d \in Clients, copy'[d].ino # None PROVE InPlace(inode[copy'[d].ino], copy'[d].inode)
  <2>1. CASE d = c
    BY <1>3, <1>11, <2>1
  <2>2. CASE d # c
    BY <1>3, <1>13, <2>2 DEF DataInv, Places
  <2> QED BY <2>1, <2>2
<1>14. ASSUME NEW d \in Clients, NEW e \in Clients, d # e, copy'[d].ino = copy'[e].ino, copy'[d].ino # None
       PROVE  InPlace(copy'[d].inode, copy'[e].inode)
  <2>1. CASE d = c
    BY <1>3, <1>12, <1>14, <2>1
  <2>2. CASE e = c
    BY <1>3, <1>12, <1>14, <2>2
  <2>3. CASE d # c /\ e # c
    BY <1>3, <1>14, <2>3 DEF DataInv, Places
  <2> QED BY <2>1, <2>2, <2>3
<1>15. Places(inode, copy')
  BY <1>13, <1>14 DEF Places
<1> QED BY <1>1, <1>4, <1>10, <1>15 DEF DataInv

LEMMA WriteInodeData ==
  ASSUME Inv, DirInv, DataInv, NEW c \in Clients, ext2_write_inode(c), call.op = "idle"
  PROVE  DataInv'
<1> DEFINE i == Owner(c)
<1>1. /\ i # None /\ inode' = [inode EXCEPT ![i] = copy[c].inode]
      /\ kept' = [kept EXCEPT ![i] = wrote[c]] /\ UNCHANGED <<data, copy, call, wrote>>
  BY DEF ext2_write_inode
<1>2. DOMAIN inode = Inos /\ DOMAIN kept = Inos /\ i \in Inos
  BY <1>1 DEF Inv, FilesOK, NodesOK, DataInv, DiskShows, Owner
<1> HIDE DEF i
<1>3. /\ inode'[i] = copy[c].inode /\ kept'[i] = wrote[c] /\ DOMAIN kept' = Inos
      /\ \A j \in Inos : j # i => inode'[j] = inode[j] /\ kept'[j] = kept[j]
  BY <1>1, <1>2
<1>4. /\ Shows(data, copy[c].inode, wrote[c], Limit(c)) /\ Limit(c) = copy[c].inode.size
      /\ copy[c].inode.size \in Nat
  BY <1>1, LimitIdle DEF DataInv, CopiesShow, i
<1>5. DiskShows'
  BY <1>1, <1>3, <1>4 DEF DataInv, DiskShows
<1>6. \A d \in Clients : Limit(d)' = Limit(d) /\ Owner(d)' = Owner(d)
  BY <1>1 DEF Limit, Writer, WriteAt, Owner
<1>7. CopiesShow'
  BY <1>1, <1>6 DEF DataInv, CopiesShow
<1>8. ASSUME NEW d \in Clients, copy[d].ino # None PROVE InPlace(inode'[copy[d].ino], copy[d].inode)
  <2>1. CASE copy[d].ino # i
    <3>1. copy[d].ino \in Inos
      BY <1>8 DEF Inv, FilesOK, NodesOK
    <3> QED BY <1>3, <1>8, <2>1, <3>1 DEF DataInv, Places
  <2>2. CASE d = c
    <3>1. InPlace(copy[c].inode, copy[c].inode)
      BY InPlaceSame DEF Inv, FilesOK, NodesOK
    <3> QED BY <1>3, <2>2, <3>1 DEF i, Owner
  <2>3. CASE d # c /\ copy[d].ino = i
    <3>1. InPlace(copy[c].inode, copy[d].inode)
      BY <1>1, <2>3 DEF DataInv, Places, i, Owner
    <3> QED BY <1>3, <2>3, <3>1
  <2> QED BY <2>1, <2>2, <2>3
<1>9. Places(inode', copy)
  BY <1>8 DEF DataInv, Places
<1> QED BY <1>1, <1>5, <1>7, <1>9 DEF DataInv

LEMMA ForgetData ==
  ASSUME Inv, DataInv, NEW c \in Clients, Forget(c), call.op = "idle"
  PROVE  DataInv'
<1>1. /\ copy' = [copy EXCEPT ![c] = NoCopy] /\ wrote' = [wrote EXCEPT ![c] = Nothing]
      /\ UNCHANGED <<inode, data, call, kept>>
  BY DEF Forget
<1>2. DOMAIN copy = Clients /\ DOMAIN wrote = Clients
  BY DEF Inv, FilesOK, NodesOK, DataInv, CopiesShow
<1>3. /\ copy'[c].ino = None /\ copy'[c].inode.size = 0 /\ DOMAIN wrote' = Clients
      /\ \A d \in Clients : d # c => copy'[d] = copy[d] /\ wrote'[d] = wrote[d]
  BY <1>1, <1>2 DEF NoCopy, NewInode, Inode
<1>4. DiskShows'
  BY <1>1 DEF DataInv, DiskShows
<1>5. \A d \in Clients : d # c => Limit(d)' = Limit(d) /\ Owner(d)' = Owner(d)
  BY <1>1, <1>3 DEF Limit, Writer, WriteAt, Owner
<1>6. Owner(c)' = None /\ copy'[c].inode.size \in Nat
  BY <1>3 DEF Owner
<1>7. CopiesShow'
  <2>1. \A d \in Clients : copy'[d].inode.size \in Nat
    BY <1>3, <1>6 DEF DataInv, CopiesShow
  <2>2. ASSUME NEW d \in Clients, Owner(d)' # None
        PROVE  Shows(data, copy'[d].inode, wrote'[d], Limit(d)')
    <3>1. d # c
      BY <1>6, <2>2
    <3>2. copy'[d] = copy[d] /\ wrote'[d] = wrote[d] /\ Limit(d)' = Limit(d) /\ Owner(d)' = Owner(d)
      BY <1>3, <1>5, <3>1
    <3> QED BY <2>2, <3>2 DEF DataInv, CopiesShow
  <2> QED BY <1>1, <1>3, <2>1, <2>2 DEF CopiesShow
<1>8. Places(inode, copy')
  BY <1>3 DEF DataInv, Places
<1> QED BY <1>1, <1>4, <1>7, <1>8 DEF DataInv

LEMMA StartWriteData ==
  ASSUME Inv, DataInv, NEW c \in Clients, NEW w \in Writes, StartWrite(c, w), call.op = "idle", Inv'
  PROVE  DataInv'
<1>1. UNCHANGED <<inode, data, copy, kept, wrote>>
  BY DEF StartWrite
<1>2. call'.off \in Nat /\ call'.done \in Nat
  BY DEF Inv, CallOK
<1>3. WriteAt' \in Nat
  BY <1>2 DEF WriteAt
<1>4. ASSUME NEW d \in Clients
      PROVE  Limit(d) \in Nat /\ Limit(d)' \in Nat /\ Limit(d) <= Limit(d)' /\ Owner(d)' = Owner(d)
  <2>1. copy[d].inode.size \in Nat /\ Limit(d) = copy[d].inode.size
    BY LimitIdle DEF DataInv, CopiesShow
  <2>2. Limit(d)' = Limit(d) \/ (Limit(d)' = WriteAt' /\ WriteAt' > copy[d].inode.size)
    BY <1>1, <2>1 DEF Limit
  <2> QED BY <1>1, <1>3, <2>1, <2>2 DEF Owner
<1>5. ASSUME NEW d \in Clients, Owner(d) # None PROVE Shows(data, copy[d].inode, wrote[d], Limit(d)')
  <2>1. Shows(data, copy[d].inode, wrote[d], Limit(d)) /\ Follows(copy[d].inode, copy[d].inode)
    BY <1>5, FollowsItself DEF DataInv, CopiesShow
  <2> QED BY <1>4, <2>1, ShowsMore
<1>6. DiskShows'
  BY <1>1 DEF DataInv, DiskShows
<1>7. CopiesShow'
  BY <1>1, <1>4, <1>5 DEF DataInv, CopiesShow
<1>8. Places(inode', copy')
  BY <1>1 DEF DataInv
<1> QED BY <1>6, <1>7, <1>8 DEF DataInv

LEMMA FollowsTwice ==
  ASSUME NEW nd, NEW nd1, NEW nd2, Follows(nd, nd1), Follows(nd1, nd2)
  PROVE  Follows(nd, nd2)
  BY DEF Follows

\* A call ends with a copy that has more blocks, perhaps, and the size that
\* covers what was written.
LEMMA HoldingData ==
  ASSUME Inv, DataInv, NEW c \in Clients, Owner(c) # None, call.op = "idle" \/ Writer = c,
         NEW nd, Holding(c, nd), Follows(copy[c].inode, nd), Fresh(copy[c].inode, nd), nd.size = Limit(c),
         call'.op = "idle", UNCHANGED <<inode, data, kept, wrote>>
  PROVE  DataInv'
<1>1. DOMAIN copy = Clients
  BY DEF Inv, FilesOK, NodesOK
<1>2. /\ copy'[c].ino = Owner(c) /\ copy'[c].inode = nd
      /\ \A d \in Clients : d # c => copy'[d] = copy[d]
  BY <1>1 DEF Holding
<1>3. \A d \in Clients : Owner(d)' = Owner(d) /\ Limit(d)' = copy'[d].inode.size
  BY <1>2 DEF Owner, Limit
<1>4. nd.size \in Nat
  BY LimitNat
<1>5. DiskShows'
  BY DEF DataInv, DiskShows
<1>6. ASSUME NEW d \in Clients, Owner(d) # None
      PROVE  Shows(data, copy'[d].inode, wrote[d], Limit(d)')
  <2>1. Shows(data, copy[d].inode, wrote[d], Limit(d)) /\ Limit(d) \in Nat
    BY <1>6, LimitNat DEF DataInv, CopiesShow
  <2>2. CASE d = c
    <3>1. Shows(data, nd, wrote[d], Limit(d))
      BY <2>1, <2>2, ShowsMore
    <3> QED BY <1>2, <1>3, <2>2, <3>1
  <2>3. CASE d # c
    <3>1. Limit(d) = copy[d].inode.size
      BY <2>3, LimitIdle
    <3> QED BY <1>2, <1>3, <2>1, <2>3, <3>1
  <2> QED BY <2>2, <2>3
<1>7. \A d \in Clients : copy'[d].inode.size \in Nat
  BY <1>2, <1>4 DEF DataInv, CopiesShow
<1>8. CopiesShow'
  BY <1>3, <1>6, <1>7 DEF DataInv, CopiesShow
<1>9. Places(inode', copy')
  BY PlacesStep
<1> QED BY <1>5, <1>8, <1>9 DEF DataInv

\* A pointer is set where there was none.
LEMMA PointingFollows ==
  ASSUME NEW nd, nd.block \in Tables, NEW k \in Indexes, nd.block[k] = None, NEW b, NEW n
  PROVE  /\ Follows(nd, Pointing(nd, k, b, n)) /\ Pointing(nd, k, b, n).size = nd.size
         /\ Pointing(nd, k, b, n).block = [nd.block EXCEPT ![k] = b]
<1>1. Pointing(nd, k, b, n).block = [nd.block EXCEPT ![k] = b] /\ Pointing(nd, k, b, n).size = nd.size
  BY DEF Pointing, Inode
<1>2. DOMAIN nd.block = Pointers /\ Indexes \subseteq Pointers
  BY ZeroPointer DEF Tables, Indexes
<1>3. \A p \in Indexes : p # k => [nd.block EXCEPT ![k] = b][p] = nd.block[p]
  BY <1>2
<1> QED BY <1>1, <1>3 DEF Follows

LEMMA FreshSame == ASSUME NEW nd, NEW nd2, nd2.block = nd.block PROVE Fresh(nd, nd2)
  BY DEF Fresh

LEMMA FreshEnded == ASSUME NEW nd, NEW nd2, Fresh(nd, nd2) PROVE Fresh(nd, Ended(nd2))
  BY EndedBlock DEF Fresh

\* A block that is got where there was none.
LEMMA NewBlock ==
  ASSUME Inv, NEW c \in Clients, Owner(c) # None, NEW k \in Indexes, copy[c].inode.block[k] = None,
         NEW o \in BlockFor(copy[c].inode, k), o.got # None
  PROVE  o.got \notin Numbers(meta.bits, "blocks")
<1>1. "blocks" \in Kinds /\ MetaOK(meta) /\ o \in Allocations(meta, "blocks")
  BY DEF Kinds, Inv, FilesOK, BlockFor
<1>2. Extends(meta, o.meta, "blocks", o.got)
  BY <1>1, AllocationOK
<1> QED BY <1>2 DEF Extends

LEMMA PointingFresh ==
  ASSUME NEW nd, nd.block \in Tables, NEW k \in Indexes, NEW b, NEW n,
         b \notin Numbers(meta.bits, "blocks")
  PROVE  Fresh(nd, Pointing(nd, k, b, n))
<1>1. Pointing(nd, k, b, n).block = [nd.block EXCEPT ![k] = b]
  BY DEF Pointing, Inode
<1>2. DOMAIN nd.block = Pointers /\ Indexes \subseteq Pointers
  BY ZeroPointer DEF Tables, Indexes
<1>3. \A p \in Indexes : [nd.block EXCEPT ![k] = b][p] = IF p = k THEN b ELSE nd.block[p]
  BY <1>2
<1> QED BY <1>1, <1>3 DEF Fresh

LEMMA GetOrAllocData ==
  ASSUME Inv, DataInv, NEW c \in Clients, NEW k \in 0..(NDirect - 1), ext2_get_or_alloc_block(c, k),
         call.op = "idle"
  PROVE  DataInv'
<1>1. PICK o \in BlockFor(copy[c].inode, k) :
        /\ Owner(c) # None /\ copy[c].inode.block[k] = None
        /\ Holding(c, IF o.got = None THEN copy[c].inode
                      ELSE Pointing(copy[c].inode, k, o.got, 0))
        /\ UNCHANGED <<inode, data, call, kept, wrote>>
  BY DEF ext2_get_or_alloc_block
<1> DEFINE nd == IF o.got = None THEN copy[c].inode ELSE Pointing(copy[c].inode, k, o.got, 0)
<1>2. copy[c].inode.block \in Tables /\ k \in Indexes
  BY DEF Inv, FilesOK, NodesOK, GoodNode, Indexes
<1>3. Follows(copy[c].inode, nd) /\ Fresh(copy[c].inode, nd) /\ nd.size = copy[c].inode.size
  <2>1. CASE o.got = None
    BY <2>1, FollowsItself, FreshSame
  <2>2. CASE o.got # None
    <3>1. nd = Pointing(copy[c].inode, k, o.got, 0)
      BY <2>2
    <3> DEFINE old == copy[c].inode
               b == o.got
    <3>2. old.block \in Tables /\ k \in Indexes /\ old.block[k] = None
      BY <1>1, <1>2
    <3>3. nd = Pointing(old, k, b, 0)
      BY <3>1
    <3>4. b \notin Numbers(meta.bits, "blocks")
      BY <1>1, <1>2, <2>2, NewBlock
    <3> HIDE DEF nd, old, b
    <3>5. Follows(old, nd) /\ nd.size = old.size /\ nd.block = [old.block EXCEPT ![k] = b]
      BY <3>2, <3>3, PointingFollows
    <3>6. Fresh(old, nd)
      BY <3>2, <3>3, <3>4, PointingFresh
    <3> QED BY <3>5, <3>6 DEF old
  <2> QED BY <2>1, <2>2
<1>4. Holding(c, nd) /\ nd.size = Limit(c)
  BY <1>1, <1>3, LimitIdle
<1> HIDE DEF nd
<1> QED BY <1>1, <1>3, <1>4, HoldingData

LEMMA EndedSize ==
  ASSUME CallOK, call.op = "write", NEW nd, nd.size = copy[Writer].inode.size
  PROVE  Ended(nd).size = Limit(Writer)
  BY DEF Ended, Inode, Limit

LEMMA WriteEndData == ASSUME Inv, DataInv, WriteEnd PROVE DataInv'
<1>1. /\ call.op = "write" /\ Holding(Writer, Ended(copy[Writer].inode)) /\ call' = Idle
      /\ UNCHANGED <<inode, data, kept, wrote>>
  BY DEF WriteEnd
<1>2. Writer \in Clients /\ Owner(Writer) # None
  BY <1>1 DEF Inv, CallOK, Inos, None
<1>3. Ended(copy[Writer].inode).size = Limit(Writer)
  BY <1>1, EndedSize DEF Inv
<1>4. /\ Follows(copy[Writer].inode, Ended(copy[Writer].inode))
      /\ Fresh(copy[Writer].inode, Ended(copy[Writer].inode))
  BY EndedBlock, FollowsItself, FreshSame
<1>5. call'.op = "idle"
  BY <1>1 DEF Idle
<1> QED BY <1>1, <1>2, <1>3, <1>4, <1>5, HoldingData

LEMMA WriteNoBlockData == ASSUME Inv, DataInv, WriteNoBlock PROVE DataInv'
<1>1. /\ call.op = "write" /\ Holding(Writer, Ended(copy[Writer].inode)) /\ call' = Idle
      /\ UNCHANGED <<inode, data, kept, wrote>>
  BY DEF WriteNoBlock, MoreToWrite
<1>2. Writer \in Clients /\ Owner(Writer) # None
  BY <1>1 DEF Inv, CallOK, Inos, None
<1>3. Ended(copy[Writer].inode).size = Limit(Writer)
  BY <1>1, EndedSize DEF Inv
<1>4. /\ Follows(copy[Writer].inode, Ended(copy[Writer].inode))
      /\ Fresh(copy[Writer].inode, Ended(copy[Writer].inode))
  BY EndedBlock, FollowsItself, FreshSame
<1>5. call'.op = "idle"
  BY <1>1 DEF Idle
<1> QED BY <1>1, <1>2, <1>3, <1>4, <1>5, HoldingData

LEMMA WriteFailsData == ASSUME Inv, DataInv, WriteFails PROVE DataInv'
<1> DEFINE nd == copy[Writer].inode
           k == WriteIndex
<1>1. call.op = "write" /\ MoreToWrite /\ CallOK
  BY DEF WriteFails, MoreToWrite, Inv
<1>2. Writer \in Clients /\ Owner(Writer) # None /\ k \in Indexes
  BY <1>1, WritePlace DEF Inos, None, Indexes
<1>3. PICK o \in Succeeded(BlockFor(nd, k)) :
        /\ Holding(Writer, Ended(IF nd.block[k] # None THEN nd ELSE Pointing(nd, k, o.got, 1)))
        /\ call' = Idle /\ UNCHANGED <<inode, data, kept, wrote>>
  BY DEF WriteFails
<1> DEFINE nd1 == IF nd.block[k] # None THEN nd ELSE Pointing(nd, k, o.got, 1)
<1>4. nd.block \in Tables
  BY <1>2 DEF Inv, FilesOK, NodesOK, GoodNode
<1>5. Follows(nd, nd1) /\ Fresh(nd, nd1) /\ nd1.size = nd.size
  <2>1. CASE nd.block[k] # None
    BY <2>1, FollowsItself, FreshSame
  <2>2. CASE nd.block[k] = None
    <3>1. nd1 = Pointing(nd, k, o.got, 1)
      BY <2>2
    <3> DEFINE b == o.got
    <3>2. nd1 = Pointing(nd, k, b, 1)
      BY <3>1
    <3>3. b \notin Numbers(meta.bits, "blocks")
      BY <1>2, <2>2, NewBlock DEF Succeeded
    <3> HIDE DEF nd, nd1, k, b
    <3>4. Follows(nd, nd1) /\ nd1.size = nd.size /\ nd1.block = [nd.block EXCEPT ![k] = b]
      BY <1>2, <1>4, <2>2, <3>2, PointingFollows
    <3>5. Fresh(nd, nd1)
      BY <1>2, <1>4, <3>2, <3>3, PointingFresh
    <3> QED BY <3>4, <3>5
  <2> QED BY <2>1, <2>2
<1>6. Holding(Writer, Ended(nd1))
  BY <1>3
<1> HIDE DEF nd1
<1>7. Ended(nd1).size = Limit(Writer)
  BY <1>1, <1>5, EndedSize
<1>8. Follows(nd, Ended(nd1)) /\ Fresh(nd, Ended(nd1))
  BY <1>5, EndedBlock, FollowsItself, FollowsTwice, FreshEnded
<1>9. call'.op = "idle"
  BY <1>3 DEF Idle
<1> QED BY <1>2, <1>3, <1>6, <1>7, <1>8, <1>9, HoldingData

\* The block that a round of ext2_write_inode_data writes is in no other
\* place of any file.
LEMMA WrittenBlock ==
  ASSUME Inv, DataInv, NEW c \in Clients, Owner(c) \in Inos, NEW k \in Indexes,
         NEW o \in Succeeded(BlockFor(copy[c].inode, k))
  PROVE  /\ o.got \in Blocks /\ o.got # None
         /\ copy[c].inode.block[k] # None => o.got = copy[c].inode.block[k]
         /\ copy[c].inode.block[k] = None => o.got \notin Numbers(meta.bits, "blocks")
         /\ \A i \in Inos : ElsewhereNot(inode[i], o.got, k)
         /\ \A d \in Clients : Owner(d) \in Inos => ElsewhereNot(copy[d].inode, o.got, k)
<1> DEFINE nd == copy[c].inode
           b == nd.block[k]
           x == NewOf(b, o)
           e == faults = 0
           Mine(i) == OwnedBy(ptrs, inode, copy, i)
<1>1. /\ MetaOK(meta) /\ CountsOK(meta, e) /\ e \in BOOLEAN
      /\ NodesOK(inode, copy) /\ OwnersOK(meta, ptrs, inode, copy)
  BY DEF Inv, FilesOK
<1>2. GoodNode(nd) /\ Owns(ptrs, nd) \subseteq Mine(Owner(c)) /\ Owner(c) # None
  BY CopyOwned DEF Inos, None
<1>3. k \in Pointers /\ Indexes \subseteq Pointers
  BY ZeroPointer DEF Indexes
<1>4. b \in Blocks \union {None} /\ o \in BlockOr(meta, b) /\ o.got # None
  BY <1>2, <1>3 DEF GoodNode, Tables, BlockFor, BlockOr, Succeeded
<1> HIDE DEF b, e
<1>5. Extends(meta, o.meta, "blocks", x) /\ o.got \in Blocks /\ (b # None => o.got = b)
  BY <1>1, <1>4, BlockOrOK
<1>6. b = None => o.got \notin Numbers(meta.bits, "blocks")
  BY <1>4, <1>5 DEF NewOf, Extends
<1>7. b # None => o.got \in Mine(Owner(c))
  BY <1>2, <1>3, <1>5, PointsOwn DEF GoodNode, b
<1> HIDE DEF x
<1>8. \A i \in Inos : Mine(i) \subseteq Numbers(meta.bits, "blocks")
  BY <1>1 DEF OwnersOK
<1>9. \A i \in Inos : i # Owner(c) => o.got \notin Mine(i)
  <2>1. \A i \in Inos : i # Owner(c) => Mine(Owner(c)) \intersect Mine(i) = {}
    BY <1>1 DEF OwnersOK
  <2> HIDE DEF Mine
  <2> QED BY <1>6, <1>7, <1>8, <2>1
<1>10. ASSUME NEW n, n.block \in Tables, NEW i \in Inos, Owns(ptrs, n) \subseteq Mine(i),
              i = Owner(c) => InPlace(n, nd)
       PROVE  ElsewhereNot(n, o.got, k)
  <2> SUFFICES ASSUME NEW p \in Indexes, p # k, n.block[p] = o.got PROVE FALSE
    BY DEF ElsewhereNot
  <2>1. o.got \in Mine(i)
    BY <1>3, <1>4, <1>10, PointsOwn
  <2>2. i = Owner(c) /\ b # None
    BY <1>6, <1>8, <1>9, <2>1
  <2>3. n.block[p] = nd.block[k] /\ n.block[p] # None
    BY <1>4, <1>5, <2>2 DEF b
  <2> QED BY <1>10, <2>2, <2>3 DEF InPlace
<1>11. ASSUME NEW i \in Inos PROVE ElsewhereNot(inode[i], o.got, k)
  <2>1. inode[i].block \in Tables /\ Owns(ptrs, inode[i]) \subseteq Mine(i)
    BY <1>1 DEF NodesOK, GoodNode, OwnedBy
  <2>2. i = Owner(c) => InPlace(inode[i], nd)
    BY <1>2 DEF DataInv, Places, Owner
  <2> QED BY <1>10, <2>1, <2>2
<1>12. ASSUME NEW d \in Clients, Owner(d) \in Inos PROVE ElsewhereNot(copy[d].inode, o.got, k)
  <2>1. copy[d].inode.block \in Tables /\ Owns(ptrs, copy[d].inode) \subseteq Mine(Owner(d))
    BY <1>12, CopyOwned DEF GoodNode
  <2>2. Owner(d) = Owner(c) => InPlace(copy[d].inode, nd)
    <3>1. CASE d = c
      BY <1>2, <3>1, InPlaceSame
    <3>2. CASE d # c
      BY <1>2, <3>2 DEF DataInv, Places, Owner
    <3> QED BY <3>1, <3>2
  <2> QED BY <1>10, <1>12, <2>1, <2>2
<1> QED BY <1>4, <1>5, <1>6, <1>11, <1>12 DEF b

\* Those who read through another inode, after the round.
LEMMA OthersShow ==
  ASSUME NEW d \in [Blocks -> BlockData], NEW b \in Blocks, b # None, NEW lost \in BOOLEAN,
         NEW nd, nd.size \in Nat, ElsewhereNot(nd, b, WriteIndex), NEW h, Shows(d, nd, h, nd.size)
  PROVE  Shows([d EXCEPT ![b] = Filled(IF lost THEN ZeroBlock ELSE d[b])], nd,
               RememberedBy(nd, h, b, lost), nd.size)
<1> DEFINE h2 == RememberedBy(nd, h, b, lost)
           n == nd.size
<1>1. \A at \in Cells : h2[at] =
        IF ~InBlock(at) \/ ~(at < n /\ nd.block[WriteIndex] = b) THEN h[at]
        ELSE IF InPiece(at) THEN Given(at) ELSE IF lost THEN Unknown ELSE h[at]
  BY DEF RememberedBy, Remembered, Cells
<1> HIDE DEF h2
<1>2. Learns(h, h2, lost, nd, b, n)
  <2> SUFFICES ASSUME NEW at \in Cells, h2[at] # Unknown, InBlock(at), nd.block[WriteIndex] = b
               PROVE  /\ at < n
                      /\ \/ InPiece(at) /\ h2[at] = Given(at)
                         \/ ~InPiece(at) /\ ~lost /\ h2[at] = h[at]
    BY <1>1 DEF Learns
  <2>1. h[at] # Unknown => at < n
    BY DEF Shows
  <2>2. at < n
    BY <1>1, <2>1
  <2> QED BY <1>1, <2>2
<1>3. Follows(nd, nd) /\ n \in Nat /\ n <= n /\ Shows(d, nd, h, n)
  BY FollowsItself
<1> HIDE DEF n
<1>4. Shows([d EXCEPT ![b] = Filled(IF lost THEN ZeroBlock ELSE d[b])], nd, h2, n)
  BY <1>2, <1>3, ShowsWritten
<1> QED BY <1>4 DEF h2, n

\* The copy after a round of the write.
LEMMA WrittenCopy ==
  ASSUME NEW nd, nd.block \in Tables, NEW k \in Indexes, NEW b, b # None, ElsewhereNot(nd, b, k),
         nd.block[k] # None => b = nd.block[k],
         NEW nd2, nd2 = IF nd.block[k] = None THEN Pointing(nd, k, b, 1) ELSE nd
  PROVE  nd2.block[k] = b /\ Follows(nd, nd2) /\ nd2.size = nd.size /\ ElsewhereNot(nd2, b, k)
<1>1. CASE nd.block[k] # None
  BY <1>1, FollowsItself
<1>2. CASE nd.block[k] = None
  <2>1. nd2 = Pointing(nd, k, b, 1)
    BY <1>2
  <2>2. Follows(nd, nd2) /\ nd2.size = nd.size /\ nd2.block = [nd.block EXCEPT ![k] = b]
    BY <1>2, <2>1, PointingFollows
  <2>3. DOMAIN nd.block = Pointers /\ Indexes \subseteq Pointers
    BY ZeroPointer DEF Tables, Indexes
  <2>4. nd2.block[k] = b /\ \A p \in Indexes : p # k => nd2.block[p] = nd.block[p]
    BY <2>2, <2>3
  <2> QED BY <2>2, <2>4 DEF ElsewhereNot
<1> QED BY <1>1, <1>2

LEMMA WriteBlockData == ASSUME Inv, DataInv, WriteBlock PROVE DataInv'
<1>1. MoreToWrite /\ CallOK /\ call.op = "write"
  BY DEF WriteBlock, Inv, MoreToWrite
<1>2. PICK c \in Clients : c = Writer
  BY <1>1, WritePlace
<1> DEFINE nd == copy[Writer].inode
           k == WriteIndex
<1>3. Owner(Writer) \in Inos /\ Owner(Writer) # None /\ k \in Indexes /\ WriteAt \in Nat /\ Piece \in Nat
  BY <1>2, <1>1, WritePlace DEF Inos, None, Indexes
<1>4. PICK o \in Succeeded(BlockFor(nd, k)), lost \in BOOLEAN :
        /\ Holding(Writer, IF nd.block[k] = None THEN Pointing(nd, k, o.got, 1) ELSE nd)
        /\ data' = [data EXCEPT ![o.got] = Filled(IF lost THEN ZeroBlock ELSE @)]
        /\ call' = [call EXCEPT !.done = @ + Piece]
        /\ wrote' = [d \in Clients |->
                      IF d = Writer THEN Remembered(wrote[d], lost, LAMBDA at : TRUE)
                      ELSE RememberedBy(copy[d].inode, wrote[d], o.got, lost)]
        /\ kept' = [j \in Inos |-> RememberedBy(inode[j], kept[j], o.got, lost)]
        /\ UNCHANGED inode
  BY DEF WriteBlock
<1> DEFINE b == o.got
           nd2 == IF nd.block[k] = None THEN Pointing(nd, k, b, 1) ELSE nd
<1>5. /\ b \in Blocks /\ b # None /\ (nd.block[k] # None => b = nd.block[k])
      /\ nd.block[k] = None => b \notin Numbers(meta.bits, "blocks")
      /\ \A j \in Inos : ElsewhereNot(inode[j], b, k)
      /\ \A d \in Clients : Owner(d) \in Inos => ElsewhereNot(copy[d].inode, b, k)
  BY <1>2, <1>3, WrittenBlock
<1>6. /\ DOMAIN copy = Clients /\ data \in [Blocks -> BlockData] /\ nd.block \in Tables
      /\ ElsewhereNot(nd, b, k)
  BY <1>2, <1>3, <1>5 DEF Inv, OtherTypes, FilesOK, NodesOK, GoodNode
<1>7. data' = [data EXCEPT ![b] = Filled(IF lost THEN ZeroBlock ELSE data[b])]
  BY <1>4
<1>8. Holding(c, nd2)
  BY <1>2, <1>4
<1>9. nd2.block[k] = b /\ Follows(nd, nd2) /\ nd2.size = nd.size /\ ElsewhereNot(nd2, b, k)
  <2> HIDE DEF nd, k, b
  <2> QED BY <1>3, <1>5, <1>6, WrittenCopy
<1>10. Fresh(nd, nd2)
  <2> HIDE DEF nd, k, b
  <2>1. CASE nd.block[k] = None
    BY <1>3, <1>5, <1>6, <2>1, PointingFresh
  <2>2. CASE nd.block[k] # None
    BY <2>2, FreshSame
  <2> QED BY <2>1, <2>2
<1>11. /\ copy'[c].inode = nd2 /\ copy'[c].ino = Owner(c)
      /\ \A d \in Clients : d # c => copy'[d] = copy[d]
  <2> HIDE DEF nd2
  <2> QED BY <1>2, <1>3, <1>6, <1>8 DEF Holding
<1>12. Places(inode', copy')
  <2>1. Fresh(copy[c].inode, nd2) /\ Owner(c) # None /\ UNCHANGED inode
    BY <1>2, <1>3, <1>4, <1>10
  <2> HIDE DEF nd2
  <2> QED BY <1>8, <2>1, PlacesStep
<1>13. /\ DOMAIN wrote' = Clients /\ DOMAIN kept' = Inos
       /\ \A d \in Clients : d # c => wrote'[d] = RememberedBy(copy[d].inode, wrote[d], b, lost)
       /\ \A j \in Inos : kept'[j] = RememberedBy(inode[j], kept[j], b, lost)
  <2> HIDE DEF nd, k
  <2> QED BY <1>2, <1>4
<1>14. \A at \in Cells : wrote'[c][at] =
         IF ~InBlock(at) THEN wrote[c][at] ELSE IF InPiece(at) THEN Given(at)
         ELSE IF lost THEN Unknown ELSE wrote[c][at]
  <2>1. wrote'[c] = Remembered(wrote[c], lost, LAMBDA at : TRUE)
    BY <1>2, <1>4
  <2> QED BY <2>1 DEF Remembered, Cells
<1>15. /\ call'.op = "write" /\ Writer' = Writer /\ WriteAt' = WriteAt + Piece
  <2>1. call.off \in Nat /\ call.done \in Nat
    BY <1>1 DEF CallOK
  <2>2. call'.op = call.op /\ call'.client = call.client /\ call'.off = call.off
        /\ call'.done = call.done + Piece
    BY <1>1, <1>4 DEF CallOK
  <2>3. call.off + (call.done + Piece) = (call.off + call.done) + Piece
    BY <1>3, <2>1
  <2> QED BY <1>1, <2>2, <2>3 DEF Writer, WriteAt
<1>16. inode' = inode
  BY <1>4
<1>17. \A d \in Clients : Owner(d)' = Owner(d)
  BY <1>11 DEF Owner
<1>18. \A d \in Clients : d # c => Limit(d)' = Limit(d) /\ Limit(d) = copy[d].inode.size
  BY <1>2, <1>11, <1>15 DEF Limit
<1>19. nd.size \in Nat /\ Limit(c) \in Nat
  BY <1>2, <1>3, LimitNat DEF DataInv, CopiesShow
<1>20. Limit(c)' \in Nat /\ Limit(c) <= Limit(c)' /\ WriteAt + Piece <= Limit(c)'
  <2>1. Limit(c) = IF WriteAt > nd.size THEN WriteAt ELSE nd.size
    BY <1>2, <1>1 DEF Limit
  <2>2. Limit(c)' = IF WriteAt + Piece > nd.size THEN WriteAt + Piece ELSE nd.size
    BY <1>2, <1>9, <1>11, <1>15 DEF Limit
  <2> HIDE DEF nd
  <2> QED BY <1>3, <1>19, <2>1, <2>2
<1>21. Shows(data, nd, wrote[c], Limit(c))
  BY <1>2, <1>3 DEF DataInv, CopiesShow
<1> HIDE DEF nd, k, b, nd2
<1>22. Learns(wrote[c], wrote'[c], lost, nd2, b, Limit(c)')
  <2> SUFFICES ASSUME NEW at \in Cells, wrote'[c][at] # Unknown, InBlock(at)
               PROVE  /\ at < Limit(c)'
                      /\ \/ InPiece(at) /\ wrote'[c][at] = Given(at)
                         \/ ~InPiece(at) /\ ~lost /\ wrote'[c][at] = wrote[c][at]
    BY <1>9, <1>14 DEF Learns, k
  <2>1. at \in Nat
    BY CellPlace
  <2>2. CASE InPiece(at)
    <3>1. at < WriteAt + Piece
      BY <2>2 DEF InPiece
    <3>2. at < Limit(c)'
      BY <1>3, <1>20, <2>1, <3>1
    <3> QED BY <1>14, <2>2, <3>2
  <2>3. CASE ~InPiece(at)
    <3>1. ~lost /\ wrote'[c][at] = wrote[c][at]
      BY <1>14, <2>3
    <3>2. at < Limit(c)
      BY <1>21, <3>1 DEF Shows
    <3>3. at < Limit(c)'
      BY <1>19, <1>20, <2>1, <3>2
    <3> QED BY <2>3, <3>1, <3>3
  <2> QED BY <2>2, <2>3
<1>23. Shows(data', nd2, wrote'[c], Limit(c)')
  <2>1. ElsewhereNot(nd2, b, WriteIndex)
    BY <1>9 DEF k
  <2>2. /\ data \in [Blocks -> BlockData] /\ b \in Blocks /\ b # None /\ lost \in BOOLEAN
        /\ Follows(nd, nd2) /\ Limit(c) \in Nat /\ Limit(c)' \in Nat /\ Limit(c) <= Limit(c)'
    BY <1>5, <1>6, <1>9, <1>19, <1>20
  <2>3. Shows([data EXCEPT ![b] = Filled(IF lost THEN ZeroBlock ELSE data[b])], nd2, wrote'[c], Limit(c)')
    BY <1>21, <1>22, <2>1, <2>2, ShowsWritten
  <2> QED BY <1>7, <2>3
<1>24. DiskShows'
  <2>1. ASSUME NEW j \in Inos, inode[j].mode = "reg"
        PROVE  Shows(data', inode[j], kept'[j], inode[j].size)
    <3>1. Shows(data, inode[j], kept[j], inode[j].size) /\ inode[j].size \in Nat
      BY <2>1 DEF DataInv, DiskShows
    <3>2. ElsewhereNot(inode[j], b, WriteIndex)
      BY <1>5 DEF k
    <3>3. Shows(data', inode[j], RememberedBy(inode[j], kept[j], b, lost), inode[j].size)
      BY <1>5, <1>6, <1>7, <3>1, <3>2, OthersShow
    <3> QED BY <1>13, <3>3
  <2> QED BY <1>13, <1>16, <2>1 DEF DataInv, DiskShows
<1>25. CopiesShow'
  <2>1. \A d \in Clients : copy'[d].inode.size \in Nat
    BY <1>9, <1>11, <1>19 DEF DataInv, CopiesShow
  <2>2. ASSUME NEW d \in Clients, Owner(d) # None
        PROVE  Shows(data', copy'[d].inode, wrote'[d], Limit(d)')
    <3>1. CASE d = c
      BY <1>11, <1>23, <3>1
    <3>2. CASE d # c
      <4>1. /\ Shows(data, copy[d].inode, wrote[d], copy[d].inode.size)
            /\ copy[d].inode.size \in Nat
        BY <1>18, <2>2, <3>2 DEF DataInv, CopiesShow
      <4>2. ElsewhereNot(copy[d].inode, b, WriteIndex)
        BY <1>5, <2>2 DEF Inv, FilesOK, NodesOK, Owner, k
      <4>3. Shows(data', copy[d].inode, RememberedBy(copy[d].inode, wrote[d], b, lost), copy[d].inode.size)
        BY <1>5, <1>6, <1>7, <4>1, <4>2, OthersShow
      <4> QED BY <1>11, <1>13, <1>18, <3>2, <4>3
    <3> QED BY <3>1, <3>2
  <2> QED BY <1>13, <1>17, <2>1, <2>2 DEF CopiesShow
<1> QED BY <1>12, <1>24, <1>25 DEF DataInv

\* Every step keeps what readers find.
LEMMA NextData == Inv /\ Inv' /\ DirInv /\ DataInv /\ [Next]_vars => DataInv'
<1> SUFFICES ASSUME Inv, Inv', DirInv, DataInv, [Next]_vars PROVE DataInv'
  OBVIOUS
<1>1. ASSUME call.op = "idle", Calls PROVE DataInv'
  BY <1>1, CreateData, ReadInodeData, WriteInodeData, ForgetData, GetOrAllocData, StartWriteData
  DEF Calls
<1>2. CASE UNCHANGED vars
  BY <1>2, DataSame DEF vars
<1> QED BY <1>1, <1>2, WriteBlockData, WriteEndData, WriteNoBlockData, WriteFailsData DEF Next

-----------------------------------------------------------------------------

\* A set of numbers up to w has a greatest element.
LEMMA GreatestIn ==
  ASSUME NEW w \in Nat, NEW S \in SUBSET (0..w), S # {}
  PROVE  \E x \in S : \A y \in S : y <= x
<1> DEFINE T == {w - y : y \in S}
<1>1. T \in SUBSET Nat /\ T # {}
  <2>1. \A y \in S : w - y \in Nat
    OBVIOUS
  <2> QED BY <2>1
<1>2. PICK m \in T : \A t \in T : m <= t
  <2> HIDE DEF T
  <2> QED BY <1>1, LeastIn
<1>3. PICK x \in S : m = w - x
  BY <1>2
<1>4. ASSUME NEW y \in S PROVE y <= x
  <2>1. w - x <= w - y
    BY <1>2, <1>3
  <2>2. x \in Nat /\ y \in Nat
    OBVIOUS
  <2> QED BY <2>1, <2>2
<1> QED BY <1>4

\* How far a read from off may come, and how far it can.
Readable(nd, off, len) ==
  {n \in 0..ToRead(nd, off, len) : \A i \in 0..(n - 1) : CellBlock(nd, off + i) # None}

LEMMA WordNat == WordMod \in Nat \ {0} /\ MaxCells \in Nat /\ 2 * MaxCells < WordMod
<1>1. MaxCells \in Nat
  BY Sizes DEF MaxCells
<1>2. WordMod \in Nat /\ 2 * MaxCells < WordMod
  BY Ext2Assumption
<1> QED BY <1>1, <1>2

LEMMA ToReadNat ==
  ASSUME NEW nd, nd.size \in Nat, NEW off \in Nat, NEW len \in Nat
  PROVE  /\ ToRead(nd, off, len) \in Nat
         /\ off < nd.size /\ len > 0 /\ len < WordMod => ToRead(nd, off, len) >= 1
<1> DEFINE n == len % WordMod
           m == (off + n) % WordMod
           z == nd.size
<1>1. WordMod \in Nat \ {0}
  BY WordNat
<1>2. n \in Nat /\ (len < WordMod => n = len)
  BY <1>1
<1>3. m \in Nat
  BY <1>1, <1>2
<1>4. ToRead(nd, off, len) = IF off >= z THEN 0 ELSE IF m > z THEN z - off ELSE n
  BY DEF ToRead
<1>5. z \in Nat
  OBVIOUS
<1> HIDE DEF n, m, z
<1>6. off >= z \/ (off < z /\ z - off \in Nat /\ z - off >= 1)
  BY <1>5
<1>7. ToRead(nd, off, len) \in Nat
  BY <1>2, <1>4, <1>6
<1>8. ASSUME off < z, len > 0, len < WordMod PROVE ToRead(nd, off, len) >= 1
  BY <1>2, <1>4, <1>5, <1>6, <1>8
<1> QED BY <1>7, <1>8 DEF z

\* No sum wraps while offset and length are those of a file.
LEMMA ToReadShort ==
  ASSUME NEW nd, nd.size \in Nat, NEW len \in 0..MaxCells
  PROVE  ToRead(nd, 0, len) = Smaller(nd.size, len)
<1>1. WordMod \in Nat \ {0} /\ MaxCells \in Nat /\ 2 * MaxCells < WordMod
  BY WordNat
<1>2. len \in Nat /\ len < WordMod
  BY <1>1
<1>3. len % WordMod = len /\ 0 + len = len
  BY <1>1, <1>2
<1>4. ToRead(nd, 0, len) = IF 0 >= nd.size THEN 0 ELSE IF len > nd.size THEN nd.size - 0 ELSE len
  BY <1>3 DEF ToRead
<1> DEFINE z == nd.size
<1>5. z \in Nat /\ ToRead(nd, 0, len) = IF 0 >= z THEN 0 ELSE IF len > z THEN z - 0 ELSE len
  BY <1>4
<1> HIDE DEF z
<1>6. ToRead(nd, 0, len) = Smaller(z, len)
  BY <1>2, <1>5 DEF Smaller
<1> QED BY <1>6 DEF z

\* A read comes as far as it can, to n.
ReadTo(nd, off, len, n) ==
  /\ n \in Readable(nd, off, len)
  /\ \A y \in Readable(nd, off, len) : y <= n
  /\ n = CHOOSE x \in Readable(nd, off, len) : \A y \in Readable(nd, off, len) : y <= x
  /\ ext2_read_inode_data(nd, off, len) =
       [i \in 1..n |-> data[CellBlock(nd, off + i - 1)][(off + i - 1) % CellsPerBlock]]

LEMMA ReadData ==
  ASSUME NEW nd, nd.size \in Nat, NEW off \in Nat, NEW len \in Nat
  PROVE  \E n : ReadTo(nd, off, len, n)
<1> DEFINE U == Readable(nd, off, len)
           w == ToRead(nd, off, len)
           n == CHOOSE x \in U : \A y \in U : y <= x
<1>1. w \in Nat
  BY ToReadNat
<1>2. U \in SUBSET (0..w) /\ 0 \in U
  <2> HIDE DEF w
  <2>1. 0 \in 0..w /\ 0..(0 - 1) = {}
    BY <1>1
  <2> QED BY <2>1 DEF Readable, w
<1>3. ext2_read_inode_data(nd, off, len) =
        [i \in 1..n |-> data[CellBlock(nd, off + i - 1)][(off + i - 1) % CellsPerBlock]]
  BY DEF ext2_read_inode_data, Readable
<1> HIDE DEF U, w
<1>4. \E x \in U : \A y \in U : y <= x
  BY <1>1, <1>2, GreatestIn
<1>5. n \in U /\ \A y \in U : y <= n
  BY <1>4
<1> HIDE DEF n
<1>6. n = CHOOSE x \in U : \A y \in U : y <= x
  BY DEF n
<1>7. ReadTo(nd, off, len, n)
  BY <1>3, <1>5, <1>6 DEF U, ReadTo
<1> QED BY <1>7

\* A cell that can be written is behind a direct pointer.
LEMMA DirectCell ==
  ASSUME NEW nd, NEW at \in Cells
  PROVE  CellBlock(nd, at) = nd.block[at \div CellsPerBlock]
<1> DEFINE k == at \div CellsPerBlock
<1>1. k \in Indexes
  BY CellPlace
<1> HIDE DEF k
<1>2. k < NDirect
  BY <1>1, Sizes DEF Indexes
<1>3. ext2_get_block_num(nd, k) = nd.block[k]
  BY <1>2 DEF ext2_get_block_num
<1> QED BY <1>3 DEF CellBlock, k

\* What is shown is read.
LEMMA ShownRead ==
  ASSUME NEW nd, nd.size \in Nat, NEW h, Shows(data, nd, h, nd.size)
  PROVE  Reads(nd, h)
<1> SUFFICES ASSUME NEW off \in Cells, NEW len \in 1..(WordMod - 1)
             PROVE  LET r == ext2_read_inode_data(nd, off, len)
                    IN  /\ h[off] # Unknown => r # <<>>
                        /\ \A i \in DOMAIN r : off + i <= MaxCells => h[off + i - 1] \in {Unknown, r[i]}
  BY DEF Reads, Cells
<1> DEFINE r == ext2_read_inode_data(nd, off, len)
<1>1. off \in Nat /\ len \in Nat /\ len > 0 /\ len < WordMod /\ MaxCells \in Nat
  BY WordNat, CellPlace
<1>2. PICK n : ReadTo(nd, off, len, n)
  BY <1>1, ReadData
<1>3. /\ n \in Readable(nd, off, len) /\ \A y \in Readable(nd, off, len) : y <= n
      /\ r = [i \in 1..n |-> data[CellBlock(nd, off + i - 1)][(off + i - 1) % CellsPerBlock]]
  BY <1>2 DEF ReadTo
<1>4. n \in Nat /\ \A i \in 0..(n - 1) : CellBlock(nd, off + i) # None
  BY <1>1, <1>3, ToReadNat DEF Readable
<1> HIDE DEF r
<1>5. ASSUME h[off] # Unknown PROVE r # <<>>
  <2>1. off < nd.size /\ nd.block[off \div CellsPerBlock] # None
    BY <1>5 DEF Shows
  <2>2. CellBlock(nd, off + 0) # None
    <3>1. off + 0 = off
      BY <1>1
    <3> QED BY <2>1, <3>1, DirectCell
  <2>3. 1 \in 0..ToRead(nd, off, len) /\ 0..(1 - 1) = {0}
    BY <1>1, <2>1, ToReadNat
  <2>4. 1 \in Readable(nd, off, len)
    BY <2>2, <2>3 DEF Readable
  <2>5. 1 \in DOMAIN r
    BY <1>3, <1>4, <2>4
  <2> QED BY <2>5
<1>6. ASSUME NEW i \in DOMAIN r, off + i <= MaxCells PROVE h[off + i - 1] \in {Unknown, r[i]}
  <2> DEFINE at == off + i - 1
  <2>1. i \in 1..n /\ r[i] = data[CellBlock(nd, at)][at % CellsPerBlock]
    BY <1>3
  <2>2. at \in Cells
    BY <1>1, <1>4, <1>6, <2>1 DEF Cells
  <2> HIDE DEF at
  <2>3. CellBlock(nd, at) = nd.block[at \div CellsPerBlock]
    BY <2>2, DirectCell
  <2>4. h[at] # Unknown => data[nd.block[at \div CellsPerBlock]][at % CellsPerBlock] = h[at]
    BY <2>2 DEF Shows
  <2>5. h[at] \in {Unknown, r[i]}
    BY <2>1, <2>3, <2>4
  <2> QED BY <2>5 DEF at
<1> QED BY <1>5, <1>6 DEF r

\* ext2_read_file reads what ext2_read_inode_data reads.
LEMMA ReadsAgree ==
  ASSUME NEW name, NEW nd, nd = inode[ext2_find_file_in_dir(root, name)], nd.size \in Nat,
         NEW len \in 0..MaxCells
  PROVE  ext2_read_file(name, len) = ext2_read_inode_data(nd, 0, len)
<1>1. MaxCells \in Nat /\ len \in Nat /\ 0 \in Nat
  BY Sizes DEF MaxCells
<1> DEFINE want == Smaller(nd.size, len)
           V == {n \in 0..Smaller(want, MaxCells) :
                   \A i \in 0..(n - 1) : nd.block[i \div CellsPerBlock] # None}
           U == Readable(nd, 0, len)
<1>2. ToRead(nd, 0, len) = Smaller(want, MaxCells) /\ ToRead(nd, 0, len) \in 0..MaxCells
  <2>1. ToRead(nd, 0, len) = want
    BY ToReadShort
  <2> QED BY <1>1, <2>1 DEF Smaller
<1>3. V = U
  <2> DEFINE w == ToRead(nd, 0, len)
  <2>1. w \in 0..MaxCells /\ w = Smaller(want, MaxCells)
    BY <1>2
  <2> HIDE DEF w, want
  <2>2. ASSUME NEW n \in 0..w
        PROVE  (\A i \in 0..(n - 1) : nd.block[i \div CellsPerBlock] # None)
                 <=> (\A i \in 0..(n - 1) : CellBlock(nd, 0 + i) # None)
    <3>1. ASSUME NEW i \in 0..(n - 1) PROVE CellBlock(nd, 0 + i) = nd.block[i \div CellsPerBlock]
      <4>1. i \in Cells /\ 0 + i = i
        BY <1>1, <2>1 DEF Cells
      <4> QED BY <4>1, DirectCell
    <3> QED BY <3>1
  <2>3. U = {n \in 0..w : \A i \in 0..(n - 1) : CellBlock(nd, 0 + i) # None}
    BY DEF Readable, w
  <2>4. V = {n \in 0..w : \A i \in 0..(n - 1) : nd.block[i \div CellsPerBlock] # None}
    BY <2>1
  <2> HIDE DEF U, V
  <2> QED BY <2>2, <2>3, <2>4
<1> DEFINE m == CHOOSE x \in V : \A y \in V : y <= x
<1>4. ext2_read_file(name, len) =
        [i \in 1..m |-> data[nd.block[(i - 1) \div CellsPerBlock]][(i - 1) % CellsPerBlock]]
  BY DEF ext2_read_file
<1>5. PICK n : ReadTo(nd, 0, len, n)
  BY <1>1, ReadData
<1>6. /\ n \in U /\ n = CHOOSE x \in U : \A y \in U : y <= x
      /\ ext2_read_inode_data(nd, 0, len) =
           [i \in 1..n |-> data[CellBlock(nd, 0 + i - 1)][(0 + i - 1) % CellsPerBlock]]
  BY <1>5 DEF ReadTo
<1>7. n \in 0..MaxCells
  BY <1>1, <1>2, <1>6 DEF Readable
<1> HIDE DEF V, U
<1>8. m = n
  BY <1>3, <1>6
<1> HIDE DEF m
<1>9. ASSUME NEW i \in 1..n
      PROVE  data[CellBlock(nd, 0 + i - 1)][(0 + i - 1) % CellsPerBlock]
               = data[nd.block[(i - 1) \div CellsPerBlock]][(i - 1) % CellsPerBlock]
  <2>1. i - 1 \in Cells /\ 0 + i - 1 = i - 1
    BY <1>1, <1>7 DEF Cells
  <2>2. CellBlock(nd, 0 + i - 1) = nd.block[(i - 1) \div CellsPerBlock]
    BY <2>1, DirectCell
  <2> QED BY <2>1, <2>2
<1> QED BY <1>4, <1>6, <1>8, <1>9

LEMMA DataReads == Inv /\ DirInv /\ DataInv => ReadsBack
<1> SUFFICES ASSUME Inv, DirInv, DataInv PROVE ReadsBack
  OBVIOUS
<1>1. ASSUME call.op = "idle", NEW c \in Clients, Owner(c) # None
      PROVE  Reads(copy[c].inode, wrote[c])
  <2>1. copy[c].inode.size \in Nat /\ Shows(data, copy[c].inode, wrote[c], copy[c].inode.size)
    BY <1>1, LimitIdle DEF DataInv, CopiesShow
  <2> QED BY <2>1, ShownRead
<1>2. ASSUME NEW i \in Inos, inode[i].mode = "reg" PROVE Reads(inode[i], kept[i])
  <2>1. inode[i].size \in Nat /\ Shows(data, inode[i], kept[i], inode[i].size)
    BY <1>2 DEF DataInv, DiskShows
  <2> QED BY <2>1, ShownRead
<1>3. ASSUME NEW n \in ext2_list_root(root), NEW len \in 0..MaxCells
      PROVE  ext2_read_file(n, len)
               = ext2_read_inode_data(inode[ext2_find_file_in_dir(root, n)], 0, len)
  <2>1. Scannable(recs, root)
    BY DEF DirInv, DirOK, root
  <2>2. ext2_find_file_in_dir(root, n) # None
    BY <2>1, ListedFound
  <2>3. ext2_find_file_in_dir(root, n) \in Inos
    BY <2>1, <2>2, FoundIn
  <2>4. inode[ext2_find_file_in_dir(root, n)].size \in Nat
    BY <2>3 DEF DataInv, DiskShows
  <2> QED BY <2>4, ReadsAgree
<1> QED BY <1>1, <1>2, <1>3 DEF ReadsBack

\* What a client has written through its copy of an inode is what it reads
\* back, together with what others have put into blocks the copy has too, and
\* what everybody reads once that copy is written back, until another copy of
\* the same inode is.  So for any number of files, of clients and of copies of
\* one inode, wherever a write starts and ends and whichever of its blocks could
\* not be had, read or written, and however long the buffer of the reader is.
\* ext2_read_file and ext2_read_inode_data agree on every file of the root.
THEOREM WritesReadBack == Spec => []ReadsBack
<1> DEFINE I == Inv /\ DirInv /\ DataInv
<1>1. Init => I
  BY InitInv, InitDir, InitData
<1>2. I /\ [Next]_vars => I'
  BY NextInv, NextDir, NextData
<1>3. I => ReadsBack
  BY DataReads
<1> HIDE DEF I
<1> QED BY <1>1, <1>2, <1>3, PTL DEF Spec

=============================================================================
