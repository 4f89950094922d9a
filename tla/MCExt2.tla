------------------------------- MODULE MCExt2 -------------------------------
(***************************************************************************)
(* The ext2 driver on volumes of two groups with nine blocks and six       *)
(* inodes: five on which files are created and written, those with a file  *)
(* behind indirect blocks, and those with a small tree of directories and  *)
(* links.  A directory block has room for four or five entries.            *)
(***************************************************************************)
EXTENDS Ext2Path, TLC

Ino0(mode) == Inode(mode, 0, 0, NoPointers, <<>>)
Points(f) == [p \in Pointers |-> IF p \in DOMAIN f THEN f[p] ELSE None]
DirOf(b) == Inode("dir", BlockBytes, 1, Points(0 :> b), <<>>)

\* A volume: the blocks and inodes that are free, the inodes in use, the
\* directory blocks and the indirect blocks.
Volume(freeB, freeI, inodes, dirs, tree) ==
  LET bits == [k \in Kinds |-> [g \in Groups |->
                {i \in Bits(k) : Number(k, g, i) \notin
                                   (IF k = "blocks" THEN freeB ELSE freeI)}]]
      free == [k \in Kinds |-> [g \in Groups |-> Cardinality(Bits(k) \ bits[k][g])]]
  IN  [bits  |-> bits, free |-> free,
       super |-> [k \in Kinds |-> SumOf(free[k])],
       inode |-> [i \in Inos |-> IF i \in DOMAIN inodes THEN inodes[i] ELSE Ino0("none")],
       recs  |-> [b \in Blocks |-> IF b \in DOMAIN dirs THEN dirs[b] ELSE <<>>],
       ptrs  |-> [b \in Blocks |-> IF b \in DOMAIN tree THEN tree[b]
                                   ELSE [i \in 0..(PtrsPerBlock - 1) |-> None]]]

Dot == Rec(2, 12, ".")
Root(last) == <<Dot, Rec(2, 12, ".."), last>>

\* One file, of which both clients have copies, and two free blocks, in two
\* groups.
Single == Volume({5, 8}, {}, 2 :> DirOf(4) @@ 3 :> Ino0("reg"), 4 :> Root(Rec(3, 32, "f")), <<>>)
\* Two files, one of them with a block, and one free block for both.
Pair == Volume({8}, {}, 2 :> DirOf(4) @@ 3 :> Ino0("reg")
                          @@ 4 :> Inode("reg", 2, 1, Points(0 :> 7), <<>>),
               4 :> <<Dot, Rec(2, 12, ".."), Rec(3, 12, "f"), Rec(4, 20, "g")>>, <<>>)
\* Free inodes and a deleted entry, but no free block.
Full == Volume({}, {3, 4, 5}, 2 :> DirOf(4),
               4 :> <<Dot, Rec(0, 12, "f"), Rec(2, 32, "..")>>, <<>>)
\* One free inode and one free block.
Narrow == Volume({8}, {5}, 2 :> DirOf(4), 4 :> <<Dot, Rec(2, 44, "..")>>, <<>>)
\* A root directory without a block.
Bare == Volume({5, 8}, {3, 5}, 2 :> Ino0("dir"), <<>>, <<>>)

\* A file with one block behind one to three indirect blocks: s says which
\* pointer leads on in each of them.
Chain == <<9, 8, 7, 5>>
Deep(s) ==
  LET n == Len(s)
  IN  Volume({}, {},
             2 :> DirOf(4) @@
             3 :> Inode("reg", 40, 1, Points(NDirect + n - 1 :> Chain[4 - n]), <<>>),
             4 :> Root(Rec(3, BlockBytes - 24, "f")),
             [b \in {Chain[i] : i \in (4 - n)..3} |->
                LET i == CHOOSE j \in (4 - n)..3 : Chain[j] = b
                IN  [p \in 0..(PtrsPerBlock - 1) |->
                       IF p = s[i - (4 - n) + 1] THEN Chain[i + 1] ELSE None]])
DeepFiles == {Deep(s) : s \in UNION {[1..n -> 0..(PtrsPerBlock - 1)] : n \in 1..3}}

\* A root directory of three blocks, the last of them behind an indirect one.
Wide == Volume({}, {}, 2 :> Inode("dir", 3 * BlockBytes, 3, Points(0 :> 4 @@ 1 :> 5 @@ 2 :> 7), <<>>)
                         @@ 3 :> Ino0("reg") @@ 4 :> Ino0("reg"),
               4 :> <<Dot, Rec(2, BlockBytes - 12, "..")>> @@ 5 :> <<Rec(3, BlockBytes, "f")>>
                 @@ 8 :> <<Rec(4, BlockBytes, "g")>>,
               7 :> (0 :> 8 @@ 1 :> 0))

\* Every small tree with directories and links: the root holds f and g.
Targets == {<<"f">>, <<"g">>, <<"f", "g">>, <<"g", "f">>, <<"..", "f">>}
Link(t) == Inode("lnk", 1, 0, NoPointers, t)
Entries(f, g) == <<Dot, Rec(2, 12, ".."), Rec(f, 12, "f"), Rec(g, BlockBytes - 36, "g")>>
Nodes(b) == {[ino |-> DirOf(b), recs |-> Entries(f, g)] : f, g \in {0, 3, 4}}
              \union {[ino |-> i, recs |-> <<>>] : i \in {Ino0("reg")} \union {Link(t) : t \in Targets}}
Tree(x, y) == Volume({}, {}, 2 :> DirOf(4) @@ 3 :> x.ino @@ 4 :> y.ino,
                     4 :> Entries(3, 4) @@ 5 :> x.recs @@ 7 :> y.recs, <<>>)
Trees == {Tree(x, y) : x \in Nodes(5), y \in Nodes(7)}

MCImages == {Single, Pair, Full, Narrow, Bare, Wide} \union DeepFiles \union Trees
MCPaths == {<<>>} \union
  UNION {[1..n -> {"f", "g"}] : n \in 1..2} \union
  {<<"f", "..", "g">>, <<"f", ".", "g", "f">>, <<"g", "f", "f", "f">>}
MCNames == {".", "..", "f", "g", "longer"}
MCNameLen == "." :> 1 @@ ".." :> 2 @@ "f" :> 1 @@ "g" :> 1 @@ "longer" :> 6
W(off, s) == [off |-> off, data |-> s]
MCSymmetry == Permutations(Clients)
MCWrites == {W(1, <<2, 1>>), W(1, <<1>>)}
=============================================================================
