------------------------------ MODULE Ext2Path ------------------------------
(***************************************************************************)
(* What callers of the ext2 driver reach by a path: ext2_resolve_path with *)
(* ext2_resolve_symlink, which call each other, ext2_read_file_by_path,    *)
(* and the functions by which src/kernel/fs/vfs.c uses the driver.  A path *)
(* is the sequence of its components; empty ones are skipped, and a slash  *)
(* in front makes no difference, because there is no current directory.    *)
(* The empty string and the texts of links that do not fit target_path are *)
(* left out: they are refused.  So are components of more than 255         *)
(* characters, which the code divides in two.                              *)
(***************************************************************************)
EXTENDS Ext2, SequencesExt

CONSTANTS
  MAX_SYMLINK_DEPTH,
  StackFrames,     \* calls of ext2_resolve_path that fit on the kernel stack
  Paths            \* the paths callers ask for

ASSUME PathAssumption ==
  /\ MAX_SYMLINK_DEPTH \in Nat /\ StackFrames \in Nat
  /\ {".", ".."} \subseteq Names
  /\ Paths \subseteq Seq(Names)

\* What a call returns: an inode, or why it failed.
Reaches(ino) == [why |-> "ok", ino |-> ino]
Fails(why) == [why |-> why, ino |-> None]
RECURSIVE Walk(_, _, _, _), Enter(_, _, _, _)

\* The loop of ext2_resolve_path at inode cur with the components of path to
\* go, after depth links of this path.  The target of a link is resolved by
\* a call that counts its links from 0 again.
Walk(cur, path, depth, frames) ==
  IF path = <<>> THEN Reaches(cur)
  ELSE IF inode[cur].mode # "lnk" THEN Enter(cur, path, depth, frames)
  ELSE IF depth + 1 > MAX_SYMLINK_DEPTH THEN Fails("depth")
  ELSE IF frames = 0 THEN Fails("overflow")
  ELSE LET t == Walk(EXT2_ROOT_INO, inode[cur].target, 0, frames - 1) IN
       IF t.why # "ok" THEN t
       ELSE IF inode[t.ino].mode = "lnk" THEN Fails("chain")    \* -3 as well
       ELSE Enter(t.ino, path, depth + 1, frames)

\* Mutant: ".." stays where it is.
EnterStays(cur, path, depth, frames) ==
  LET n == Head(path)
      i == ext2_find_file_in_dir(inode[cur], n) IN
  IF inode[cur].mode # "dir" THEN Fails("not_dir")
  ELSE IF n \in {".", ".."} THEN Walk(cur, Tail(path), depth, frames)
  ELSE IF i = None THEN Fails("missing")
  ELSE Walk(i, Tail(path), depth, frames)

\* ".." is the root, wherever it is met.
Enter(cur, path, depth, frames) ==
  LET n == Head(path)
      i == ext2_find_file_in_dir(inode[cur], n) IN
  IF inode[cur].mode # "dir" THEN Fails("not_dir")
  ELSE IF n = "." THEN Walk(cur, Tail(path), depth, frames)
  ELSE IF n = ".." THEN Walk(EXT2_ROOT_INO, Tail(path), depth, frames)
  ELSE IF i = None THEN Fails("missing")
  ELSE Walk(i, Tail(path), depth, frames)

ext2_resolve_path(path) == Walk(EXT2_ROOT_INO, path, 0, StackFrames)
ext2_resolve_symlink(nd) == Walk(EXT2_ROOT_INO, nd.target, 0, StackFrames)

Gives(cells) == [why |-> "ok", cells |-> cells]
NoCells(why) == [why |-> why, cells |-> <<>>]

\* A link at the end of the path is followed once.
ext2_read_file_by_path(path, len, off) ==
  LET r == ext2_resolve_path(path)
      t == IF r.why = "ok" /\ inode[r.ino].mode = "lnk"
           THEN ext2_resolve_symlink(inode[r.ino]) ELSE r IN
  IF t.why # "ok" THEN NoCells(t.why)
  ELSE IF inode[t.ino].mode # "reg" THEN NoCells("not_file")
  ELSE Gives(ext2_read_inode_data(inode[t.ino], off, len))

-----------------------------------------------------------------------------
(* vfs.c: the backend "ext2".  It follows no link at the end of a path.    *)

ext2_read_wrapper(path, len) ==
  LET r == ext2_resolve_path(path) IN
  IF r.why # "ok" THEN NoCells(r.why)
  ELSE Gives(ext2_read_inode_data(inode[r.ino], 0, len))

ext2_get_size_wrapper(path) ==
  LET r == ext2_resolve_path(path)
  IN  IF r.why = "ok" THEN inode[r.ino].size ELSE 0

\* Of a directory no size is returned.
vfs_resolve_path(path) ==
  LET r == ext2_resolve_path(path)
      dir == r.why = "ok" /\ inode[r.ino].mode = "dir"
  IN  [ok |-> r.why = "ok", dir |-> dir,
       size |-> IF r.why = "ok" /\ ~dir THEN inode[r.ino].size ELSE 0]

vfs_list_path(path) ==
  LET r == ext2_resolve_path(path)
  IN  IF r.why = "ok" THEN ext2_list_dir(inode[r.ino]) ELSE {}

-----------------------------------------------------------------------------
(* Properties.                                                             *)

\* Reference: the tree below block b, depth pointers deep, from left to right.
RECURSIVE Leaves(_, _), Meaning(_, _, _)
Leaves(b, depth) ==
  IF depth = 0 THEN <<b>>
  ELSE FlattenSeq([i \in 1..PtrsPerBlock |-> Leaves(Through(b, i - 1), depth - 1)])
InOrder(nd) ==
  [i \in 1..NDirect |-> nd.block[i - 1]] \o Leaves(nd.block[NDirect], 1)
    \o Leaves(nd.block[NDirect + 1], 2) \o Leaves(nd.block[NDirect + 2], 3)

\* The blocks of a file come in the order of its pointers, through every
\* level of indirect blocks, and none after the last.
BlockMapInOrder ==
  \A i \in {j \in Inos : inode[j].block # NoPointers} :
    LET s == InOrder(inode[i]) IN
    \A k \in 0..Len(s) :
      ext2_get_block_num(inode[i], k) = IF k < Len(s) THEN s[k + 1] ELSE None

\* Reference: the inode a path means, when a link stands for its target put
\* in its place.  None if there is none, or not after fuel components.
Child(nd, n) ==
  LET S == {r \in UNION {Range(recs[b]) : b \in Range(Direct(nd)) \ {None}} :
              r.name = n /\ r.ino # None}
  IN  IF S = {} THEN None ELSE (CHOOSE r \in S : TRUE).ino
Meaning(cur, path, fuel) ==
  IF cur = None \/ fuel = 0 THEN None
  ELSE IF path = <<>> THEN cur
  ELSE CASE inode[cur].mode = "lnk" ->
              Meaning(EXT2_ROOT_INO, inode[cur].target \o path, fuel - 1)
         [] inode[cur].mode = "dir" ->
              Meaning(CASE Head(path) = "."  -> cur
                        [] Head(path) = ".." -> EXT2_ROOT_INO
                        [] OTHER -> Child(inode[cur], Head(path)),
                      Tail(path), fuel - 1)
         [] OTHER -> None
Means(path) == Meaning(EXT2_ROOT_INO, path, 4 * (StackFrames + 2))

\* In any tree of directories and links, a path that is resolved leads where
\* it should, and one that is not found is not there: only links that lead to
\* links, or too many of them, are refused.  The calls nest without end only
\* where the links go round in a circle.  A regular file is read whole
\* through the file layer, after its size was asked for, and by its path.
\* Whatever is listed in a directory can be reached in it, as long as it has
\* only direct blocks: ext2_find_file_in_dir looks no further.
PathsResolve ==
  \A p \in Paths :
    LET r == ext2_resolve_path(p)
        m == Means(p) IN
    /\ r.why = "ok" => r.ino = m
    /\ r.why \in {"missing", "not_dir", "overflow"} => m = None
    /\ r.why = "ok" /\ inode[r.ino].mode = "reg" =>
         LET n == ext2_get_size_wrapper(p) IN
         /\ n = inode[r.ino].size
         /\ ext2_read_wrapper(p, n) = ext2_read_file_by_path(p, n, 0)
         /\ vfs_resolve_path(p) = [ok |-> TRUE, dir |-> FALSE, size |-> n]
    /\ \A c \in vfs_list_path(p) \ {"..", "."} :
         /\ vfs_resolve_path(p).dir
         /\ inode[r.ino].block[NDirect] = None => vfs_resolve_path(Append(p, c)).ok
=============================================================================
