-------------------------------- MODULE Vfs ---------------------------------
(***************************************************************************)
(* The file layer src/kernel/fs/vfs.c: the table of open files that all    *)
(* tasks share, the descriptors of each task, and the copy of a file that  *)
(* an open file loads on its first read and keeps.  The backend is a store *)
(* of whole files, as FileStore describes it; no file is ever removed.     *)
(***************************************************************************)
EXTENDS Integers, Sequences, FiniteSets

CONSTANTS
  Tasks,
  MAX_OPEN_FILES,
  MaxFd,           \* descriptors are 3..MaxFd (31)
  Paths, NoPath,
  Contents,        \* what files contain
  Lengths,         \* bytes asked for by a read
  Distances,       \* how far a seek goes
  OffsetMod        \* offsets are kept modulo 2^32

Handles == 0..(MAX_OPEN_FILES - 1)
FDs == 3..MaxFd
Free == -1                   \* fds[fd] when the descriptor is free

ASSUME VfsAssumption ==
  /\ MAX_OPEN_FILES \in Nat \ {0}
  /\ MaxFd \in Nat
  /\ OffsetMod \in Nat \ {0}
  /\ NoPath \notin Paths
  /\ \A s \in Contents : s \in Seq(Int)
  /\ Lengths \subseteq Nat /\ Distances \subseteq Int

VARIABLES
  files,        \* the backend: the contents of every path; a missing file
                \* has size 0 here, like an empty one
  open_files,   \* open_files[g]: a struct vfs_file, or NULL
  fds,          \* fds[t][fd]: a handle, or Free
  exited,       \* the tasks that have called task_exit
  versions      \* history: what the file of g has contained since g was opened

vars == <<files, open_files, fds, exited, versions>>

\* A struct vfs_file; loaded says that buf is not NULL, buf is what has been
\* copied into it, and alloc the size of the block it points to.  (The field
\* buf_allocated is never read, and vfs_write does not keep it up to date.)
File(p, loaded, buf, alloc, size, offset) ==
  [path |-> p, loaded |-> loaded, buf |-> buf, alloc |-> alloc,
   size |-> size, offset |-> offset]

Least(S) == CHOOSE x \in S : \A y \in S : x <= y

NULL == File(NoPath, FALSE, <<>>, 0, 0, 0)
used == {g \in Handles : open_files[g] # NULL}
FreeHandles == Handles \ used
FreeFds(t) == {fd \in FDs : fds[t][fd] = Free}
IsOpen(t, fd) == t \notin exited /\ fd \in FDs /\ fds[t][fd] # Free
Handle(t, fd) == fds[t][fd]

-----------------------------------------------------------------------------
Store(p, c) ==
  /\ files' = [files EXCEPT ![p] = c]
  /\ versions' = [g \in Handles |->
                    IF g \in used /\ open_files[g].path = p
                    THEN versions[g] \union {c} ELSE versions[g]]

\* Mutant: the handle is not freed when the task has no free descriptor.
OpenLeaks(t, p) ==
  LET g == Least(FreeHandles)
      fd == Least(FreeFds(t)) IN
  /\ t \notin exited
  /\ FreeHandles # {}
  /\ open_files' = [open_files EXCEPT ![g] = File(p, FALSE, <<>>, 0, Len(files[p]), 0)]
  /\ fds' = IF FreeFds(t) = {} THEN fds ELSE [fds EXCEPT ![t][fd] = g]
  /\ versions' = [versions EXCEPT ![g] = {files[p]}]
  /\ UNCHANGED <<files, exited>>

\* Without a free handle, a free descriptor or memory it fails, and what it
\* has taken is given back.
vfs_open(t, p) ==
  LET g == Least(FreeHandles)
      fd == Least(FreeFds(t)) IN
  /\ t \notin exited
  /\ FreeHandles # {} /\ FreeFds(t) # {}
  /\ open_files' = [open_files EXCEPT ![g] = File(p, FALSE, <<>>, 0, Len(files[p]), 0)]
  /\ fds' = [fds EXCEPT ![t][fd] = g]
  /\ versions' = [versions EXCEPT ![g] = {files[p]}]
  /\ UNCHANGED <<files, exited>>

\* Mutant: the descriptor keeps its handle.
CloseKeepsFd(t, fd) ==
  /\ IsOpen(t, fd)
  /\ open_files' = [open_files EXCEPT ![Handle(t, fd)] = NULL]
  /\ UNCHANGED <<files, fds, exited, versions>>

vfs_close(t, fd) ==
  /\ IsOpen(t, fd)
  /\ open_files' = [open_files EXCEPT ![Handle(t, fd)] = NULL]
  /\ fds' = [fds EXCEPT ![t][fd] = Free]
  /\ versions' = [versions EXCEPT ![Handle(t, fd)] = {}]
  /\ UNCHANGED <<files, exited>>

\* The size that vfs_read loads: the one known from vfs_open, if not 0.
LoadSize(f) == IF f.size # 0 THEN f.size ELSE Len(files[f.path])
Shorter(m, n) == IF m <= n THEN m ELSE n

\* Mutant: the size stays what it was, though the file has become shorter.
LoadedKeepsSize(f) ==
  LET n == Shorter(LoadSize(f), Len(files[f.path])) IN
  IF f.loaded \/ LoadSize(f) = 0 THEN f
  ELSE File(f.path, TRUE, SubSeq(files[f.path], 1, n), n, LoadSize(f), f.offset)

\* The first read loads the file, as far as that size.
Loaded(f) ==
  LET n == Shorter(LoadSize(f), Len(files[f.path])) IN
  IF f.loaded \/ LoadSize(f) = 0 THEN f
  ELSE File(f.path, TRUE, SubSeq(files[f.path], 1, n), LoadSize(f), n, f.offset)

Available(f) == IF f.loaded /\ f.size > f.offset THEN f.size - f.offset ELSE 0

vfs_read(t, fd, len) ==
  LET g == Handle(t, fd)
      f == Loaded(open_files[g]) IN
  /\ IsOpen(t, fd)
  /\ open_files' =
       [open_files EXCEPT ![g] =
          File(f.path, f.loaded, f.buf, f.alloc, f.size,
               f.offset + Shorter(len, Available(f)))]
  /\ UNCHANGED <<files, fds, exited, versions>>

\* There is no memory for the buffer, or the backend cannot read the file:
\* the size it has found stays.
ReadFails(t, fd) ==
  LET g == Handle(t, fd)
      f == open_files[g] IN
  /\ IsOpen(t, fd)
  /\ ~f.loaded
  /\ open_files' = [open_files EXCEPT ![g] =
                      File(f.path, FALSE, <<>>, f.alloc, LoadSize(f), f.offset)]
  /\ UNCHANGED <<files, fds, exited, versions>>

\* The backend replaces the file; kmalloc of the new buffer may fail, and
\* gives NULL for no bytes.
vfs_write(t, fd, b) ==
  LET g == Handle(t, fd)
      f == open_files[g] IN
  /\ IsOpen(t, fd)
  /\ Store(f.path, b)
  /\ \E loaded \in BOOLEAN :
       /\ loaded => b # <<>>
       /\ open_files' = [open_files EXCEPT ![g] =
                           File(f.path, loaded, IF loaded THEN b ELSE <<>>,
                                Len(b), Len(b), Len(b))]
  /\ UNCHANGED <<fds, exited>>

\* Mutant: the copy is replaced before the result is looked at.
WriteFailsLate(t, fd, b) ==
  LET g == Handle(t, fd)
      f == open_files[g] IN
  /\ IsOpen(t, fd)
  /\ \E c \in Contents : Store(f.path, c)
  /\ open_files' = [open_files EXCEPT ![g] =
                      File(f.path, TRUE, b, Len(b), Len(b), Len(b))]
  /\ UNCHANGED <<fds, exited>>

\* The backend fails, and has damaged the file or not.
WriteFails(t, fd, b) ==
  /\ IsOpen(t, fd)
  /\ \E c \in Contents : Store(open_files[Handle(t, fd)].path, c)
  /\ UNCHANGED <<open_files, fds, exited>>

\* whence: SEEK_SET, SEEK_CUR or SEEK_END.
vfs_lseek(t, fd, d, whence) ==
  LET g == Handle(t, fd)
      f == open_files[g]
      base == CASE whence = 0 -> 0 [] whence = 1 -> f.offset [] whence = 2 -> f.size IN
  /\ IsOpen(t, fd)
  /\ open_files' = [open_files EXCEPT ![g] =
                      File(f.path, f.loaded, f.buf, f.alloc, f.size,
                           (base + d) % OffsetMod)]
  /\ UNCHANGED <<files, fds, exited, versions>>

\* task_exit closes nothing.
task_exit(t) ==
  /\ t \notin exited
  /\ exited' = exited \union {t}
  /\ UNCHANGED <<files, open_files, fds, versions>>

Init ==
  /\ files \in [Paths -> Contents]
  /\ open_files = [g \in Handles |-> NULL]
  /\ fds = [t \in Tasks |-> [fd \in FDs |-> Free]]
  /\ exited = {}
  /\ versions = [g \in Handles |-> {}]

Next ==
  \E t \in Tasks :
    \/ \E p \in Paths : vfs_open(t, p)
    \/ \E fd \in FDs :
         \/ vfs_close(t, fd)
         \/ \E n \in Lengths : vfs_read(t, fd, n)
         \/ ReadFails(t, fd)
         \/ \E b \in Contents : vfs_write(t, fd, b) \/ WriteFails(t, fd, b)
         \/ \E d \in Distances, w \in 0..2 : vfs_lseek(t, fd, d, w)
    \/ task_exit(t)

Spec == Init /\ [][Next]_vars

-----------------------------------------------------------------------------
(* Properties.                                                             *)

\* Type invariant.
TypeOK ==
  /\ files \in [Paths -> Contents]
  /\ open_files \in [Handles -> [path : Paths \union {NoPath}, loaded : BOOLEAN, buf : Seq(Int),
                                 alloc : Nat, size : Nat, offset : Nat]]
  /\ fds \in [Tasks -> [FDs -> Handles \union {Free}]]
  /\ exited \subseteq Tasks

\* Whatever the tasks open and close, in whatever order, a descriptor never
\* refers to a freed handle and no handle is shared by two descriptors:
\* closing one cannot free the file of another.
HandlesOwned ==
  \A t, s \in Tasks : \A fd, e \in FDs :
    fds[t][fd] # Free =>
      /\ fds[t][fd] \in used
      /\ fds[t][fd] = fds[s][e] => t = s /\ fd = e

\* Every handle in use can be closed by somebody, or was left behind by a
\* task that has exited.
NoLostHandle ==
  \A g \in used : \E t \in Tasks : \E fd \in FDs : fds[t][fd] = g

\* The bytes a read copies are inside the buffer, whatever other tasks have
\* written to the file since it was opened and wherever a seek has gone.
InBounds ==
  \A g \in used :
    LET f == open_files[g] IN
    f.loaded => /\ f.size <= f.alloc
                /\ f.size <= Len(f.buf)

\* What a descriptor reads is never a mixture of two versions of the file:
\* it is the beginning of one the file has had since it was opened.
OneVersion ==
  \A g \in used :
    LET f == open_files[g] IN
    f.loaded => \E v \in versions[g] :
                  Len(f.buf) <= Len(v) /\ f.buf = SubSeq(v, 1, Len(f.buf))
=============================================================================
