----------------------------- MODULE VfsProofs ------------------------------
(***************************************************************************)
(* For any number of tasks, descriptors, handles and files: descriptors    *)
(* and handles belong together one to one, reads stay inside the buffers,  *)
(* and what a descriptor has loaded is the beginning of one version of the *)
(* file.                                                                   *)
(***************************************************************************)
EXTENDS Vfs, WellFoundedInduction, TLAPS

USE VfsAssumption

Records == [path : Paths \union {NoPath}, loaded : BOOLEAN, buf : Seq(Int),
            alloc : Nat, size : Nat, offset : Nat]

\* A handle in use names a file, and the history of what that file contained
\* goes up to the present.
PathNamed == \A g \in used : open_files[g].path \in Paths
UpToDate == \A g \in used : files[open_files[g].path] \in versions[g]
VersionsType == versions \in [Handles -> SUBSET Contents]

\* The inductive invariant.
IInv ==
  /\ TypeOK /\ VersionsType
  /\ PathNamed /\ UpToDate
  /\ HandlesOwned /\ NoLostHandle
  /\ InBounds /\ OneVersion

\* A nonempty set of natural numbers has a least element, which Least finds.
LEMMA LeastIn ==
  ASSUME NEW T \in SUBSET Nat, T # {}
  PROVE  Least(T) \in T
<1> DEFINE R == {ss \in Nat \X Nat : ss[1] < ss[2]}
<1>1. IsWellFoundedOn(R, Nat)
  BY NatLessThanWellFounded, Zenon DEF OpToRel
<1>2. PICK x \in T : \A y \in T : ~(<<y, x>> \in R)
  <2> HIDE DEF R
  <2>1. QED
    BY <1>1, WFMin
<1>3. \A y \in T : ~(y < x)
  BY <1>2
<1>4. \A y \in T : x <= y
  BY <1>3
<1>5. QED
  BY <1>4 DEF Least

LEMMA HandlesNat == Handles \subseteq Nat /\ FDs \subseteq Nat /\ Free \notin Handles
BY DEF Handles, FDs, Free

LEMMA FileFields ==
  ASSUME NEW p, NEW l, NEW b, NEW a, NEW s, NEW o
  PROVE  LET f == File(p, l, b, a, s, o) IN
         /\ f.path = p /\ f.buf = b /\ f.alloc = a /\ f.size = s /\ f.offset = o
         /\ (f.loaded => l) /\ (l => f.loaded)
BY DEF File

LEMMA FileType ==
  ASSUME NEW p \in Paths, NEW l \in BOOLEAN, NEW b \in Seq(Int),
         NEW a \in Nat, NEW s \in Nat, NEW o \in Nat
  PROVE  File(p, l, b, a, s, o) \in Records /\ File(p, l, b, a, s, o) # NULL
<1>1. File(p, l, b, a, s, o) \in Records
  BY DEF File, Records
<1>2. File(p, l, b, a, s, o).path = p /\ NULL.path = NoPath
  BY DEF File, NULL
<1>3. QED
  BY <1>1, <1>2

LEMMA ContentsType ==
  ASSUME TypeOK, NEW p \in Paths
  PROVE  files[p] \in Contents /\ files[p] \in Seq(Int) /\ Len(files[p]) \in Nat
BY DEF TypeOK

LEMMA InitInv == Init => IInv
<1> SUFFICES ASSUME Init PROVE IInv
  OBVIOUS
<1>1. used = {}
  BY DEF Init, used
<1>2. NULL \in Records
  BY DEF NULL, File, Records
<1>3. TypeOK
  BY <1>2 DEF Init, TypeOK, Records
<1>4. \A t \in Tasks, fd \in FDs : fds[t][fd] = Free
  BY DEF Init
<1>5. HandlesOwned
  BY <1>4 DEF HandlesOwned
<1>6. VersionsType
  BY DEF Init, VersionsType
<1>7. QED
  BY <1>1, <1>3, <1>5, <1>6 DEF IInv, PathNamed, UpToDate, NoLostHandle, InBounds, OneVersion

\* What every call that changes one open file has to show.
Prefix(r, V) ==
  \E v \in V : Len(r.buf) <= Len(v) /\ r.buf = SubSeq(v, 1, Len(r.buf))
GoodFile(r, V) ==
  r.loaded => r.size <= r.alloc /\ r.size <= Len(r.buf) /\ Prefix(r, V)

LEMMA HandleStep ==
  ASSUME IInv, NEW g \in used, NEW r \in Records, r.path = open_files[g].path,
         r # NULL, open_files' = [open_files EXCEPT ![g] = r],
         fds' = fds, exited' = exited,
         files' \in [Paths -> Contents], versions' \in [Handles -> SUBSET Contents],
         \A h \in used : versions[h] \subseteq versions'[h],
         \A h \in used : files'[open_files[h].path] \in versions'[h],
         GoodFile(r, versions'[g])
  PROVE  IInv'
<1>0. g \in Handles /\ open_files \in [Handles -> Records]
  BY DEF used, IInv, TypeOK, Records
<1>1. used' = used
  <2>1. used' = {h \in Handles : open_files'[h] # NULL}
    BY DEF used, NULL, File
  <2>2. \A h \in Handles : open_files'[h] = IF h = g THEN r ELSE open_files[h]
    BY <1>0
  <2>3. QED
    BY <1>0, <2>1, <2>2 DEF used
<1>2. open_files' \in [Handles -> Records]
  BY <1>0
<1>3. TypeOK'
  BY <1>2 DEF IInv, TypeOK, Records
<1>4. \A h \in used : open_files'[h].path = open_files[h].path
  BY <1>0 DEF used
<1>5. PathNamed' /\ UpToDate'
  BY <1>1, <1>4 DEF IInv, PathNamed, UpToDate
<1>6. HandlesOwned' /\ NoLostHandle'
  BY <1>1 DEF IInv, HandlesOwned, NoLostHandle
<1>7. ASSUME NEW h \in used PROVE GoodFile(open_files'[h], versions'[h])
  <2>1. CASE h = g
    BY <1>0, <2>1
  <2>2. CASE h # g
    <3>1. open_files'[h] = open_files[h] /\ versions[h] \subseteq versions'[h]
      BY <1>0, <2>2
    <3>2. GoodFile(open_files[h], versions[h])
      BY DEF IInv, InBounds, OneVersion, GoodFile, Prefix
    <3>3. QED
      BY <3>1, <3>2 DEF GoodFile, Prefix
  <2>3. QED
    BY <2>1, <2>2
<1>8. InBounds' /\ OneVersion'
  BY <1>1, <1>7 DEF InBounds, OneVersion, GoodFile, Prefix
<1>9. QED
  BY <1>3, <1>5, <1>6, <1>8 DEF IInv, VersionsType

LEMMA OpenHandle ==
  ASSUME IInv, NEW t \in Tasks, NEW fd \in FDs, IsOpen(t, fd)
  PROVE  /\ Handle(t, fd) \in used
         /\ open_files[Handle(t, fd)] \in Records
         /\ open_files[Handle(t, fd)].path \in Paths
         /\ GoodFile(open_files[Handle(t, fd)], versions[Handle(t, fd)])
<1>1. Handle(t, fd) \in used
  BY DEF IInv, HandlesOwned, IsOpen, Handle
<1>2. Handle(t, fd) \in Handles
  BY <1>1 DEF used
<1>3. open_files[Handle(t, fd)] \in Records
  BY <1>2 DEF IInv, TypeOK, Records
<1>4. QED
  BY <1>1, <1>3 DEF IInv, PathNamed, InBounds, OneVersion, GoodFile, Prefix

LEMMA OpenStep ==
  ASSUME IInv, NEW t \in Tasks, NEW p \in Paths, vfs_open(t, p)
  PROVE  IInv'
<1> DEFINE g == Least(FreeHandles)
           fd == Least(FreeFds(t))
           r == File(p, FALSE, <<>>, 0, Len(files[p]), 0)
<1>1. g \in Handles /\ g \notin used
  <2>1. FreeHandles \in SUBSET Nat /\ FreeHandles # {}
    BY HandlesNat DEF vfs_open, FreeHandles
  <2>2. g \in FreeHandles
    BY <2>1, LeastIn
  <2>3. QED
    BY <2>2 DEF FreeHandles
<1>2. fd \in FDs /\ fds[t][fd] = Free
  <2>1. FreeFds(t) \in SUBSET Nat /\ FreeFds(t) # {}
    BY HandlesNat DEF vfs_open, FreeFds
  <2>2. fd \in FreeFds(t)
    BY <2>1, LeastIn
  <2>3. QED
    BY <2>2 DEF FreeFds
<1>3. r \in Records /\ r # NULL
  <2>1. Len(files[p]) \in Nat /\ 0 \in Nat /\ <<>> \in Seq(Int) /\ FALSE \in BOOLEAN
    BY ContentsType DEF IInv
  <2>2. QED
    BY <2>1, FileType, Zenon
<1>4. /\ open_files' = [open_files EXCEPT ![g] = r]
      /\ fds' = [fds EXCEPT ![t][fd] = g]
      /\ versions' = [versions EXCEPT ![g] = {files[p]}]
      /\ files' = files /\ exited' = exited
  BY DEF vfs_open
<1>5. r.path = p /\ ~r.loaded
  BY DEF File
<1> HIDE DEF g, fd, r
<1>6. /\ open_files \in [Handles -> Records]
      /\ fds \in [Tasks -> [FDs -> Handles \union {Free}]]
      /\ versions \in [Handles -> SUBSET Contents]
      /\ files[p] \in Contents
  BY ContentsType DEF IInv, TypeOK, VersionsType, Records
<1>7. TypeOK' /\ VersionsType'
  <2>1. open_files' \in [Handles -> Records]
    BY <1>1, <1>3, <1>4, <1>6
  <2>2. fds' \in [Tasks -> [FDs -> Handles \union {Free}]]
    BY <1>1, <1>2, <1>4, <1>6
  <2>3. versions' \in [Handles -> SUBSET Contents]
    BY <1>1, <1>4, <1>6
  <2>4. QED
    BY <1>4, <2>1, <2>2, <2>3 DEF IInv, TypeOK, VersionsType, Records
<1>8. used' = used \union {g}
  <2>1. used' = {h \in Handles : open_files'[h] # NULL}
    BY DEF used, NULL, File
  <2>2. \A h \in Handles : open_files'[h] = IF h = g THEN r ELSE open_files[h]
    BY <1>4, <1>6
  <2>3. QED
    BY <1>1, <1>3, <2>1, <2>2 DEF used
<1>9. \A s \in Tasks, e \in FDs :
        fds'[s][e] = IF s = t /\ e = fd THEN g ELSE fds[s][e]
  BY <1>2, <1>4, <1>6
<1>10. \A s \in Tasks, e \in FDs : fds[s][e] # Free => fds[s][e] \in used
  BY DEF IInv, HandlesOwned
<1>11. HandlesOwned'
  BY <1>1, <1>2, <1>8, <1>9, <1>10, HandlesNat DEF IInv, HandlesOwned
<1>12. NoLostHandle'
  <2> SUFFICES ASSUME NEW h \in used'
               PROVE  \E s \in Tasks : \E e \in FDs : fds'[s][e] = h
    BY DEF NoLostHandle
  <2>1. CASE h = g
    BY <1>2, <1>9, <2>1
  <2>2. CASE h # g
    <3>1. PICK s \in Tasks, e \in FDs : fds[s][e] = h
      BY <1>8, <2>2 DEF IInv, NoLostHandle
    <3>2. h # Free
      BY <1>8, <2>2, HandlesNat DEF used
    <3>3. fds'[s][e] = h
      BY <1>2, <1>9, <3>1, <3>2
    <3>4. QED
      BY <3>3
  <2>3. QED
    BY <2>1, <2>2
<1>13. ASSUME NEW h \in used'
       PROVE  /\ open_files'[h].path \in Paths
              /\ files'[open_files'[h].path] \in versions'[h]
              /\ GoodFile(open_files'[h], versions'[h])
  <2>1. CASE h = g
    <3>1. open_files'[h] = r /\ versions'[h] = {files[p]}
      BY <1>1, <1>4, <1>6, <2>1
    <3>2. QED
      BY <1>4, <1>5, <3>1 DEF GoodFile
  <2>2. CASE h # g
    <3>1. h \in used
      BY <1>8, <2>2
    <3>2. open_files'[h] = open_files[h] /\ versions'[h] = versions[h]
      BY <1>4, <1>6, <2>2, <3>1 DEF used
    <3>3. GoodFile(open_files[h], versions[h])
      BY <3>1 DEF IInv, InBounds, OneVersion, GoodFile, Prefix
    <3>4. QED
      BY <1>4, <3>1, <3>2, <3>3 DEF IInv, PathNamed, UpToDate
  <2>3. QED
    BY <2>1, <2>2
<1>14. PathNamed' /\ UpToDate' /\ InBounds' /\ OneVersion'
  BY <1>13 DEF PathNamed, UpToDate, InBounds, OneVersion, GoodFile, Prefix
<1>15. QED
  BY <1>7, <1>11, <1>12, <1>14 DEF IInv

LEMMA CloseStep ==
  ASSUME IInv, NEW t \in Tasks, NEW fd \in FDs, vfs_close(t, fd)
  PROVE  IInv'
<1> DEFINE g == fds[t][fd]
<1>1. /\ open_files' = [open_files EXCEPT ![g] = NULL]
      /\ fds' = [fds EXCEPT ![t][fd] = Free]
      /\ versions' = [versions EXCEPT ![g] = {}]
      /\ files' = files /\ exited' = exited
      /\ g # Free
  BY DEF vfs_close, Handle, IsOpen
<1>2. g \in used /\ g \in Handles
  BY <1>1 DEF IInv, HandlesOwned, used
<1>3. NULL \in Records
  BY DEF NULL, File, Records
<1>4. /\ open_files \in [Handles -> Records]
      /\ fds \in [Tasks -> [FDs -> Handles \union {Free}]]
      /\ versions \in [Handles -> SUBSET Contents]
  BY DEF IInv, TypeOK, VersionsType, Records
<1>5. \A s \in Tasks, e \in FDs : fds[s][e] = g => s = t /\ e = fd
  BY <1>1 DEF IInv, HandlesOwned
<1> HIDE DEF g
<1>6. TypeOK' /\ VersionsType'
  <2>1. open_files' \in [Handles -> Records]
    BY <1>1, <1>2, <1>3, <1>4
  <2>2. fds' \in [Tasks -> [FDs -> Handles \union {Free}]]
    BY <1>1, <1>4
  <2>3. versions' \in [Handles -> SUBSET Contents]
    BY <1>1, <1>2, <1>4
  <2>4. QED
    BY <1>1, <2>1, <2>2, <2>3 DEF IInv, TypeOK, VersionsType, Records
<1>7. used' = used \ {g}
  <2>1. used' = {h \in Handles : open_files'[h] # NULL}
    BY DEF used, NULL, File
  <2>2. \A h \in Handles : open_files'[h] = IF h = g THEN NULL ELSE open_files[h]
    BY <1>1, <1>4
  <2>3. QED
    BY <1>2, <2>1, <2>2 DEF used
<1>8. \A s \in Tasks, e \in FDs :
        fds'[s][e] = IF s = t /\ e = fd THEN Free ELSE fds[s][e]
  BY <1>1, <1>4
<1>9. HandlesOwned'
  BY <1>5, <1>7, <1>8 DEF IInv, HandlesOwned
<1>10. NoLostHandle'
  <2> SUFFICES ASSUME NEW h \in used'
               PROVE  \E s \in Tasks : \E e \in FDs : fds'[s][e] = h
    BY DEF NoLostHandle
  <2>1. PICK s \in Tasks, e \in FDs : fds[s][e] = h
    BY <1>7 DEF IInv, NoLostHandle
  <2>2. fds'[s][e] = h
    BY <1>7, <1>8, <2>1 DEF g
  <2>3. QED
    BY <2>2
<1>11. ASSUME NEW h \in used'
       PROVE  /\ h \in used
              /\ open_files'[h] = open_files[h] /\ versions'[h] = versions[h]
  BY <1>1, <1>4, <1>7 DEF used
<1>12. PathNamed' /\ UpToDate' /\ InBounds' /\ OneVersion'
  BY <1>1, <1>11 DEF IInv, PathNamed, UpToDate, InBounds, OneVersion
<1>13. QED
  BY <1>6, <1>9, <1>10, <1>12 DEF IInv

LEMMA LoadedGood ==
  ASSUME IInv, NEW g \in used, NEW f \in Records, f = open_files[g],
         GoodFile(f, versions[g]), f.path \in Paths
  PROVE  /\ Loaded(f) \in Records
         /\ Loaded(f).path = f.path
         /\ GoodFile(Loaded(f), versions[g])
<1>1. CASE f.loaded \/ LoadSize(f) = 0
  BY <1>1 DEF Loaded
<1>2. CASE ~(f.loaded \/ LoadSize(f) = 0)
  <2> DEFINE c == files[f.path]
             n == Shorter(LoadSize(f), Len(c))
  <2>1. c \in Seq(Int) /\ Len(c) \in Nat /\ c \in versions[g]
    BY ContentsType DEF IInv, UpToDate
  <2>2. LoadSize(f) \in Nat /\ f.offset \in Nat
    BY <2>1 DEF LoadSize, Records
  <2>3. Loaded(f) = File(f.path, TRUE, SubSeq(c, 1, n), LoadSize(f), n, f.offset)
    BY <1>2 DEF Loaded
  <2> HIDE DEF c
  <2>4. n \in Nat /\ n <= Len(c) /\ n <= LoadSize(f)
    BY <2>1, <2>2 DEF Shorter
  <2> HIDE DEF n
  <2>5. SubSeq(c, 1, n) \in Seq(Int) /\ Len(SubSeq(c, 1, n)) = n
    BY <2>1, <2>4
  <2>6. TRUE \in BOOLEAN
    OBVIOUS
  <2>7. Loaded(f) \in Records
    <3>1. File(f.path, TRUE, SubSeq(c, 1, n), LoadSize(f), n, f.offset) \in Records
      BY <2>2, <2>4, <2>5, <2>6, FileType, Zenon
    <3>2. QED
      BY <2>3, <3>1, Zenon
  <2>8. /\ Loaded(f).path = f.path /\ Loaded(f).buf = SubSeq(c, 1, n)
        /\ Loaded(f).alloc = LoadSize(f) /\ Loaded(f).size = n
    <3> DEFINE r == File(f.path, TRUE, SubSeq(c, 1, n), LoadSize(f), n, f.offset)
    <3>1. /\ r.path = f.path /\ r.buf = SubSeq(c, 1, n)
          /\ r.alloc = LoadSize(f) /\ r.size = n
      BY DEF File
    <3>2. Loaded(f) = r
      BY <2>3, Zenon
    <3> HIDE DEF r
    <3>3. QED
      BY <3>1, <3>2
  <2>9. n <= Len(SubSeq(c, 1, n))
    BY <2>4, <2>5
  <2>10. Prefix(Loaded(f), versions[g])
    BY <2>1, <2>4, <2>5, <2>8 DEF Prefix
  <2>11. QED
    BY <2>4, <2>7, <2>8, <2>9, <2>10 DEF GoodFile
<1>3. QED
  BY <1>1, <1>2

\* A record with another size or offset, or without its buffer.
LEMMA Moved ==
  ASSUME NEW f \in Records, f.path \in Paths, NEW o \in Nat, NEW V,
         GoodFile(f, V)
  PROVE  LET r == File(f.path, f.loaded, f.buf, f.alloc, f.size, o) IN
         /\ r \in Records /\ r # NULL /\ r.path = f.path
         /\ GoodFile(r, V)
<1> DEFINE r == File(f.path, f.loaded, f.buf, f.alloc, f.size, o)
<1>1. f.loaded \in BOOLEAN /\ f.buf \in Seq(Int) /\ f.alloc \in Nat /\ f.size \in Nat
  BY DEF Records
<1>2. r \in Records /\ r # NULL
  BY <1>1, FileType, Zenon
<1>3. r.path = f.path /\ r.buf = f.buf /\ r.alloc = f.alloc /\ r.size = f.size
  BY DEF File
<1>4. r.loaded => f.loaded
  BY DEF File
<1> HIDE DEF r
<1>5. GoodFile(r, V)
  BY <1>3, <1>4 DEF GoodFile, Prefix
<1>6. QED
  BY <1>2, <1>3, <1>5 DEF r

LEMMA NotLoaded ==
  ASSUME NEW p \in Paths, NEW a \in Nat, NEW s \in Nat, NEW o \in Nat, NEW V
  PROVE  LET r == File(p, FALSE, <<>>, a, s, o) IN
         r \in Records /\ r # NULL /\ r.path = p /\ GoodFile(r, V)
<1>1. <<>> \in Seq(Int) /\ FALSE \in BOOLEAN
  OBVIOUS
<1>2. File(p, FALSE, <<>>, a, s, o) \in Records /\ File(p, FALSE, <<>>, a, s, o) # NULL
  BY <1>1, FileType, Zenon
<1>3. File(p, FALSE, <<>>, a, s, o).path = p /\ ~File(p, FALSE, <<>>, a, s, o).loaded
  BY DEF File
<1>4. QED
  BY <1>2, <1>3 DEF GoodFile

LEMMA ReadStep ==
  ASSUME IInv, NEW t \in Tasks, NEW fd \in FDs, NEW len \in Lengths,
         vfs_read(t, fd, len)
  PROVE  IInv'
<1> DEFINE g == Handle(t, fd)
           f == Loaded(open_files[g])
           o == f.offset + Shorter(len, Available(f))
           r == File(f.path, f.loaded, f.buf, f.alloc, f.size, o)
<1>1. /\ IsOpen(t, fd)
      /\ open_files' = [open_files EXCEPT ![g] = r]
      /\ files' = files /\ fds' = fds /\ exited' = exited /\ versions' = versions
  BY DEF vfs_read
<1>2. /\ g \in used /\ open_files[g] \in Records /\ open_files[g].path \in Paths
      /\ GoodFile(open_files[g], versions[g])
  BY <1>1, OpenHandle
<1>3. f \in Records /\ f.path = open_files[g].path /\ GoodFile(f, versions[g])
  BY <1>2, LoadedGood
<1> HIDE DEF f
<1>4. o \in Nat
  <2>1. f.size \in Nat /\ f.offset \in Nat /\ len \in Nat
    BY <1>3 DEF Records
  <2>2. Available(f) \in Nat
    BY <2>1 DEF Available
  <2>3. QED
    BY <2>1, <2>2 DEF Shorter
<1> HIDE DEF o
<1>5. r \in Records /\ r # NULL /\ r.path = f.path /\ GoodFile(r, versions[g])
  BY <1>2, <1>3, <1>4, Moved
<1> HIDE DEF g, r
<1>6. /\ files' \in [Paths -> Contents] /\ versions' \in [Handles -> SUBSET Contents]
      /\ \A h \in used : versions[h] \subseteq versions'[h]
      /\ \A h \in used : files'[open_files[h].path] \in versions'[h]
  BY <1>1 DEF IInv, TypeOK, VersionsType, UpToDate
<1>7. QED
  BY <1>1, <1>2, <1>3, <1>5, <1>6, HandleStep

LEMMA ReadFailsStep ==
  ASSUME IInv, NEW t \in Tasks, NEW fd \in FDs, ReadFails(t, fd)
  PROVE  IInv'
<1> DEFINE g == Handle(t, fd)
           f == open_files[g]
           r == File(f.path, FALSE, <<>>, f.alloc, LoadSize(f), f.offset)
<1>1. /\ IsOpen(t, fd)
      /\ open_files' = [open_files EXCEPT ![g] = r]
      /\ files' = files /\ fds' = fds /\ exited' = exited /\ versions' = versions
  BY DEF ReadFails
<1>2. g \in used /\ f \in Records /\ f.path \in Paths
  BY <1>1, OpenHandle
<1>3. f.alloc \in Nat /\ f.offset \in Nat /\ LoadSize(f) \in Nat
  BY <1>2, ContentsType DEF Records, LoadSize, IInv
<1>4. r \in Records /\ r # NULL /\ r.path = f.path /\ GoodFile(r, versions[g])
  BY <1>2, <1>3, NotLoaded
<1> HIDE DEF g, r
<1>5. /\ files' \in [Paths -> Contents] /\ versions' \in [Handles -> SUBSET Contents]
      /\ \A h \in used : versions[h] \subseteq versions'[h]
      /\ \A h \in used : files'[open_files[h].path] \in versions'[h]
  BY <1>1 DEF IInv, TypeOK, VersionsType, UpToDate
<1>6. QED
  BY <1>1, <1>2, <1>4, <1>5, HandleStep

\* What a change of the backend leaves true of the history.
LEMMA StoreEffect ==
  ASSUME IInv, NEW p \in Paths, NEW c \in Contents, Store(p, c)
  PROVE  /\ files' \in [Paths -> Contents]
         /\ versions' \in [Handles -> SUBSET Contents]
         /\ \A h \in used : versions[h] \subseteq versions'[h]
         /\ \A h \in used : files'[open_files[h].path] \in versions'[h]
         /\ \A h \in used : open_files[h].path = p => c \in versions'[h]
<1>1. files \in [Paths -> Contents] /\ versions \in [Handles -> SUBSET Contents]
  BY DEF IInv, TypeOK, VersionsType
<1>2. \A h \in used : h \in Handles /\ open_files[h].path \in Paths
                      /\ files[open_files[h].path] \in versions[h]
  BY DEF IInv, PathNamed, UpToDate, used
<1>3. QED
  BY <1>1, <1>2 DEF Store

LEMMA WriteStep ==
  ASSUME IInv, NEW t \in Tasks, NEW fd \in FDs, NEW b \in Contents,
         vfs_write(t, fd, b)
  PROVE  IInv'
<1> DEFINE g == Handle(t, fd)
           f == open_files[g]
<1>1. /\ IsOpen(t, fd) /\ Store(f.path, b)
      /\ fds' = fds /\ exited' = exited
  BY DEF vfs_write
<1>2. PICK l \in BOOLEAN :
        open_files' = [open_files EXCEPT ![g] =
                         File(f.path, l, IF l THEN b ELSE <<>>, Len(b), Len(b), Len(b))]
  BY DEF vfs_write
<1>3. g \in used /\ f \in Records /\ f.path \in Paths
  BY <1>1, OpenHandle
<1>4. b \in Seq(Int) /\ Len(b) \in Nat
  OBVIOUS
<1>5. /\ files' \in [Paths -> Contents]
      /\ versions' \in [Handles -> SUBSET Contents]
      /\ \A h \in used : versions[h] \subseteq versions'[h]
      /\ \A h \in used : files'[open_files[h].path] \in versions'[h]
      /\ b \in versions'[g]
  BY <1>1, <1>3, StoreEffect
<1>6. CASE l
  <2> DEFINE r == File(f.path, TRUE, b, Len(b), Len(b), Len(b))
  <2>1. open_files' = [open_files EXCEPT ![g] = r]
    BY <1>2, <1>6
  <2>2. TRUE \in BOOLEAN
    OBVIOUS
  <2>3. r \in Records /\ r # NULL
    BY <1>3, <1>4, <2>2, FileType, Zenon
  <2>4. r.path = f.path /\ r.buf = b /\ r.alloc = Len(b) /\ r.size = Len(b)
    BY DEF File
  <2> HIDE DEF g, r
  <2>5. SubSeq(b, 1, Len(b)) = b
    BY <1>4
  <2>6. GoodFile(r, versions'[g])
    BY <1>4, <1>5, <2>4, <2>5 DEF GoodFile, Prefix
  <2>7. QED
    BY <1>1, <1>3, <1>5, <2>1, <2>3, <2>4, <2>6, HandleStep
<1>7. CASE ~l
  <2> DEFINE r == File(f.path, FALSE, <<>>, Len(b), Len(b), Len(b))
  <2>1. open_files' = [open_files EXCEPT ![g] = r]
    BY <1>2, <1>7
  <2>2. r \in Records /\ r # NULL /\ r.path = f.path /\ GoodFile(r, versions'[g])
    BY <1>3, <1>4, NotLoaded
  <2> HIDE DEF g, r
  <2>3. QED
    BY <1>1, <1>3, <1>5, <2>1, <2>2, HandleStep
<1>8. QED
  BY <1>6, <1>7

LEMMA WriteFailsStep ==
  ASSUME IInv, NEW t \in Tasks, NEW fd \in FDs, NEW b \in Contents,
         WriteFails(t, fd, b)
  PROVE  IInv'
<1> DEFINE g == Handle(t, fd)
<1>1. PICK c \in Contents : Store(open_files[g].path, c)
  BY DEF WriteFails
<1>2. IsOpen(t, fd) /\ open_files' = open_files /\ fds' = fds /\ exited' = exited
  BY DEF WriteFails
<1>3. /\ g \in used /\ open_files[g] \in Records /\ open_files[g].path \in Paths
      /\ GoodFile(open_files[g], versions[g])
  BY <1>2, OpenHandle
<1>4. /\ files' \in [Paths -> Contents]
      /\ versions' \in [Handles -> SUBSET Contents]
      /\ \A h \in used : versions[h] \subseteq versions'[h]
      /\ \A h \in used : files'[open_files[h].path] \in versions'[h]
  BY <1>1, <1>3, StoreEffect
<1> HIDE DEF g
<1>5. open_files' = [open_files EXCEPT ![g] = open_files[g]]
  BY <1>2 DEF IInv, TypeOK
<1>6. GoodFile(open_files[g], versions'[g])
  BY <1>3, <1>4 DEF GoodFile, Prefix
<1>7. open_files[g] # NULL
  BY <1>3 DEF used
<1>8. QED
  BY <1>2, <1>3, <1>4, <1>5, <1>6, <1>7, HandleStep

LEMMA SeekStep ==
  ASSUME IInv, NEW t \in Tasks, NEW fd \in FDs, NEW d \in Distances,
         NEW w \in 0..2, vfs_lseek(t, fd, d, w)
  PROVE  IInv'
<1> DEFINE g == Handle(t, fd)
           f == open_files[g]
           base == CASE w = 0 -> 0 [] w = 1 -> f.offset [] w = 2 -> f.size
           o == (base + d) % OffsetMod
           r == File(f.path, f.loaded, f.buf, f.alloc, f.size, o)
<1>1. /\ IsOpen(t, fd)
      /\ open_files' = [open_files EXCEPT ![g] = r]
      /\ files' = files /\ fds' = fds /\ exited' = exited /\ versions' = versions
  BY DEF vfs_lseek
<1>2. /\ g \in used /\ f \in Records /\ f.path \in Paths
      /\ GoodFile(f, versions[g])
  BY <1>1, OpenHandle
<1>3. f.size \in Nat /\ f.offset \in Nat /\ d \in Int
  BY <1>2 DEF Records
<1> HIDE DEF f
<1>4. base \in Int
  BY <1>3
<1> HIDE DEF base
<1>5. o \in Nat
  BY <1>3, <1>4
<1> HIDE DEF o
<1>6. r \in Records /\ r # NULL /\ r.path = f.path /\ GoodFile(r, versions[g])
  BY <1>2, <1>5, Moved
<1>7. f = open_files[g]
  BY DEF f
<1> HIDE DEF g, r
<1>8. /\ files' \in [Paths -> Contents] /\ versions' \in [Handles -> SUBSET Contents]
      /\ \A h \in used : versions[h] \subseteq versions'[h]
      /\ \A h \in used : files'[open_files[h].path] \in versions'[h]
  BY <1>1 DEF IInv, TypeOK, VersionsType, UpToDate
<1>9. QED
  BY <1>1, <1>2, <1>6, <1>7, <1>8, HandleStep

LEMMA NextInv ==
  ASSUME IInv, [Next]_vars
  PROVE  IInv'
<1>1. ASSUME NEW t \in Tasks, task_exit(t) PROVE IInv'
  <2>1. /\ files' = files /\ open_files' = open_files /\ fds' = fds
        /\ versions' = versions /\ exited' \subseteq Tasks
    BY <1>1 DEF task_exit, IInv, TypeOK
  <2>2. used' = used
    BY <2>1 DEF used, NULL, File
  <2>3. QED
    BY <2>1, <2>2 DEF IInv, TypeOK, VersionsType, PathNamed, UpToDate, HandlesOwned,
                      NoLostHandle, InBounds, OneVersion
<1>2. CASE UNCHANGED vars
  <2>1. /\ files' = files /\ open_files' = open_files /\ fds' = fds
        /\ versions' = versions /\ exited' = exited
    BY <1>2 DEF vars
  <2>2. used' = used
    BY <2>1 DEF used, NULL, File
  <2>3. QED
    BY <2>1, <2>2 DEF IInv, TypeOK, VersionsType, PathNamed, UpToDate, HandlesOwned,
                      NoLostHandle, InBounds, OneVersion
<1>3. QED
  BY <1>1, <1>2, OpenStep, CloseStep, ReadStep, ReadFailsStep, WriteStep,
     WriteFailsStep, SeekStep DEF Next

\* The inductive invariant holds in every reachable state.
THEOREM VfsInvariant == Spec => []IInv
<1>1. IInv /\ [Next]_vars => IInv'
  BY NextInv
<1>2. QED
  BY <1>1, InitInv, PTL DEF Spec

\* vfs_close frees the handle of its own descriptor and of no other: for any
\* number of tasks, descriptors and handles no two descriptors share a handle
\* and none refers to a freed one.
THEOREM DescriptorsOwnHandles == Spec => []HandlesOwned
<1>1. IInv => HandlesOwned
  BY DEF IInv
<1>2. QED
  BY <1>1, VfsInvariant, PTL

\* vfs_read stays inside the buffer of the file, whatever was written to the
\* file by other tasks after it was opened.
THEOREM ReadsInBounds == Spec => []InBounds
<1>1. IInv => InBounds
  BY DEF IInv
<1>2. QED
  BY <1>1, VfsInvariant, PTL

\* What vfs_read copies from is the beginning of a version of the file.
THEOREM ReadsOneVersion == Spec => []OneVersion
<1>1. IInv => OneVersion
  BY DEF IInv
<1>2. QED
  BY <1>1, VfsInvariant, PTL

\* Every handle in use is that of some descriptor: vfs_open never takes a
\* handle without a descriptor for it, on any of its error paths, and
\* vfs_close gives back both.
THEOREM NoHandleIsLost == Spec => []NoLostHandle
<1>1. IInv => NoLostHandle
  BY DEF IInv
<1>2. QED
  BY <1>1, VfsInvariant, PTL

\* The handle table and the descriptors of all tasks keep their types: a seek
\* never leaves a negative offset.
THEOREM VfsTypes == Spec => []TypeOK
<1>1. IInv => TypeOK
  BY DEF IInv
<1>2. QED
  BY <1>1, VfsInvariant, PTL
=============================================================================
