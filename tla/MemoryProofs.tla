---------------------------- MODULE MemoryProofs ----------------------------
(***************************************************************************)
(* Proofs about FrameMap and Memory.  For any number of frames and any     *)
(* size of chunk: the bitmap says which frames are taken, no frame is      *)
(* handed out twice, and none is withheld while the bitmap is complete.    *)
(* For any heap and any requests that do not wrap: the bitmap's own blocks *)
(* and the frames under the heap of memory_init are never handed out.      *)
(***************************************************************************)
EXTENDS Memory, WellFoundedInduction, FiniteSetTheorems, TLAPS

N == FramesPerChunk

LEMMA NType == N \in Nat /\ N > 0 /\ FrameCount \in Nat /\ FrameCount > 0
BY FrameAssumption DEF N

\* Multiplication by a chunk's size keeps the order.
LEMMA TimesN ==
  ASSUME NEW a \in Nat, NEW b \in Nat, a < b
  PROVE  a * N + N <= b * N
<1>1. PICK d \in Nat : b = a + 1 + d
  <2>1. b = a + 1 + (b - a - 1) /\ b - a - 1 \in Nat
    OBVIOUS
  <2>2. QED
    BY <2>1
<1>2. b * N = a * N + N + d * N
  BY <1>1, NType
<1>3. d * N \in Nat /\ a * N \in Nat /\ b * N \in Nat
  BY NType
<1>4. QED
  BY <1>2, <1>3, NType

LEMMA DivRem ==
  ASSUME NEW x \in Nat
  PROVE  /\ x \div N \in Nat /\ (x % N) \in 0..(N - 1)
         /\ x = (x \div N) * N + (x % N)
BY NType

\* A frame number determines its chunk and its place in it.
LEMMA OfFrameNo ==
  ASSUME NEW c \in Nat, NEW l \in Local
  PROVE  FrameNo(c, l) \in Nat /\ ChunkOf(FrameNo(c, l)) = c /\ LocalOf(FrameNo(c, l)) = l
<1>1. l \in 0..(N - 1) /\ c * N \in Nat
  BY NType DEF Local, N
<1>2. (c * N + l) \in Nat /\ (c * N + l) \div N = c
  BY <1>1, NType
<1>3. (c * N + l) % N = l
  BY <1>1, NType
<1>4. QED
  BY <1>2, <1>3 DEF FrameNo, ChunkOf, LocalOf, N

LEMMA OfFrame ==
  ASSUME NEW f \in Frames
  PROVE  /\ ChunkOf(f) \in Chunks /\ LocalOf(f) \in Local
         /\ FrameNo(ChunkOf(f), LocalOf(f)) = f
<1> DEFINE q == f \div N
           m == (FrameCount + N - 1) \div N
<1>1. f \in Nat /\ f < FrameCount
  BY NType DEF Frames
<1>2. q \in Nat /\ (f % N) \in 0..(N - 1) /\ f = q * N + (f % N)
  BY <1>1, DivRem
<1>3. FrameCount + N - 1 \in Nat
  BY NType
<1>4. /\ m \in Nat /\ ((FrameCount + N - 1) % N) \in 0..(N - 1)
      /\ FrameCount + N - 1 = m * N + ((FrameCount + N - 1) % N)
  BY <1>3, DivRem
<1> HIDE DEF q, m
<1>5. q * N \in Nat /\ m * N \in Nat
  BY <1>2, <1>4, NType
<1>6. q * N < m * N
  BY <1>1, <1>2, <1>4, <1>5, NType
<1>7. q < m
  <2> SUFFICES ASSUME m <= q PROVE FALSE
    BY <1>2, <1>4
  <2>1. CASE m = q
    BY <1>5, <1>6, <2>1
  <2>2. CASE m < q
    <3>1. m * N + N <= q * N
      BY <1>2, <1>4, <2>2, TimesN
    <3>2. QED
      BY <1>5, <1>6, <3>1, NType
  <2>3. QED
    BY <1>2, <1>4, <2>1, <2>2
<1>8. QED
  BY <1>2, <1>4, <1>7 DEF q, m, ChunkOf, LocalOf, FrameNo, Chunks, max_chunk, Local, N

LEMMA ChunksNat == Chunks \subseteq Nat /\ Local \subseteq Nat /\ 0 \in Local
<1>1. FrameCount + N - 1 \in Nat
  BY NType
<1>2. max_chunk \in Nat
  BY <1>1, DivRem DEF max_chunk, N
<1>3. QED
  BY <1>2, NType DEF Chunks, Local, N

LEMMA LeastIn ==
  ASSUME NEW T \in SUBSET Nat, T # {}
  PROVE  Least(T) \in T /\ \A y \in T : Least(T) <= y
<1> DEFINE R == {ss \in Nat \X Nat : ss[1] < ss[2]}
<1>1. IsWellFoundedOn(R, Nat)
  BY NatLessThanWellFounded, Zenon DEF OpToRel
<1>2. PICK x \in T : \A y \in T : ~(<<y, x>> \in R)
  <2> HIDE DEF R
  <2>1. QED
    BY <1>1, WFMin
<1>3. \A y \in T : ~(y < x)
  BY <1>2
<1>4. \A y \in T : x <= y
  BY <1>3
<1>5. QED
  BY <1>4 DEF Least

-----------------------------------------------------------------------------
(* The inductive invariant: before memmap_reserve nothing is taken, so the *)
(* range it records is all that is reserved, and what is reserved is never *)
(* held, so that a frame given back is clear again.                        *)
Untouched == ~booted => owned = {} /\ reserved = {}
Apart == owned \intersect reserved = {}

IInv == TypeOK /\ Accounted /\ Untouched /\ Apart

\* What alloc_frame picks, when it picks something: a clear bit.
LEMMA Picked ==
  ASSUME IInv, NEW failing \in SUBSET (Chunks \ present), Usable(failing) # {}
  PROVE  LET c == Least(Usable(failing))
             l == Least(Local \ words[c])
         IN  c \in Chunks /\ l \in Local /\ l \notin words[c]
<1> DEFINE c == Least(Usable(failing))
           l == Least(Local \ words[c])
<1>1. Usable(failing) \in SUBSET Nat
  BY ChunksNat DEF Usable
<1>2. c \in Usable(failing)
  BY <1>1, LeastIn
<1> HIDE DEF c
<1>3. c \in Chunks /\ words[c] \subseteq Local
  BY <1>2 DEF IInv, TypeOK, Usable
<1>4. words[c] # Local
  <2>1. CASE c \in present
    BY <1>2, <2>1 DEF Usable
  <2>2. CASE c \notin present
    <3>1. words[c] = {}
      BY <1>3, <2>2 DEF IInv, Accounted
    <3>2. QED
      BY <3>1, ChunksNat
  <2>3. QED
    BY <2>1, <2>2
<1>5. Local \ words[c] \in SUBSET Nat /\ Local \ words[c] # {}
  BY <1>3, <1>4, ChunksNat
<1>6. l \in Local \ words[c]
  BY <1>5, LeastIn
<1>7. QED
  BY <1>3, <1>6 DEF c

\* The frame of a clear bit is neither held nor reserved.
LEMMA ClearIsFree ==
  ASSUME IInv, NEW c \in Chunks, NEW l \in Local, l \notin words[c]
  PROVE  FrameNo(c, l) \in Frames => FrameNo(c, l) \notin owned \union reserved
<1>1. ChunkOf(FrameNo(c, l)) = c /\ LocalOf(FrameNo(c, l)) = l
  BY OfFrameNo, ChunksNat
<1>2. QED
  BY <1>1 DEF IInv, Accounted, Marked

\* A bit set in a chunk concerns its own frame only.
LEMMA OneBit ==
  ASSUME NEW w \in [Chunks -> SUBSET Local], NEW c \in Chunks, NEW l \in Local,
         NEW f \in Frames
  PROVE  /\ LocalOf(f) \in [w EXCEPT ![c] = @ \union {l}][ChunkOf(f)]
               <=> (LocalOf(f) \in w[ChunkOf(f)] \/ f = FrameNo(c, l))
         /\ LocalOf(f) \in [w EXCEPT ![c] = @ \ {l}][ChunkOf(f)]
               <=> (LocalOf(f) \in w[ChunkOf(f)] /\ f # FrameNo(c, l))
<1>1. /\ ChunkOf(f) \in Chunks /\ LocalOf(f) \in Local
      /\ FrameNo(ChunkOf(f), LocalOf(f)) = f
  BY OfFrame
<1>2. ChunkOf(FrameNo(c, l)) = c /\ LocalOf(FrameNo(c, l)) = l
  BY OfFrameNo, ChunksNat
<1>3. f = FrameNo(c, l) <=> ChunkOf(f) = c /\ LocalOf(f) = l
  BY <1>1, <1>2
<1>4. QED
  BY <1>1, <1>3

LEMMA AllocStep ==
  ASSUME IInv, NEW failing \in SUBSET (Chunks \ present), alloc_frame(failing)
  PROVE  IInv' /\ (result' # NULL => result' \notin owned \union reserved)
<1> DEFINE c == Least(Usable(failing))
           l == Least(Local \ words[c])
           f == FrameNo(c, l)
<1>1. CASE Usable(failing) = {}
  BY <1>1 DEF alloc_frame, IInv, TypeOK, Accounted, Marked, Untouched, Apart
<1>2. CASE Usable(failing) # {}
  <2>1. c \in Chunks /\ l \in Local /\ l \notin words[c]
    BY <1>2, Picked
  <2>2. /\ booted /\ booted' = booted /\ reserved' = reserved
        /\ present' = present \union {c}
        /\ \/ /\ InRange(f) /\ result' = f
              /\ words' = [words EXCEPT ![c] = @ \union {l}] /\ owned' = owned \union {f}
           \/ result' = NULL /\ words' = words /\ owned' = owned
    BY <1>2 DEF alloc_frame
  <2> HIDE DEF c, l
  <2>3. CASE result' = NULL /\ words' = words /\ owned' = owned
    BY <2>1, <2>2, <2>3 DEF IInv, TypeOK, Accounted, Marked, Untouched, Apart
  <2>4. CASE /\ InRange(f) /\ result' = f
             /\ words' = [words EXCEPT ![c] = @ \union {l}] /\ owned' = owned \union {f}
    <3>1. f \in Frames
      BY <2>1, <2>4, OfFrameNo, ChunksNat, NType DEF InRange, Frames
    <3>2. f \notin owned \union reserved
      BY <2>1, <3>1, ClearIsFree
    <3>3. TypeOK' /\ Untouched' /\ Apart'
      BY <2>1, <2>2, <2>4, <3>1, <3>2 DEF IInv, TypeOK, Untouched, Apart
    <3>4. \A g \in Frames : Marked(g)' <=> g \in owned' \union reserved'
      <4> SUFFICES ASSUME NEW g \in Frames
                   PROVE  Marked(g)' <=> g \in owned' \union reserved'
        OBVIOUS
      <4>1. LocalOf(g) \in words'[ChunkOf(g)]
              <=> (LocalOf(g) \in words[ChunkOf(g)] \/ g = f)
        BY <2>1, <2>4, OneBit DEF IInv, TypeOK
      <4>2. QED
        BY <2>2, <2>4, <4>1 DEF IInv, Accounted, Marked, LocalOf, ChunkOf
    <3>5. \A d \in Chunks : \A k \in words'[d] : FrameNo(d, k) \in Frames
      BY <2>1, <2>4, <3>1 DEF IInv, TypeOK, Accounted
    <3>6. \A d \in Chunks : words'[d] # {} => d \in present'
      BY <2>1, <2>2, <2>4 DEF IInv, TypeOK, Accounted
    <3>7. Accounted'
      BY <3>4, <3>5, <3>6 DEF Accounted, FrameNo, Frames, Chunks, max_chunk
    <3>8. QED
      BY <2>4, <3>2, <3>3, <3>7 DEF IInv
  <2>5. QED
    BY <2>2, <2>3, <2>4
<1>3. QED
  BY <1>1, <1>2

LEMMA FreeStep ==
  ASSUME IInv, NEW f \in owned, free_frame(f)
  PROVE  IInv' /\ result' = NULL
<1> DEFINE c == ChunkOf(f)
           l == LocalOf(f)
<1>1. f \in Frames /\ f \in owned \union reserved /\ f \notin reserved
  BY DEF IInv, TypeOK, Apart
<1>2. c \in Chunks /\ l \in Local /\ FrameNo(c, l) = f
  BY <1>1, OfFrame
<1>3. c \in present
  BY <1>1, <1>2 DEF IInv, Accounted, Marked
<1>4. /\ words' = [words EXCEPT ![c] = @ \ {l}] /\ owned' = owned \ {f} /\ result' = NULL
      /\ present' = present /\ reserved' = reserved /\ booted' = booted
  BY <1>3 DEF free_frame
<1> HIDE DEF c, l
<1>5. TypeOK' /\ Untouched' /\ Apart'
  BY <1>2, <1>4 DEF IInv, TypeOK, Untouched, Apart
<1>6. \A g \in Frames : Marked(g)' <=> g \in owned' \union reserved'
  <2> SUFFICES ASSUME NEW g \in Frames
               PROVE  Marked(g)' <=> g \in owned' \union reserved'
    OBVIOUS
  <2>1. LocalOf(g) \in words'[ChunkOf(g)]
          <=> (LocalOf(g) \in words[ChunkOf(g)] /\ g # f)
    BY <1>2, <1>4, OneBit DEF IInv, TypeOK
  <2>2. QED
    BY <1>1, <1>4, <2>1 DEF IInv, Accounted, Marked, LocalOf, ChunkOf
<1>7. \A d \in Chunks : \A k \in words'[d] : FrameNo(d, k) \in Frames
  BY <1>2, <1>4 DEF IInv, TypeOK, Accounted
<1>8. \A d \in Chunks : words'[d] # {} => d \in present'
  BY <1>2, <1>4 DEF IInv, TypeOK, Accounted
<1>9. Accounted'
  BY <1>6, <1>7, <1>8 DEF Accounted, FrameNo, Frames, Chunks, max_chunk
<1>10. QED
  BY <1>4, <1>5, <1>9 DEF IInv

LEMMA ReserveStep ==
  ASSUME IInv, NEW s \in 0..FrameCount, NEW e \in 0..FrameCount, memmap_reserve(s, e)
  PROVE  IInv'
<1> DEFINE range == {f \in Frames : s <= f /\ f < e}
           set(c) == {LocalOf(f) : f \in {g \in range : ChunkOf(g) = c}}
<1>1. /\ booted' = TRUE /\ owned = {} /\ reserved = {} /\ owned' = {} /\ result' = result
      /\ present' = present \union {ChunkOf(f) : f \in range} /\ reserved' = range
      /\ words' = [c \in Chunks |-> words[c] \union set(c)]
  BY DEF memmap_reserve, IInv, Untouched
<1>2. range \subseteq Frames
  OBVIOUS
<1>3. \A c \in Chunks : set(c) \subseteq Local
  BY <1>2, OfFrame
<1>4. \A c \in Chunks : \A k \in set(c) : FrameNo(c, k) \in range /\ c \in present'
  BY <1>1, <1>2, OfFrame
<1>5. \A g \in Frames : LocalOf(g) \in set(ChunkOf(g)) <=> g \in range
  <2> TAKE g \in Frames
  <2>1. ASSUME LocalOf(g) \in set(ChunkOf(g)) PROVE g \in range
    <3>1. PICK h \in range : ChunkOf(h) = ChunkOf(g) /\ LocalOf(h) = LocalOf(g)
      BY <2>1
    <3>2. h = g
      BY <1>2, <3>1, OfFrame
    <3>3. QED
      BY <3>2
  <2>2. QED
    BY <2>1
<1> HIDE DEF range, set
<1>6. \A g \in Frames : ~Marked(g) /\ ChunkOf(g) \in Chunks
  BY <1>1, OfFrame DEF IInv, Accounted
<1>7. TypeOK'
  <2>1. {ChunkOf(f) : f \in range} \subseteq Chunks
    BY <1>2, OfFrame
  <2>2. QED
    BY <1>1, <1>2, <1>3, <2>1 DEF IInv, TypeOK
<1>8. Untouched' /\ Apart'
  BY <1>1 DEF Untouched, Apart
<1>9. \A g \in Frames : Marked(g)' <=> g \in owned' \union reserved'
  <2> SUFFICES ASSUME NEW g \in Frames
               PROVE  Marked(g)' <=> g \in owned' \union reserved'
    OBVIOUS
  <2>1. LocalOf(g) \in words'[ChunkOf(g)] <=> g \in range
    BY <1>1, <1>5, <1>6 DEF Marked
  <2>2. QED
    BY <1>1, <2>1 DEF Marked, LocalOf, ChunkOf
<1>10. \A d \in Chunks : \A k \in words'[d] : FrameNo(d, k) \in Frames /\ d \in present'
  BY <1>1, <1>2, <1>4 DEF IInv, Accounted
<1>11. Accounted'
  BY <1>9, <1>10 DEF Accounted, FrameNo, Frames, Chunks, max_chunk
<1>12. QED
  BY <1>7, <1>8, <1>11 DEF IInv

-----------------------------------------------------------------------------
LEMMA InitIInv == Init => IInv
<1> SUFFICES ASSUME Init PROVE IInv
  OBVIOUS
<1>1. TypeOK
  BY DEF Init, TypeOK
<1>2. Accounted
  BY OfFrame DEF Init, Accounted, Marked
<1>3. QED
  BY <1>1, <1>2 DEF Init, IInv, Untouched, Apart

LEMMA NextIInv == IInv /\ [Next]_vars => IInv'
<1> SUFFICES ASSUME IInv, [Next]_vars PROVE IInv'
  OBVIOUS
<1>1. ASSUME NEW failing \in SUBSET (Chunks \ present), alloc_frame(failing) PROVE IInv'
  BY <1>1, AllocStep
<1>2. ASSUME NEW f \in owned, free_frame(f) PROVE IInv'
  BY <1>2, FreeStep
<1>3. ASSUME NEW s \in 0..FrameCount, NEW e \in 0..FrameCount, memmap_reserve(s, e)
      PROVE  IInv'
  BY <1>3, ReserveStep
<1>4. CASE UNCHANGED vars
  BY <1>4 DEF vars, IInv, TypeOK, Accounted, Marked, Untouched, Apart
<1>5. QED
  BY <1>1, <1>2, <1>3, <1>4 DEF Next

\* The bits of the bitmap are the frames that are held or reserved, whatever
\* chunks alloc_frame creates or fails to create.
THEOREM FramesAccounted == Spec => []Accounted
<1>1. IInv => Accounted
  BY DEF IInv
<1>2. QED
  BY <1>1, InitIInv, NextIInv, PTL DEF Spec

\* The types of the bitmap and of its lists.
THEOREM FrameTypes == Spec => []TypeOK
<1>1. IInv => TypeOK
  BY DEF IInv
<1>2. QED
  BY <1>1, InitIInv, NextIInv, PTL DEF Spec

\* A call of alloc_frame never returns a frame that is held or reserved.
THEOREM NeverHandedOutTwice == Spec => NeverTwice
<1>1. IInv /\ [Next]_vars
        => [booted /\ result' # NULL => result' \notin owned \union reserved]_vars
  <2> SUFFICES ASSUME IInv, Next, booted, result' # NULL
               PROVE  result' \notin owned \union reserved
    OBVIOUS
  <2>1. ASSUME NEW failing \in SUBSET (Chunks \ present), alloc_frame(failing)
        PROVE  result' \notin owned \union reserved
    BY <2>1, AllocStep
  <2>2. ASSUME NEW f \in owned, free_frame(f) PROVE FALSE
    BY <2>2, FreeStep
  <2>3. ASSUME NEW s \in 0..FrameCount, NEW e \in 0..FrameCount, memmap_reserve(s, e)
        PROVE  FALSE
    BY <2>3 DEF memmap_reserve
  <2>4. QED
    BY <2>1, <2>2, <2>3 DEF Next
<1>2. QED
  BY <1>1, InitIInv, NextIInv, PTL DEF Spec, NeverTwice

\* Frames with a set bit are taken: if every bit in range is set, all are.
LEMMA AllMarked ==
  ASSUME IInv, \A f \in Frames : LocalOf(f) \in words[ChunkOf(f)]
  PROVE  owned \union reserved = Frames
<1>1. owned \union reserved \subseteq Frames
  BY DEF IInv, TypeOK
<1>2. \A f \in Frames : f \in owned \union reserved
  BY DEF IInv, Accounted, Marked
<1> QED BY <1>1, <1>2

\* The bit alloc_frame finds behind the end of the managed range is the first
\* clear one of all.
LEMMA RefusedAtEnd ==
  ASSUME IInv, present = Chunks, NEW failing \in SUBSET (Chunks \ present),
         Usable(failing) # {},
         ~InRange(FrameNo(Least(Usable(failing)), Least(Local \ words[Least(Usable(failing))]))),
         NEW f \in Frames
  PROVE  LocalOf(f) \in words[ChunkOf(f)]
<1> DEFINE U == Usable(failing)
           c == Least(U)
           W == Local \ words[c]
           l == Least(W)
           d == ChunkOf(f)
           k == LocalOf(f)
<1>1. U = {x \in Chunks : words[x] # Local}
  BY DEF Usable
<1>2. U \in SUBSET Nat /\ U # {}
  BY <1>1, ChunksNat
<1>3. c \in Chunks /\ l \in Local /\ l \notin words[c]
  BY Picked
<1>4. \A x \in U : c <= x
  <2> HIDE DEF U
  <2> QED BY <1>2, LeastIn
<1>5. ~(FrameNo(c, l) < FrameCount)
  BY DEF InRange
<1>6. \A y \in W : l <= y
  <2>1. W \in SUBSET Nat /\ W # {}
    BY <1>3, ChunksNat
  <2> HIDE DEF W
  <2> QED BY <2>1, LeastIn
<1>7. /\ d \in Chunks /\ k \in Local /\ FrameNo(d, k) = f /\ f \in Nat /\ f < FrameCount
      /\ d \in Nat /\ k \in Nat /\ c \in Nat /\ l \in Nat /\ l < N
  <2>1. \A x \in Local : x < N
    BY NType DEF Local, N
  <2>2. d \in Chunks /\ k \in Local /\ FrameNo(d, k) = f
    BY OfFrame
  <2>3. f \in Nat /\ f < FrameCount
    BY NType DEF Frames
  <2> HIDE DEF U, c, l, d, k
  <2> QED BY <1>3, <2>1, <2>2, <2>3, ChunksNat
<1> HIDE DEF U, c, l, d, k
<1>8. SUFFICES ASSUME k \notin words[d] PROVE FALSE
  BY DEF d, k
<1>9. d \in U
  BY <1>1, <1>7, <1>8
<1>10. c <= d
  BY <1>4, <1>9
<1>11. f = d * N + k /\ ~(c * N + l < FrameCount) /\ c * N \in Nat /\ d * N \in Nat
  BY <1>5, <1>7, NType DEF FrameNo, N
<1>12. CASE c < d
  <2>1. c * N + N <= d * N
    BY <1>7, <1>12, TimesN
  <2> QED BY <1>7, <1>11, <2>1, NType
<1>13. CASE c = d
  <2>1. l <= k
    BY <1>6, <1>7, <1>8, <1>13
  <2> QED BY <1>7, <1>11, <1>13, <2>1, NType
<1> QED BY <1>7, <1>10, <1>12, <1>13

\* alloc_frame gives up only when every frame is taken or some chunk could not
\* be created: the clear bits behind the end of the last chunk, at which it
\* stops, hide no free frame.
THEOREM RefusedOnlyWhenFull == Spec => FullWhenRefused
<1>1. IInv /\ [Next]_vars
        => [booted /\ result' = NULL /\ owned' = owned
              => owned \union reserved = Frames \/ present # Chunks]_vars
  <2> SUFFICES ASSUME IInv, Next, booted, result' = NULL, owned' = owned, present = Chunks
               PROVE  owned \union reserved = Frames
    OBVIOUS
  <2>1. ASSUME NEW failing \in SUBSET (Chunks \ present), alloc_frame(failing)
        PROVE  owned \union reserved = Frames
    <3> DEFINE c == Least(Usable(failing))
               l == Least(Local \ words[c])
               n == FrameNo(c, l)
    <3>1. CASE Usable(failing) = {}
      <4>1. \A x \in Chunks : words[x] = Local
        BY <3>1 DEF Usable
      <4> QED BY <4>1, AllMarked, OfFrame
    <3>2. CASE Usable(failing) # {}
      <4>1. InRange(n) => result' = n
        BY <2>1, <3>2 DEF alloc_frame
      <4>2. n # NULL
        <5>1. c \in Chunks /\ l \in Local
          BY <3>2, Picked
        <5> HIDE DEF c, l
        <5> QED BY <5>1, OfFrameNo, ChunksNat DEF NULL
      <4>3. ~InRange(n)
        BY <4>1, <4>2
      <4> QED BY <3>2, <4>3, AllMarked, RefusedAtEnd
    <3> QED BY <3>1, <3>2
  <2>2. ASSUME NEW f \in owned, free_frame(f) PROVE FALSE
    BY <2>2 DEF free_frame
  <2>3. ASSUME NEW s \in 0..FrameCount, NEW e \in 0..FrameCount, memmap_reserve(s, e)
        PROVE  FALSE
    BY <2>3 DEF memmap_reserve
  <2> QED BY <2>1, <2>2, <2>3 DEF Next
<1>2. QED
  BY <1>1, InitIInv, NextIInv, PTL DEF Spec, FullWhenRefused

-----------------------------------------------------------------------------
(* The heap below the bitmap: the operators of Heap, as HeapProofs knows   *)
(* them.                                                                   *)

HP == INSTANCE HeapProofs WITH
  free_list <- heap.free, heap_end_addr <- heap.end, live <- heap.live,
  call <- <<>>, Callers <- {}, Sizes <- Requests

\* The assumptions of HeapProofs hold of the heap of memory_init.
LEMMA HeapAssumed ==
  /\ HeapStart \in Nat /\ HeapEnd \in Nat /\ HeapEnd - HeapStart >= HP!HeaderSize
  /\ HeapStart % HP!ALIGN = 0 /\ HeapEnd % HP!ALIGN = 0
  /\ PageSize \in Nat \ {0} /\ PageSize % HP!ALIGN = 0
  /\ WordMod \in Nat \ {0} /\ MinExpand \in Nat
  /\ Requests \subseteq Nat
BY HeapSetUp DEF H!HeaderSize, HP!HeaderSize, H!ALIGN, HP!ALIGN

\* H and HP are two instances of the same module: their operators are equal.
LEMMA SameSizes ==
  ASSUME NEW n
  PROVE  H!total_size(n) = HP!total_size(n) /\ H!expand_size(n) = HP!expand_size(n)
<1>1. \A x : H!align_up(x) = HP!align_up(x)
  BY DEF H!align_up, HP!align_up, H!ALIGN, HP!ALIGN
<1>2. \A x : H!wanted_with_canary(x) = HP!wanted_with_canary(x)
  BY <1>1 DEF H!wanted_with_canary, HP!wanted_with_canary, H!CanarySize, HP!CanarySize
<1>3. H!total_size(n) = HP!total_size(n)
  BY <1>2 DEF H!total_size, HP!total_size, H!HeaderSize, HP!HeaderSize
<1> QED BY <1>3 DEF H!expand_size, HP!expand_size

LEMMA SameBlocks ==
  /\ \A a, n : H!Block(a, n) = HP!Block(a, n)
  /\ \A b : H!End(b) = HP!End(b)
  /\ \A b, t : H!Taken(b, t) = HP!Taken(b, t)
BY DEF H!Block, HP!Block, H!End, HP!End, H!Taken, HP!Taken, H!Splits, HP!Splits,
       H!HeaderSize, HP!HeaderSize, H!ALIGN, HP!ALIGN

LEMMA SameJoin ==
  ASSUME NEW s, NEW b
  PROVE  H!Join(s, b) = HP!Join(s, b)
BY DEF H!Join, HP!Join, H!Last, HP!Last, H!Front, HP!Front, H!End, HP!End,
       H!Block, HP!Block

LEMMA SameLists ==
  ASSUME NEW s
  PROVE  /\ H!NonEmpty(s) = HP!NonEmpty(s)
         /\ \A t : H!FirstFit(s, t) = HP!FirstFit(s, t)
         /\ \A a : H!Below(s, a) = HP!Below(s, a) /\ H!From(s, a) = HP!From(s, a)
<1>1. H!NonEmpty(s) = HP!NonEmpty(s)
  BY DEF H!NonEmpty, HP!NonEmpty
<1>2. \A t : H!FirstFit(s, t) = HP!FirstFit(s, t)
  BY DEF H!FirstFit, HP!FirstFit
<1>3. \A a : H!Below(s, a) = HP!Below(s, a) /\ H!From(s, a) = HP!From(s, a)
  BY DEF H!Below, HP!Below, H!From, HP!From, H!Place, HP!Place
<1> QED BY <1>1, <1>2, <1>3

LEMMA SameCoalesced ==
  ASSUME NEW s
  PROVE  H!Coalesced(s) = HP!Coalesced(s)
BY DEF H!Coalesced, HP!Coalesced, H!Join, HP!Join, H!Last, HP!Last, H!Front, HP!Front,
       H!End, HP!End, H!Block, HP!Block

LEMMA SameChanges ==
  ASSUME NEW s
  PROVE  /\ \A b : H!Coalesced(H!Inserted(s, b)) = HP!Coalesced(HP!Inserted(s, b))
         /\ \A b : H!Extended(s, b) = HP!Extended(s, b)
         /\ \A i, t : H!WithoutFit(s, i, t) = HP!WithoutFit(s, i, t)
<1>1. ASSUME NEW b PROVE H!Coalesced(H!Inserted(s, b)) = HP!Coalesced(HP!Inserted(s, b))
  <2>1. H!Inserted(s, b) = HP!Inserted(s, b)
    BY SameLists DEF H!Inserted, HP!Inserted
  <2> QED BY <2>1, SameCoalesced
<1>2. ASSUME NEW b PROVE H!Extended(s, b) = HP!Extended(s, b)
  <2>1. H!Below(s, b.addr) = HP!Below(s, b.addr) /\ H!From(s, b.addr) = HP!From(s, b.addr)
    BY SameLists
  <2>2. \A t, d : H!Join(t, d) = HP!Join(t, d)
    BY SameJoin
  <2> QED BY <2>1, <2>2 DEF H!Extended, HP!Extended
<1>3. ASSUME NEW i, NEW t PROVE H!WithoutFit(s, i, t) = HP!WithoutFit(s, i, t)
  <2>1. H!NonEmpty(SubSeq(s, 1, i - 1)) = HP!NonEmpty(SubSeq(s, 1, i - 1))
    BY SameLists
  <2>2. H!Splits(s[i], t) = HP!Splits(s[i], t)
    BY DEF H!Splits, HP!Splits, H!HeaderSize, HP!HeaderSize, H!ALIGN, HP!ALIGN
  <2>3. H!Block(s[i].addr + t, s[i].size - t) = HP!Block(s[i].addr + t, s[i].size - t)
    BY SameBlocks
  <2> QED BY <2>1, <2>2, <2>3 DEF H!WithoutFit, HP!WithoutFit
<1> QED BY <1>1, <1>2, <1>3

-----------------------------------------------------------------------------
(* kmalloc and kfree keep the heap in order.                               *)

\* The sizes of requests do not wrap, and heap_expand adds enough for one.
LEMMA RequestSizes ==
  ASSUME NEW n \in Requests
  PROVE  /\ H!total_size(n) \in Nat /\ H!total_size(n) # 0 /\ HP!Aligned(H!total_size(n))
         /\ H!expand_size(n) \in Nat /\ HP!Aligned(H!expand_size(n))
         /\ H!total_size(n) <= H!expand_size(n)
<1>1. HP!NoWrap
  BY SmallRequests DEF HP!NoWrap, HP!ALIGN, HP!HeaderSize, HP!CanarySize,
                       H!ALIGN, H!HeaderSize, H!CanarySize
<1>2. HP!total_size(n) \in Nat /\ HP!total_size(n) # 0 /\ HP!Aligned(HP!total_size(n))
  BY <1>1, HP!TotalSize, HeapAssumed
<1>3. HP!expand_size(n) \in Nat /\ HP!Aligned(HP!expand_size(n))
  BY <1>2, HP!ExpandSize, HeapAssumed
<1> QED BY <1>2, <1>3, SameSizes, SmallRequests

HeapRec == [free : Seq(HP!BlockRec), end : Nat, live : SUBSET HP!BlockRec]

\* The blocks in L are the ones in use in heap h.
HeapHolds(h, L) == h \in HeapRec /\ HP!HeapOK(h.free, L, h.end)

\* What HeapOK says of two blocks.
LEMMA HeapBlocks ==
  ASSUME NEW s, NEW L, NEW end, HP!HeapOK(s, L, end)
  PROVE  /\ end \in Nat /\ s \in Seq(HP!BlockRec) /\ L \subseteq HP!BlockRec
         /\ HP!Range(s) = {s[i] : i \in 1..Len(s)}
         /\ \A b \in HP!Range(s) \union L :
              /\ b.addr \in Nat /\ b.size \in Nat /\ HP!End(b) = b.addr + b.size
              /\ HeapStart <= b.addr /\ HP!End(b) <= end
         /\ \A d \in L : d.size # 0
         /\ \A i, j \in 1..Len(s) : i # j => HP!End(s[i]) < s[j].addr \/ HP!End(s[j]) < s[i].addr
         /\ \A x \in HP!Range(s), d \in L : HP!Apart(x, d)
         /\ \A d, e \in L : d # e => HP!Apart(d, e)
<1>1. /\ s \in Seq(HP!BlockRec) /\ end \in Nat /\ HP!Spread(s)
      /\ HP!InUse(L, end) /\ HP!Fit(HP!Range(s), L, end)
  BY DEF HP!HeapOK
<1>2. L \subseteq HP!BlockRec /\ HP!Range(s) \subseteq HP!BlockRec
  BY <1>1 DEF HP!InUse, HP!Fit
<1>3. \A b \in HP!BlockRec : b.addr \in Nat /\ b.size \in Nat /\ HP!End(b) = b.addr + b.size
  BY DEF HP!BlockRec, HP!End
<1>4. \A b \in HP!Range(s) \union L : HeapStart <= b.addr /\ HP!End(b) <= end
  BY <1>1 DEF HP!InUse, HP!Fit
<1>5. HP!Range(s) = {s[i] : i \in 1..Len(s)}
  BY <1>1, HP!RangeOf, HeapAssumed
<1>6. \A i, j \in 1..Len(s) : i # j => HP!End(s[i]) < s[j].addr \/ HP!End(s[j]) < s[i].addr
  BY <1>1 DEF HP!Spread
<1>7. /\ \A d \in L : d.size # 0
      /\ \A x \in HP!Range(s), d \in L : HP!Apart(x, d)
      /\ \A d, e \in L : d # e => HP!Apart(d, e)
  BY <1>1 DEF HP!InUse, HP!Fit
<1> QED BY <1>1, <1>2, <1>3, <1>4, <1>5, <1>6, <1>7

\* Behind the blocks in use, as they were, the heap that has grown is one free
\* block, so that it holds what it has grown for.
LEMMA RoomBehind ==
  ASSUME NEW s, NEW L, NEW end, NEW n \in Nat, n # 0, end \in Nat,
         HP!HeapOK(s, L, end + n), \A d \in L : HP!End(d) <= end, HeapStart <= end
  PROVE  \E i \in 1..Len(s) : s[i].size >= n
<1>1. /\ HP!Range(s) = {s[i] : i \in 1..Len(s)}
      /\ \A b \in HP!Range(s) \union L :
              /\ b.addr \in Nat /\ b.size \in Nat /\ HP!End(b) = b.addr + b.size
              /\ HeapStart <= b.addr /\ HP!End(b) <= end + n
      /\ \A i, j \in 1..Len(s) : i # j => HP!End(s[i]) < s[j].addr \/ HP!End(s[j]) < s[i].addr
  BY HeapBlocks
<1>2. ASSUME NEW a \in end..(end + n - 1)
      PROVE  \E i \in 1..Len(s) : s[i].addr <= a /\ a < HP!End(s[i])
  <2>1. a \in HeapStart..((end + n) - 1)
    BY HeapSetUp
  <2>2. PICK x \in HP!Range(s) \union L : x.addr <= a /\ a < HP!End(x)
    BY <2>1 DEF HP!HeapOK, HP!Covered, HP!Holds
  <2>3. x \notin L
    BY <1>1, <2>2
  <2>4. PICK i \in 1..Len(s) : x = s[i]
    BY <1>1, <2>2, <2>3
  <2> QED BY <2>2, <2>4
<1>3. PICK i \in 1..Len(s) : s[i].addr <= end /\ end < HP!End(s[i])
  <2>1. end \in end..(end + n - 1)
    OBVIOUS
  <2> QED BY <1>2, <2>1
<1>4. /\ s[i].addr \in Nat /\ s[i].size \in Nat /\ HP!End(s[i]) = s[i].addr + s[i].size
  BY <1>1, <1>3
<1>5. HP!End(s[i]) >= end + n
  <2> SUFFICES ASSUME HP!End(s[i]) < end + n PROVE FALSE
    BY <1>4
  <2>1. HP!End(s[i]) \in end..(end + n - 1)
    BY <1>3, <1>4
  <2>2. PICK j \in 1..Len(s) : s[j].addr <= HP!End(s[i]) /\ HP!End(s[i]) < HP!End(s[j])
    BY <1>2, <2>1
  <2>3. s[j].addr \in Nat /\ s[j].size \in Nat /\ HP!End(s[j]) = s[j].addr + s[j].size
    BY <1>1, <2>2
  <2>4. i # j
    BY <1>4, <2>2
  <2>5. HP!End(s[i]) < s[j].addr \/ HP!End(s[j]) < s[i].addr
    BY <1>1, <2>4, <1>3, <2>2
  <2> QED BY <1>3, <1>4, <2>2, <2>3, <2>5
<1> QED BY <1>3, <1>4, <1>5

\* The search finds a block if there is one that is large enough.
LEMMA FitsWhere ==
  ASSUME NEW s \in Seq(HP!BlockRec), NEW t \in Nat, t # 0,
         NEW i \in 1..Len(s), s[i].size >= t
  PROVE  HP!FirstFit(s, t) # 0
<1> DEFINE fits == {k \in 1..Len(s) : s[k].size # 0 /\ s[k].size >= t}
<1>1. s[i] \in HP!BlockRec
  OBVIOUS
<1>2. s[i].size \in Nat
  BY <1>1 DEF HP!BlockRec
<1>3. i \in fits /\ fits \in SUBSET Nat
  BY <1>2
<1>4. \E k \in fits : \A j \in fits : k <= j
  <2> HIDE DEF fits
  <2> QED BY <1>3, LeastIn
<1> DEFINE first == CHOOSE k \in fits : \A j \in fits : k <= j
<1>5. HP!FirstFit(s, t) = IF fits = {} THEN 0 ELSE first
  BY DEF HP!FirstFit
<1>6. first \in fits
  <2> HIDE DEF fits
  <2> QED BY <1>4
<1>7. first \in 1..Len(s)
  <2> HIDE DEF first
  <2> QED BY <1>6
<1> HIDE DEF first, fits
<1> QED BY <1>3, <1>5, <1>7

\* A heap after heap_expand.
LEMMA GrownHolds ==
  ASSUME NEW h, NEW L, HeapHolds(h, L), NEW n \in Requests
  PROVE  HeapHolds(Grown(h, n), L) /\ Fits(Grown(h, n), n) /\ Grown(h, n).live = h.live
<1> DEFINE x == H!expand_size(n)
           s == H!NonEmpty(h.free)
           t == H!Extended(s, H!Block(h.end, x))
           g == Grown(h, n)
<1>1. /\ x \in Nat /\ HP!Aligned(x) /\ H!total_size(n) <= x
      /\ H!total_size(n) \in Nat /\ H!total_size(n) # 0
  BY RequestSizes
<1>2. h \in HeapRec /\ HP!HeapOK(h.free, L, h.end)
  BY DEF HeapHolds
<1>3. g = [free |-> t, end |-> h.end + x, live |-> h.live]
  BY DEF Grown
<1>4. s = HP!NonEmpty(h.free) /\ t = HP!Extended(s, HP!Block(h.end, x))
  BY SameLists, SameChanges, SameBlocks
<1> HIDE DEF x, s, t, g
<1>5. HP!HeapOK(s, L, h.end) /\ HP!Filled(HP!Range(s))
  BY <1>2, <1>4, HP!DropOK, HeapAssumed
<1>6. HP!HeapOK(t, L, h.end + x)
  BY <1>1, <1>4, <1>5, HP!GrowOK, HeapAssumed
<1>7. g.free = t /\ g.end = h.end + x /\ g.live = h.live
  BY <1>3
<1>8. /\ h.end \in Nat /\ h.live \in SUBSET HP!BlockRec
      /\ \A d \in L : HP!End(d) <= h.end
  BY <1>2, HeapBlocks DEF HeapRec
<1>9. t \in Seq(HP!BlockRec) /\ h.end + x \in Nat
  BY <1>6, HeapBlocks
<1>10. g \in HeapRec
  BY <1>3, <1>8, <1>9 DEF HeapRec
<1>11. HeapStart <= h.end
  BY <1>2 DEF HP!HeapOK
<1>12. x # 0
  BY <1>1
<1>13. PICK i \in 1..Len(t) : t[i].size >= x
  BY <1>1, <1>6, <1>8, <1>11, <1>12, RoomBehind
<1>14. t[i].size >= H!total_size(n)
  <2>1. t[i] \in HP!BlockRec
    BY <1>9, <1>13
  <2>2. t[i].size \in Nat
    BY <2>1 DEF HP!BlockRec
  <2> QED BY <1>1, <1>13, <2>2
<1>15. HP!FirstFit(t, H!total_size(n)) # 0
  BY <1>1, <1>9, <1>13, <1>14, FitsWhere
<1>16. Fits(g, n)
  BY <1>7, <1>15, SameLists DEF Fits
<1> QED BY <1>6, <1>7, <1>10, <1>16 DEF HeapHolds, g

\* kmalloc: the block it returns is in nobody's hands yet.
LEMMA AllocatedHolds ==
  ASSUME NEW h, NEW L, HeapHolds(h, L), NEW n \in Requests
  PROVE  /\ Allocated(h, n).block \in HP!BlockRec /\ Allocated(h, n).block \notin L
         /\ HeapHolds(Allocated(h, n).heap, L \union {Allocated(h, n).block})
         /\ Allocated(h, n).heap.live = h.live
<1> DEFINE r == Room(h, n)
           t == H!total_size(n)
           i == H!FirstFit(r.free, t)
           b == H!Taken(r.free[i], t)
           s == H!WithoutFit(r.free, i, t)
           g == [free |-> s, end |-> r.end, live |-> r.live]
           M == L \union {b}
<1>1. t \in Nat /\ t # 0 /\ HP!Aligned(t)
  BY RequestSizes
<1>2. HeapHolds(r, L) /\ Fits(r, n) /\ r.live = h.live
  BY GrownHolds DEF Room
<1>3. Allocated(h, n) = [heap |-> g, block |-> b]
  BY DEF Allocated
<1> HIDE DEF r
<1>4. r \in HeapRec /\ HP!HeapOK(r.free, L, r.end)
  BY <1>2 DEF HeapHolds
<1>5. /\ r.free \in Seq(HP!BlockRec) /\ r.end \in Nat /\ r.live \in SUBSET HP!BlockRec
  BY <1>4 DEF HeapRec
<1>6. i = HP!FirstFit(r.free, t) /\ i # 0
  BY <1>2, SameLists DEF Fits
<1>7. i \in 1..Len(r.free) /\ r.free[i].size # 0 /\ r.free[i].size >= t
  <2> HIDE DEF i, t
  <2> QED BY <1>1, <1>5, <1>6, HP!FirstFitIs, HeapAssumed
<1>8. b = HP!Taken(r.free[i], t) /\ s = HP!WithoutFit(r.free, i, t)
  BY SameBlocks, SameChanges
<1> HIDE DEF t, i, b, s
<1>9. /\ HP!HeapOK(s, M, r.end)
      /\ b.size >= t /\ \A d \in L : HP!Apart(b, d)
  BY <1>1, <1>4, <1>7, <1>8, HP!AllocOK, HeapAssumed
<1>10. s \in Seq(HP!BlockRec) /\ b \in HP!BlockRec
  BY <1>9, HeapBlocks
<1>11. b \notin L
  <2>1. ASSUME b \in L PROVE FALSE
    <3>1. HP!Apart(b, b) /\ b.size # 0
      BY <1>4, <1>9, <2>1, HeapBlocks
    <3> QED BY <1>10, <3>1 DEF HP!Apart, HP!End, HP!BlockRec
  <2> QED BY <2>1
<1>12. g \in HeapRec /\ g.free = s /\ g.end = r.end /\ g.live = r.live
  BY <1>5, <1>10 DEF HeapRec
<1>13. HeapHolds(g, M)
  BY <1>9, <1>12 DEF HeapHolds
<1> HIDE DEF g
<1>14. Allocated(h, n).heap = g /\ Allocated(h, n).block = b
  BY <1>3
<1> QED BY <1>2, <1>10, <1>11, <1>12, <1>13, <1>14

-----------------------------------------------------------------------------
(* The blocks of the bitmap.                                               *)

\* A heap and the blocks of the bitmap in it.
HeapAndMeta ==
  {hm \in [heap : HeapRec, meta : SUBSET HP!BlockRec] :
     /\ hm.heap.live \intersect hm.meta = {}
     /\ HeapHolds(hm.heap, hm.heap.live \union hm.meta)}

\* create_chunk takes two blocks that are in nobody's hands.
LEMMA ChunkCreated ==
  ASSUME NEW hm \in HeapAndMeta
  PROVE  create_chunk(hm) \in HeapAndMeta /\ create_chunk(hm).heap.live = hm.heap.live
<1> DEFINE one == Allocated(hm.heap, ChunkSize)
           two == Allocated(one.heap, WordsSize)
           L == hm.heap.live \union hm.meta
           K == L \union {one.block}
           m == hm.meta \union {one.block, two.block}
<1>1. /\ hm.heap \in HeapRec /\ hm.meta \in SUBSET HP!BlockRec
      /\ hm.heap.live \intersect hm.meta = {} /\ HeapHolds(hm.heap, L)
  BY DEF HeapAndMeta
<1>2. ChunkSize \in Requests /\ WordsSize \in Requests
  BY DEF Requests
<1> HIDE DEF L
<1>3. /\ one.block \in HP!BlockRec /\ one.block \notin L
      /\ HeapHolds(one.heap, K) /\ one.heap.live = hm.heap.live
  BY <1>1, <1>2, AllocatedHolds
<1> HIDE DEF one, K
<1>4. /\ two.block \in HP!BlockRec /\ two.block \notin K
      /\ HeapHolds(two.heap, K \union {two.block}) /\ two.heap.live = one.heap.live
  BY <1>2, <1>3, AllocatedHolds
<1>5. create_chunk(hm) = [heap |-> two.heap, meta |-> m]
  BY DEF create_chunk, ChunkBlocks, one
<1> HIDE DEF two
<1>6. two.heap \in HeapRec
  BY <1>4 DEF HeapHolds
<1>7. m \in SUBSET HP!BlockRec /\ two.heap.live \intersect m = {}
  BY <1>1, <1>3, <1>4 DEF K, L
<1>8. K \union {two.block} = two.heap.live \union m
  BY <1>3, <1>4 DEF K, L
<1> HIDE DEF m
<1>9. [heap |-> two.heap, meta |-> m] \in HeapAndMeta
  BY <1>4, <1>6, <1>7, <1>8 DEF HeapAndMeta
<1>10. [heap |-> two.heap, meta |-> m].heap = two.heap
  OBVIOUS
<1> QED BY <1>3, <1>4, <1>5, <1>9, <1>10

\* ... and so do any number of calls.
LEMMA ChunksCreated ==
  ASSUME NEW n \in Nat, NEW hm \in HeapAndMeta
  PROVE  create_chunks(n, hm) \in HeapAndMeta
<1> DEFINE V == HeapAndMeta
           Eq(h) == h = [i \in 0..n |-> IF i = 0 THEN hm ELSE create_chunk(h[i - 1])]
           g == [v \in V \X (1..n) |-> create_chunk(v[1])]
           u == CHOOSE h : Eq(h)
<1>1. g \in [V \X (1..n) -> V]
  <2> SUFFICES ASSUME NEW v \in V \X (1..n) PROVE create_chunk(v[1]) \in V
    OBVIOUS
  <2>1. v[1] \in V
    OBVIOUS
  <2> QED BY <2>1, ChunkCreated
<1>2. PICK f \in [0..n -> V] : f[0] = hm /\ \A i \in 1..n : f[i] = g[<<f[i - 1], i>>]
  <2>1. HP!Recursions(n, V, hm, g) # {}
    <3> HIDE DEF g
    <3> QED BY <1>1, HP!Recursion, HeapAssumed
  <2> HIDE DEF V, g
  <2> QED BY <2>1 DEF HP!Recursions
<1>3. \A i \in 1..n : f[i] = create_chunk(f[i - 1])
  <2> SUFFICES ASSUME NEW i \in 1..n PROVE f[i] = create_chunk(f[i - 1])
    OBVIOUS
  <2> HIDE DEF V
  <2>1. f[i - 1] \in V
    OBVIOUS
  <2> QED BY <1>2, <2>1
<1>4. Eq(f)
  <2>1. ASSUME NEW i \in 0..n PROVE f[i] = IF i = 0 THEN hm ELSE create_chunk(f[i - 1])
    BY <1>2, <1>3
  <2> HIDE DEF V
  <2> QED BY <1>2, <2>1
<1>5. Eq(u)
  <2> HIDE DEF Eq
  <2> QED BY <1>4, Zenon
<1>6. \A i \in 0..n : u[i] = IF i = 0 THEN hm ELSE create_chunk(u[i - 1])
  <2> HIDE DEF u
  <2> QED BY <1>5
<1> DEFINE S == {i \in 0..n : u[i] \in V}
<1> HIDE DEF u, V
<1>7. 0 \in S
  BY <1>6 DEF V
<1>8. ASSUME NEW i \in 0..(n - 1), i \in S PROVE i + 1 \in S
  <2>1. i + 1 \in 0..n /\ i + 1 # 0 /\ (i + 1) - 1 = i
    OBVIOUS
  <2>2. u[i + 1] = create_chunk(u[i])
    BY <1>6, <2>1
  <2>3. u[i + 1] \in V
    BY <1>8, <2>2, ChunkCreated DEF V
  <2> QED BY <2>1, <2>3
<1>9. \A i \in 0..n : i \in S
  <2> HIDE DEF S
  <2> QED BY <1>7, <1>8, HP!UpToInduction, HeapAssumed
<1>10. create_chunks(n, hm) = u[n]
  BY DEF create_chunks, u
<1> QED BY <1>9, <1>10 DEF V

-----------------------------------------------------------------------------
(* The composition.  Besides the invariant of the frame map: the free      *)
(* blocks, the blocks of clients and those of the bitmap are a heap, and   *)
(* the frames under the heap that memory_init built are reserved.          *)

HeapInOrder == [heap |-> heap, meta |-> meta] \in HeapAndMeta
BootFramesReserved == booted => FramesOf(HeapStart, HeapEnd) \subseteq reserved

MemInv == IInv /\ HeapInOrder /\ BootFramesReserved

LEMMA HeapInOrderIs ==
  HeapInOrder <=> /\ heap \in HeapRec /\ meta \in SUBSET HP!BlockRec
                  /\ heap.live \intersect meta = {}
                  /\ HeapHolds(heap, heap.live \union meta)
<1> DEFINE hm == [heap |-> heap, meta |-> meta]
<1>1. hm.heap = heap /\ hm.meta = meta
  OBVIOUS
<1>2. hm \in [heap : HeapRec, meta : SUBSET HP!BlockRec]
        <=> heap \in HeapRec /\ meta \in SUBSET HP!BlockRec
  OBVIOUS
<1> HIDE DEF hm
<1>3. HeapInOrder <=> hm \in HeapAndMeta
  BY DEF HeapInOrder, hm
<1> QED BY <1>1, <1>2, <1>3 DEF HeapAndMeta

\* The parts of a heap that a step has changed.
LEMMA HeapInOrderNext ==
  ASSUME NEW s, NEW e, NEW l, NEW m,
         heap' = [free |-> s, end |-> e, live |-> l], meta' = m,
         l \in SUBSET HP!BlockRec, m \in SUBSET HP!BlockRec, l \intersect m = {},
         HP!HeapOK(s, l \union m, e)
  PROVE  HeapInOrder'
<1> DEFINE h == [free |-> s, end |-> e, live |-> l]
           hm == [heap |-> h, meta |-> m]
<1>1. s \in Seq(HP!BlockRec) /\ e \in Nat
  BY HeapBlocks
<1>2. h \in HeapRec /\ h.free = s /\ h.end = e /\ h.live = l
  BY <1>1 DEF HeapRec
<1>3. HeapHolds(h, l \union m)
  BY <1>2 DEF HeapHolds
<1>4. heap' = h
  OBVIOUS
<1> HIDE DEF h
<1>5. hm.heap = h /\ hm.meta = m /\ hm \in [heap : HeapRec, meta : SUBSET HP!BlockRec]
  BY <1>2
<1>6. hm \in HeapAndMeta
  <2> HIDE DEF hm
  <2> QED BY <1>2, <1>3, <1>5 DEF HeapAndMeta
<1> QED BY <1>4, <1>6 DEF HeapInOrder, HeapAndMeta, HeapHolds, HeapRec, Requests,
              HP!BlockRec, HP!HeapOK

LEMMA KmallocInOrder ==
  ASSUME HeapInOrder, NEW n \in Sizes, MemKmalloc(n)
  PROVE  HeapInOrder'
<1> DEFINE a == Allocated(heap, n)
           L == heap.live \union meta
<1>1. /\ heap \in HeapRec /\ meta \in SUBSET HP!BlockRec
      /\ heap.live \intersect meta = {} /\ HeapHolds(heap, L)
  BY HeapInOrderIs
<1>2. n \in Requests /\ heap.live \in SUBSET HP!BlockRec
  BY <1>1 DEF Requests, HeapRec
<1>3. /\ a.block \in HP!BlockRec /\ a.block \notin L /\ HeapHolds(a.heap, L \union {a.block})
  <2> HIDE DEF L
  <2> QED BY <1>1, <1>2, AllocatedHolds
<1>4. /\ heap' = [free |-> a.heap.free, end |-> a.heap.end, live |-> heap.live \union {a.block}]
      /\ meta' = meta
  BY DEF MemKmalloc
<1> HIDE DEF a
<1> DEFINE l == heap.live \union {a.block}
<1>5. l \in SUBSET HP!BlockRec /\ l \intersect meta = {} /\ L \union {a.block} = l \union meta
  BY <1>1, <1>2, <1>3
<1>6. HP!HeapOK(a.heap.free, l \union meta, a.heap.end)
  BY <1>3, <1>5 DEF HeapHolds
<1> HIDE DEF l
<1>7. heap' = [free |-> a.heap.free, end |-> a.heap.end, live |-> l]
  BY <1>4 DEF l
<1> QED BY <1>1, <1>4, <1>5, <1>6, <1>7, HeapInOrderNext

LEMMA KfreeInOrder ==
  ASSUME HeapInOrder, NEW b \in heap.live, MemKfree(b)
  PROVE  HeapInOrder'
<1> DEFINE L == heap.live \union meta
           l == heap.live \ {b}
           s == H!Coalesced(H!Inserted(heap.free, b))
<1>1. /\ heap \in HeapRec /\ meta \in SUBSET HP!BlockRec
      /\ heap.live \intersect meta = {} /\ HP!HeapOK(heap.free, L, heap.end)
  BY HeapInOrderIs DEF HeapHolds
<1>2. heap.live \in SUBSET HP!BlockRec
  BY <1>1 DEF HeapRec
<1>3. /\ heap' = [free |-> s, end |-> heap.end, live |-> l] /\ meta' = meta
  BY DEF MemKfree
<1>4. s = HP!Coalesced(HP!Inserted(heap.free, b))
  BY SameChanges
<1>5. b \in L /\ L \ {b} = l \union meta
  BY <1>1
<1> HIDE DEF L, l, s
<1>6. HP!HeapOK(s, l \union meta, heap.end)
  BY <1>1, <1>4, <1>5, HP!KfreeOK, HeapAssumed
<1>7. l \in SUBSET HP!BlockRec /\ l \intersect meta = {}
  BY <1>1, <1>2 DEF l
<1> QED BY <1>1, <1>3, <1>6, <1>7, HeapInOrderNext

\* A heap and a bitmap that create_chunk has left.
LEMMA MadeInOrder ==
  ASSUME NEW hm \in HeapAndMeta, heap' = hm.heap, meta' = hm.meta
  PROVE  HeapInOrder'
<1> DEFINE h == hm.heap
           L == hm.heap.live \union hm.meta
<1>1. /\ h \in HeapRec /\ hm.meta \in SUBSET HP!BlockRec
      /\ h.live \intersect hm.meta = {} /\ HP!HeapOK(h.free, L, h.end)
  BY DEF HeapAndMeta, HeapHolds
<1>2. h = [free |-> h.free, end |-> h.end, live |-> h.live] /\ h.live \in SUBSET HP!BlockRec
  BY <1>1 DEF HeapRec
<1> QED BY <1>1, <1>2, HeapInOrderNext

LEMMA AllocFrameInOrder ==
  ASSUME HeapInOrder, MemAllocFrame
  PROVE  HeapInOrder'
<1> DEFINE hm == [heap |-> heap, meta |-> meta]
<1>1. CASE present' = present
  <2>1. heap' = heap /\ meta' = meta
    BY <1>1 DEF MemAllocFrame
  <2>2. hm \in HeapAndMeta /\ hm.heap = heap /\ hm.meta = meta
    BY DEF HeapInOrder
  <2> HIDE DEF hm
  <2> QED BY <2>1, <2>2, MadeInOrder
<1>2. CASE present' # present
  <2>1. heap' = create_chunk(hm).heap /\ meta' = create_chunk(hm).meta
    BY <1>2 DEF MemAllocFrame
  <2>2. hm \in HeapAndMeta
    BY DEF HeapInOrder
  <2> HIDE DEF hm
  <2>3. create_chunk(hm) \in HeapAndMeta
    BY <2>2, ChunkCreated
  <2> QED BY <2>1, <2>3, MadeInOrder
<1> QED BY <1>1, <1>2

LEMMA InitInOrder ==
  MemInit => HeapInOrder
<1> SUFFICES ASSUME MemInit PROVE HeapInOrder
  OBVIOUS
<1> DEFINE b == HP!Block(HeapStart, HeapEnd - HeapStart)
           s == <<b>>
           h == [free |-> s, end |-> HeapEnd, live |-> {}]
<1>1. heap = h /\ meta = {}
  BY SameBlocks DEF MemInit
<1>2. /\ HeapStart \in Nat /\ HeapEnd \in Nat /\ HeapEnd - HeapStart \in Nat
      /\ HeapEnd - HeapStart # 0 /\ HeapStart <= HeapEnd
      /\ HP!Aligned(HeapStart) /\ HP!Aligned(HeapEnd)
  BY HeapAssumed DEF HP!HeaderSize, HP!Aligned
<1>3. /\ b \in HP!BlockRec /\ b.addr = HeapStart /\ b.size = HeapEnd - HeapStart
      /\ b.size # 0 /\ HP!End(b) = HeapEnd
  BY <1>2 DEF HP!Block, HP!BlockRec, HP!End
<1> HIDE DEF b
<1>4. s \in Seq(HP!BlockRec) /\ Len(s) = 1 /\ HP!Range(s) = {b}
  <2>1. s \in Seq(HP!BlockRec) /\ Len(s) = 1 /\ s[1] = b
    BY <1>3
  <2> HIDE DEF s
  <2>2. HP!Range(s) = {s[i] : i \in 1..Len(s)}
    BY <2>1, HP!RangeOf, HeapAssumed
  <2> QED BY <2>1, <2>2
<1>5. h \in HeapRec /\ h.free = s /\ h.end = HeapEnd /\ h.live = {}
  <2> HIDE DEF s
  <2> QED BY <1>2, <1>4 DEF HeapRec
<1> HIDE DEF s, h
<1>6. HP!Spread(s)
  BY <1>4 DEF HP!Spread
<1>7. HP!InUse({}, HeapEnd) /\ HP!Fit({b}, {}, HeapEnd)
  BY <1>2, <1>3 DEF HP!InUse, HP!Fit
<1>8. HP!Covered({b} \union {}, HeapEnd)
  <2> SUFFICES ASSUME NEW a \in HeapStart..(HeapEnd - 1) PROVE HP!Holds(b, a)
    BY DEF HP!Covered
  <2> QED BY <1>2, <1>3 DEF HP!Holds
<1>9. HP!HeapOK(s, {}, HeapEnd)
  BY <1>2, <1>4, <1>6, <1>7, <1>8 DEF HP!HeapOK
<1>10. HeapHolds(h, {} \union {})
  BY <1>5, <1>9 DEF HeapHolds
<1> QED BY <1>1, <1>5, <1>10, HeapInOrderIs

-----------------------------------------------------------------------------
(* The frames.                                                             *)

LEMMA PresentFinite ==
  ASSUME NEW S \in SUBSET Chunks
  PROVE  Cardinality(S) \in Nat
<1>1. FrameCount + N - 1 \in Nat
  BY NType
<1>2. max_chunk \in Nat
  BY <1>1, DivRem DEF max_chunk, N
<1>3. IsFiniteSet(Chunks)
  BY <1>2, FS_Interval DEF Chunks
<1> QED BY <1>3, FS_Subset, FS_CardinalityType

First == HeapStart \div PageSize - StartFrame
Behind == (HeapEnd + PageSize - 1) \div PageSize - StartFrame
FirstFrame == IF First < 0 THEN 0 ELSE First
LastFrame == IF Behind > FrameCount THEN FrameCount ELSE Behind

\* The range that memory_init reserves has every frame under the heap.
LEMMA RangeCovers ==
  /\ FirstFrame \in Nat /\ LastFrame \in Int /\ LastFrame <= FrameCount
  /\ FramesOf(HeapStart, HeapEnd) \subseteq {f \in Frames : FirstFrame <= f /\ f < LastFrame}
<1> DEFINE P == PageSize
           q == HeapStart \div P
           x == HeapEnd + P - 1
           m == x \div P
<1>1. P \in Nat /\ P > 0 /\ HeapStart \in Nat /\ HeapEnd \in Nat /\ StartFrame \in Nat
  BY HeapSetUp
<1>2. x \in Nat /\ x = HeapEnd + P - 1
  BY <1>1
<1>3. First = q - StartFrame /\ Behind = m - StartFrame
  BY DEF First, Behind
<1> HIDE DEF P, x
<1>4. q \in Nat /\ (HeapStart % P) \in 0..(P - 1) /\ HeapStart = q * P + (HeapStart % P)
  BY <1>1
<1>5. m \in Nat /\ (x % P) \in 0..(P - 1) /\ x = m * P + (x % P)
  BY <1>1, <1>2
<1> HIDE DEF q, m
<1>6. FirstFrame \in Nat /\ LastFrame \in Int /\ LastFrame <= FrameCount
  BY <1>1, <1>3, <1>4, <1>5, NType DEF FirstFrame, LastFrame
<1>7. ASSUME NEW f \in FramesOf(HeapStart, HeapEnd)
      PROVE  f \in Frames /\ FirstFrame <= f /\ f < LastFrame
  <2>1. /\ f \in Frames /\ (StartFrame + f) * P < HeapEnd
        /\ (StartFrame + f + 1) * P > HeapStart
    BY DEF FramesOf, P
  <2>2. f \in Nat /\ f < FrameCount
    BY <2>1, NType DEF Frames
  <2> DEFINE k == StartFrame + f
  <2>3. k \in Nat /\ k * P < HeapEnd /\ (k + 1) * P > HeapStart
    BY <1>1, <2>1, <2>2
  <2> HIDE DEF k
  <2>4. q <= k
    <3> SUFFICES ASSUME k < q PROVE FALSE
      BY <1>4, <2>3
    <3>1. PICK d \in Nat : q = k + 1 + d
      <4>1. q - k - 1 \in Nat /\ q = k + 1 + (q - k - 1)
        BY <1>4, <2>3
      <4> QED BY <4>1
    <3>2. q * P = (k + 1) * P + d * P /\ d * P \in Nat /\ (k + 1) * P \in Nat
      BY <1>1, <2>3, <3>1
    <3> QED BY <1>1, <1>4, <2>3, <3>2
  <2>5. k < m
    <3> SUFFICES ASSUME m <= k PROVE FALSE
      BY <1>5, <2>3
    <3>1. PICK d \in Nat : k = m + d
      <4>1. k - m \in Nat /\ k = m + (k - m)
        BY <1>5, <2>3
      <4> QED BY <4>1
    <3>2. k * P = m * P + d * P /\ d * P \in Nat /\ m * P \in Nat
      BY <1>1, <1>5, <3>1
    <3> QED BY <1>1, <1>2, <1>5, <2>3, <3>2
  <2>6. First <= f /\ f < Behind
    BY <1>1, <1>3, <1>4, <1>5, <2>2, <2>4, <2>5 DEF k
  <2> QED BY <1>1, <1>3, <1>4, <1>5, <2>1, <2>2, <2>6, NType DEF FirstFrame, LastFrame
<1> QED BY <1>6, <1>7

\* The end of memory_init is a call of memmap_reserve for a range of frames.
LEMMA InitReserves ==
  ASSUME memory_init
  PROVE  \E s, e \in 0..FrameCount : memmap_reserve(s, e)
<1>1. memmap_reserve(FirstFrame, LastFrame)
  BY DEF memory_init, FirstFrame, LastFrame, First, Behind
<1>2. FirstFrame \in Nat /\ LastFrame \in Int /\ LastFrame <= FrameCount
  BY RangeCovers
<1>3. FrameCount \in Nat /\ \A f \in Frames : f \in Nat /\ f < FrameCount
  BY NType DEF Frames
<1>4. CASE FirstFrame <= FrameCount /\ 0 <= LastFrame
  BY <1>1, <1>2, <1>3, <1>4
<1>5. CASE FirstFrame > FrameCount \/ LastFrame < 0
  <2>1. {f \in Frames : FirstFrame <= f /\ f < LastFrame} = {f \in Frames : 0 <= f /\ f < 0}
    BY <1>2, <1>3, <1>5
  <2>2. memmap_reserve(0, 0)
    BY <1>1, <2>1 DEF memmap_reserve
  <2> QED BY <1>3, <2>2
<1> QED BY <1>2, <1>3, <1>4, <1>5

\* Every step of the composition is a step of the frame map or leaves it alone.
LEMMA FrameMapStep ==
  [MemNext]_memVars => [Next]_vars
<1> SUFFICES ASSUME [MemNext]_memVars PROVE [Next]_vars
  OBVIOUS
<1>1. CASE memory_init
  BY <1>1, InitReserves DEF Next
<1>2. ASSUME NEW n \in Sizes, MemKmalloc(n) PROVE UNCHANGED vars
  BY <1>2 DEF MemKmalloc
<1>3. ASSUME NEW b \in heap.live, MemKfree(b) PROVE UNCHANGED vars
  BY <1>3 DEF MemKfree
<1>4. CASE MemAllocFrame
  <2> DEFINE failing == IF CanCreate(heap) THEN {} ELSE Chunks \ present
  <2>1. alloc_frame(failing)
    BY <1>4 DEF MemAllocFrame
  <2>2. failing \in SUBSET (Chunks \ present)
    OBVIOUS
  <2> HIDE DEF failing
  <2> QED BY <2>1, <2>2 DEF Next
<1>5. ASSUME NEW f \in owned, MemFreeFrame(f) PROVE Next
  BY <1>5 DEF MemFreeFrame, Next
<1>6. CASE UNCHANGED memVars
  BY <1>6 DEF memVars
<1> QED BY <1>1, <1>2, <1>3, <1>4, <1>5, <1>6 DEF MemNext

\* What is reserved stays reserved.
LEMMA BootFramesStep ==
  ASSUME IInv, BootFramesReserved, [MemNext]_memVars
  PROVE  BootFramesReserved'
<1>1. CASE memory_init
  <2>1. reserved' = {f \in Frames : FirstFrame <= f /\ f < LastFrame}
    BY <1>1 DEF memory_init, memmap_reserve, FirstFrame, LastFrame, First, Behind
  <2> QED BY <2>1, RangeCovers DEF BootFramesReserved, FramesOf, Frames
<1>2. CASE UNCHANGED <<reserved, booted>>
  BY <1>2 DEF BootFramesReserved, FramesOf, Frames
<1>3. ASSUME NEW n \in Sizes, MemKmalloc(n) PROVE UNCHANGED <<reserved, booted>>
  BY <1>3 DEF MemKmalloc, vars
<1>4. ASSUME NEW b \in heap.live, MemKfree(b) PROVE UNCHANGED <<reserved, booted>>
  BY <1>4 DEF MemKfree, vars
<1>5. CASE MemAllocFrame
  BY <1>2, <1>5 DEF MemAllocFrame, alloc_frame
<1>6. ASSUME NEW f \in owned, MemFreeFrame(f) PROVE UNCHANGED <<reserved, booted>>
  BY <1>6 DEF MemFreeFrame, free_frame
<1>7. CASE UNCHANGED memVars
  BY <1>2, <1>7 DEF memVars, vars
<1> QED BY <1>1, <1>2, <1>3, <1>4, <1>5, <1>6, <1>7 DEF MemNext

LEMMA InOrderStep ==
  ASSUME IInv, IInv', HeapInOrder, [MemNext]_memVars
  PROVE  HeapInOrder'
<1> DEFINE hm == [heap |-> heap, meta |-> meta]
<1>1. hm \in HeapAndMeta /\ hm.heap = heap /\ hm.meta = meta
  BY DEF HeapInOrder
<1>2. CASE UNCHANGED <<heap, meta>>
  <2> HIDE DEF hm
  <2> QED BY <1>1, <1>2, MadeInOrder
<1>3. CASE memory_init
  <2> DEFINE made == create_chunks(Cardinality(present'), hm)
  <2>1. heap' = made.heap /\ meta' = made.meta
    BY <1>3 DEF memory_init
  <2>2. present' \in SUBSET Chunks
    BY DEF IInv, TypeOK, Chunks, max_chunk
  <2>3. PICK n \in Nat : n = Cardinality(present')
    BY <2>2, PresentFinite
  <2> HIDE DEF hm
  <2>4. create_chunks(n, hm) \in HeapAndMeta
    BY <1>1, ChunksCreated
  <2>5. heap' = create_chunks(n, hm).heap /\ meta' = create_chunks(n, hm).meta
    BY <2>1, <2>3
  <2> QED BY <2>4, <2>5, MadeInOrder
<1>4. ASSUME NEW f \in owned, MemFreeFrame(f) PROVE UNCHANGED <<heap, meta>>
  BY <1>4 DEF MemFreeFrame
<1>5. CASE UNCHANGED memVars
  BY <1>2, <1>5 DEF memVars
<1> QED
  BY <1>2, <1>3, <1>4, <1>5, KmallocInOrder, KfreeInOrder, AllocFrameInOrder DEF MemNext

LEMMA MemInvNext == MemInv /\ [MemNext]_memVars => MemInv'
<1> SUFFICES ASSUME MemInv, [MemNext]_memVars PROVE MemInv'
  OBVIOUS
<1>1. IInv /\ HeapInOrder /\ BootFramesReserved
  BY DEF MemInv
<1>2. IInv'
  BY <1>1, FrameMapStep, NextIInv
<1> QED BY <1>1, <1>2, InOrderStep, BootFramesStep DEF MemInv

LEMMA MemInvInit == MemInit => MemInv
BY InitIInv, InitInOrder DEF MemInit, MemInv, Init, BootFramesReserved

\* What BitmapSafe says follows.
LEMMA HeapInOrderSafe == HeapInOrder => BitmapSafe
<1> SUFFICES ASSUME HeapInOrder PROVE BitmapSafe
  OBVIOUS
<1> DEFINE s == heap.free
           L == heap.live \union meta
<1>1. HP!HeapOK(s, L, heap.end) /\ heap.live \intersect meta = {}
  BY HeapInOrderIs DEF HeapHolds
<1>2. FreeBlocks = {s[i] : i \in 1..Len(s)} /\ HP!Range(s) = {s[i] : i \in 1..Len(s)}
  BY <1>1, HeapBlocks DEF FreeBlocks
<1> HIDE DEF L
<1>3. /\ \A b \in HP!Range(s) \union L :
           b.addr \in Nat /\ b.size \in Nat /\ HP!End(b) = b.addr + b.size
      /\ \A d \in L : d.size # 0
      /\ \A x \in HP!Range(s), d \in L : HP!Apart(x, d)
      /\ \A d, e \in L : d # e => HP!Apart(d, e)
  BY <1>1, HeapBlocks
<1>4. ASSUME NEW m \in L, m \in FreeBlocks PROVE FALSE
  <2>1. HP!Apart(m, m) /\ m.size # 0 /\ m.addr \in Nat /\ m.size \in Nat
        /\ HP!End(m) = m.addr + m.size
    BY <1>2, <1>3, <1>4
  <2> QED BY <2>1 DEF HP!Apart
<1>5. ASSUME NEW m \in meta, NEW b \in FreeBlocks \union heap.live \union meta, b # m
      PROVE  H!End(b) <= m.addr \/ H!End(m) <= b.addr
  <2>1. m \in L /\ (b \in L \/ b \in HP!Range(s))
    BY <1>2 DEF L
  <2>2. HP!Apart(b, m)
    BY <1>3, <1>5, <2>1
  <2> QED BY <2>2, SameBlocks DEF HP!Apart
<1> QED BY <1>1, <1>4, <1>5 DEF BitmapSafe, L

\* The frame allocator over the heap is the frame allocator: what is proved of
\* it above holds when its chunks are created with kmalloc.
THEOREM MemoryImplementsFrameMap == MemSpec => Spec
<1>1. MemInit => Init
  BY DEF MemInit
<1> QED BY <1>1, FrameMapStep, PTL DEF MemSpec, Spec

\* The blocks of the bitmap stay apart from what kmalloc hands out and from
\* what kfree merges, through every growth of the heap, and no frame under the
\* heap that memory_init built is handed out.
THEOREM BootMemoryStaysSafe == MemSpec => []BootMemorySafe
<1>1. MemInv => BootMemorySafe
  <2> SUFFICES ASSUME MemInv PROVE BootMemorySafe
    OBVIOUS
  <2>1. IInv /\ HeapInOrder /\ BootFramesReserved
    BY DEF MemInv
  <2>2. owned \intersect FramesOf(HeapStart, HeapEnd) = {}
    BY <2>1 DEF IInv, TypeOK, Untouched, Apart, BootFramesReserved
  <2> QED BY <2>1, <2>2, HeapInOrderSafe DEF BootMemorySafe
<1> QED BY <1>1, MemInvInit, MemInvNext, PTL DEF MemSpec
=============================================================================
