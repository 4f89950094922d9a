------------------------------ MODULE FrameMap ------------------------------
(***************************************************************************)
(* The allocator of physical frames, src/kernel/mem/map.c: a bitmap cut    *)
(* into chunks that are allocated from the kernel heap when a frame of     *)
(* theirs is first looked at.  Frames are numbered from                    *)
(* memmap.start_frame.  Every operation runs under the memmap lock and is  *)
(* one step.                                                               *)
(***************************************************************************)
EXTENDS Integers

CONSTANTS
  FramesPerChunk,  \* frames_per_chunk()
  FrameCount       \* memmap.frames

ASSUME FrameAssumption ==
  FramesPerChunk \in Nat \ {0} /\ FrameCount \in Nat \ {0}

VARIABLES
  words,      \* words[c]: the bits set in the bitmap of chunk c
  present,    \* the chunks in the list of chunk_head
  owned,      \* the frames clients hold
  reserved,   \* the frames of the range given to memmap_reserve
  booted,     \* memory_init has returned
  result      \* what the last call returned

vars == <<words, present, owned, reserved, booted, result>>

Frames == 0..(FrameCount - 1)
Local == 0..(FramesPerChunk - 1)
\* Mutant: the number of chunks is rounded down.
max_chunk_down == FrameCount \div FramesPerChunk

max_chunk == (FrameCount + FramesPerChunk - 1) \div FramesPerChunk
Chunks == 0..(max_chunk - 1)

NULL == -1   \* the null pointer, as a frame number

\* Mutant: frames are counted from the chunk before.
FrameNoOff(c, l) == c * (FramesPerChunk - 1) + l

FrameNo(c, l) == c * FramesPerChunk + l
ChunkOf(f) == f \div FramesPerChunk
LocalOf(f) == f % FramesPerChunk

Least(S) == CHOOSE i \in S : \A j \in S : i <= j

-----------------------------------------------------------------------------
\* The chunks in which alloc_frame can find a clear bit, when create_chunk
\* fails for the chunks in failing.  A chunk just created is all clear.
Usable(failing) ==
  {c \in Chunks : IF c \in present THEN words[c] # Local ELSE c \notin failing}

InRange(f) == f < FrameCount

\* The bit that is clear in the first usable chunk; in the last chunk it may
\* lie beyond the managed range, and then no frame is returned.
alloc_frame(failing) ==
  /\ booted
  /\ IF Usable(failing) = {}
       THEN result' = NULL /\ UNCHANGED <<words, present, owned>>
       ELSE LET c == Least(Usable(failing))
                l == Least(Local \ words[c])
                f == FrameNo(c, l)
            IN  /\ present' = present \union {c}
                /\ IF InRange(f)
                     THEN /\ words' = [words EXCEPT ![c] = @ \union {l}]
                          /\ owned' = owned \union {f}
                          /\ result' = f
                     ELSE result' = NULL /\ UNCHANGED <<words, owned>>
  /\ UNCHANGED <<reserved, booted>>

\* Mutant: the bit of another chunk is cleared.
free_frame_chunk0(f) ==
  /\ f \in owned
  /\ words' = [words EXCEPT ![0] = @ \ {LocalOf(f)}]
  /\ owned' = owned \ {f}
  /\ result' = NULL
  /\ UNCHANGED <<present, reserved, booted>>

\* A client gives back a frame it holds.
free_frame(f) ==
  /\ f \in owned
  /\ words' = IF ChunkOf(f) \in present
                THEN [words EXCEPT ![ChunkOf(f)] = @ \ {LocalOf(f)}] ELSE words
  /\ owned' = owned \ {f}
  /\ result' = NULL
  /\ UNCHANGED <<present, reserved, booted>>

\* memmap_reserve of the frames s .. e - 1, which memory_init calls once.
\* The heap it takes its chunks from is still empty, so none is missing.
memmap_reserve(s, e) ==
  LET range == {f \in Frames : s <= f /\ f < e} IN
  /\ ~booted
  /\ booted' = TRUE
  /\ present' = present \union {ChunkOf(f) : f \in range}
  /\ words' = [c \in Chunks |->
                 words[c] \union {LocalOf(f) : f \in {g \in range : ChunkOf(g) = c}}]
  /\ reserved' = range
  /\ UNCHANGED <<owned, result>>

\* memmap_init: no chunk exists yet.
Init ==
  /\ words = [c \in Chunks |-> {}]
  /\ present = {}
  /\ owned = {}
  /\ reserved = {}
  /\ booted = FALSE
  /\ result = NULL

Next ==
  \/ \E failing \in SUBSET (Chunks \ present) : alloc_frame(failing)
  \/ \E f \in owned : free_frame(f)
  \/ \E s, e \in 0..FrameCount : memmap_reserve(s, e)

Spec == Init /\ [][Next]_vars

-----------------------------------------------------------------------------
(* Properties.                                                             *)

\* Type invariant.
TypeOK ==
  /\ words \in [Chunks -> SUBSET Local]
  /\ present \subseteq Chunks
  /\ owned \subseteq Frames
  /\ reserved \subseteq Frames
  /\ booted \in BOOLEAN
  /\ result \in Frames \union {NULL}

Marked(f) == LocalOf(f) \in words[ChunkOf(f)]

\* A bit is set for the frames that are held or reserved and for no others,
\* none beyond the managed range, and a chunk that has one is in the list:
\* chunks that come and fail to come lose no frame and forget none.
Accounted ==
  /\ \A f \in Frames : Marked(f) <=> f \in owned \union reserved
  /\ \A c \in Chunks : \A l \in words[c] : FrameNo(c, l) \in Frames
  /\ \A c \in Chunks : words[c] # {} => c \in present

\* alloc_frame never returns a frame that a client holds or that is reserved.
NeverTwice ==
  [][booted /\ result' # NULL => result' \notin owned \union reserved]_vars

\* alloc_frame gives up only when every frame is taken or some chunk is not
\* there: the clear bits behind the end of the last chunk hide no frame.
FullWhenRefused ==
  [][booted /\ result' = NULL /\ owned' = owned
       => owned \union reserved = Frames \/ present # Chunks]_vars
=============================================================================
