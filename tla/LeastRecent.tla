---------------------------- MODULE LeastRecent -----------------------------
(***************************************************************************)
(* The block cache with a history of the use of its blocks, kept apart     *)
(* from the timestamps by which find_lru_entry of fs/block_cache.c orders  *)
(* them.                                                                   *)
(***************************************************************************)
EXTENDS BlockCache

VARIABLES
  since,    \* since[b]: the blocks used after the last use of b, since boot
  wrapped   \* the clock has wrapped round since boot

lruVars == <<vars, since, wrapped>>

NeverUsed == [b \in Blocks |-> {}]
Used(b) == [c \in Blocks |-> IF c = b THEN {} ELSE since[c] \union {b}]

LruInit == Init /\ since = NeverUsed /\ wrapped = FALSE

\* A call on block b that succeeds uses b.
LruCall(b) ==
  /\ block_cache_read(b) \/ \E d \in Payloads : block_cache_write(b, d)
  /\ wrapped' = (wrapped \/ timestamp' = 0)
  /\ since' = IF wrapped' THEN NeverUsed
              ELSE IF result'.ok THEN Used(b) ELSE since

LruNext ==
  \/ \E b \in Blocks : LruCall(b)
  \/ /\ block_cache_flush
     /\ UNCHANGED <<since, wrapped>>
  \/ /\ block_cache_init \/ block_cache_destroy \/ PowerLoss
     /\ since' = NeverUsed /\ wrapped' = FALSE

LruSpec == LruInit /\ [][LruNext]_lruVars

\* Until the clock wraps a miss replaces the least recently used block: every
\* other block in the cache has been used since, whatever mixture of hits,
\* misses and failed reads came before it.
EvictsOldest ==
  [][\A i, j \in Entries :
       LET old == entries[i].block_num
           evicted == entries[i].valid /\ up' /\ entries'[i].block_num # old
       IN  ~wrapped /\ evicted /\ entries[j].valid /\ i # j
             => entries[j].block_num \in since[old]]_lruVars
=============================================================================
