----------------------------- MODULE BlockStore -----------------------------
(***************************************************************************)
(* What a block layer promises its clients (the FAT16 and ext2 drivers):   *)
(* a read that succeeds returns the last successful write of that block,   *)
(* an operation that fails changes no block, and a power loss may only     *)
(* disturb blocks written since the last successful flush.  One promise is *)
(* weaker than a client would like: a failed read may spoil one other      *)
(* block in the cache, and until that block is written, or falls out of    *)
(* the cache, its reads succeed with bytes that were never written to it.  *)
(* BlockCache is shown to implement this specification.                    *)
(***************************************************************************)
CONSTANTS
  Blocks,     \* block numbers
  Contents    \* what a block can contain

VARIABLES
  content,    \* content[b]: what was last written to block b
  synced,     \* blocks not written since the last successful flush
  spoiled,    \* blocks whose reads return something else than their content
  result      \* what the last operation returned

storeVars == <<content, synced, spoiled, result>>

Done(op) == [op |-> op, ok |-> TRUE]
Failed(op) == [op |-> op, ok |-> FALSE]
ReadDone(b, d) == [op |-> "read", ok |-> TRUE, block |-> b, data |-> d]

Init ==
  /\ content \in [Blocks -> Contents]
  /\ synced = Blocks
  /\ spoiled = {}
  /\ result = Done("init")

\* The block read may take the place of a spoiled one.
Read(b) ==
  /\ IF b \in spoiled THEN \E d \in Contents : result' = ReadDone(b, d)
                       ELSE result' = ReadDone(b, content[b])
  /\ spoiled' \in SUBSET spoiled
  /\ UNCHANGED <<content, synced>>

Write(b, d) ==
  /\ result' = Done("write")
  /\ content' = [content EXCEPT ![b] = d]
  /\ synced' = synced \ {b}
  /\ spoiled' \in SUBSET (spoiled \ {b})

Flush ==
  /\ result' = Done("flush")
  /\ synced' = Blocks
  /\ UNCHANGED <<content, spoiled>>

\* Any operation may fail; a failure leaves every block as it was.
Fail ==
  /\ \E op \in {"read", "write", "flush"} : result' = Failed(op)
  /\ UNCHANGED <<content, synced, spoiled>>

\* A read that fails may spoil a block.
FailSpoils ==
  /\ result' = Failed("read")
  /\ \E c \in Blocks : spoiled' = spoiled \union {c}
  /\ UNCHANGED <<content, synced>>

\* After a power loss a block that was not synced may hold anything.
PowerLoss ==
  /\ UNCHANGED result
  /\ content' \in [Blocks -> Contents]
  /\ \A b \in synced : content'[b] = content[b]
  /\ synced' \in {synced, Blocks}
  /\ spoiled' = {}

Next ==
  \/ \E b \in Blocks : Read(b)
  \/ \E b \in Blocks, d \in Contents : Write(b, d)
  \/ Flush
  \/ Fail
  \/ FailSpoils
  \/ PowerLoss

Spec == Init /\ [][Next]_storeVars
=============================================================================
