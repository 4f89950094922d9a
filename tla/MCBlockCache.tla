---------------------------- MODULE MCBlockCache ----------------------------
(* The block cache on a small disk: three blocks and two entries, so that  *)
(* every miss on the third block evicts something, and a clock that wraps  *)
(* round.  A block is two sectors, so that a transfer can break off        *)
(* between them; the payloads differ in the first one, which a read that   *)
(* breaks off has already put into the buffer, so that a write that breaks *)
(* off leaves the old block or the new one.                                *)
EXTENDS LeastRecent, TLC

CONSTANTS d0, d1, rest, b1, b2

MCPayloads == {[s \in Sectors |-> IF s = 1 THEN d ELSE rest] : d \in {d0, d1}}
MCSymmetry == Permutations({d0, d1}) \union Permutations({b1, b2})
=============================================================================
