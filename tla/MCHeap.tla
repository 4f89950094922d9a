------------------------------- MODULE MCHeap -------------------------------
(* The heap with the real alignment, header and canary, small pages and a  *)
(* heap of a few blocks, so that splits, exact fits and expansions happen. *)
EXTENDS Heap
=============================================================================
