------------------------------ MODULE MCMemory ------------------------------
(* A heap of four pages whose first page lies below the managed frames,    *)
(* under five frames in chunks of two, the last chunk half out of range.   *)
EXTENDS Memory
=============================================================================
