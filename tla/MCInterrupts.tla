---------------------------- MODULE MCInterrupts ----------------------------
(* The event FIFO with room for three events, so that it fills and wraps,  *)
(* and two vectors whose three handlers come and go.                       *)
EXTENDS HandlerCalls, TLC

MCSymmetry == Permutations(Handlers)
=============================================================================
