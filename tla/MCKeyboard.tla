----------------------------- MODULE MCKeyboard -----------------------------
(* Three scancodes, each of a letter, a digit or a modifier pressed or     *)
(* released, with queues so short that both of them fill and wrap round.   *)
EXTENDS Keyboard

MCPayloads == Scancodes \union {None}

ASSUME KeysSetUp == KeySetUp
=============================================================================
