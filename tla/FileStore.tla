----------------------------- MODULE FileStore ------------------------------
(***************************************************************************)
(* What the FAT16 driver promises of whole files: each name has contents   *)
(* or is missing.  A write or a creation changes one file and no other.    *)
(* Two calls that succeed promise less than they should.  A write of more  *)
(* than Limit bytes keeps only a beginning of them.  The creation of a     *)
(* file that exists removes it, and other files with it from sight: they   *)
(* are still stored, and a later call can bring them back with the         *)
(* contents they had.  A call that fails half way may leave anything       *)
(* behind.                                                                 *)
(***************************************************************************)
EXTENDS Integers, Sequences

CONSTANTS Names, Contents, Limit

VARIABLES
  files,    \* for every name whether it is a file, and its bytes
  stored,   \* for every name what the volume holds under it, in sight or not
  hiding    \* a file that existed has been created

Missing == [is |-> "missing", bytes |-> <<>>]
Unknown == [is |-> "unknown", bytes |-> <<>>]
File(b) == [is |-> "file", bytes |-> b]

Init ==
  /\ files = [n \in Names |-> Missing]
  /\ stored = [n \in Names |-> {}]
  /\ hiding = FALSE

\* What is left of b in a file.
Kept(b) ==
  IF Len(b) <= Limit THEN {File(b)}
  ELSE {File(SubSeq(b, 1, k)) : k \in 1..(Len(b) - 1)}

\* A file that is missing may be one that was hidden.
Stays(m) ==
  /\ stored'[m] = stored[m]
  /\ \/ files'[m] = files[m]
     \/ hiding /\ files[m] = Missing /\ files'[m] \in stored[m]

Becomes(n, S) ==
  /\ files'[n] \in S
  /\ files'[n] \in stored'[n] /\ stored'[n] \subseteq stored[n] \union S
  /\ \A m \in Names \ {n} : Stays(m)
  /\ UNCHANGED hiding

Write(n, b) == files[n] # Unknown /\ Becomes(n, Kept(b))
Create(n) == files[n] = Missing /\ Becomes(n, {File(<<>>)})

Recreate(n) ==
  /\ files[n] \in stored[n]
  /\ files'[n] = Missing /\ stored'[n] \subseteq stored[n]
  /\ \A m \in Names \ {n} :
       files'[m] \in {files[m], Missing} /\ stored'[m] = stored[m]
  /\ hiding' = TRUE

FailsHalfWay ==
  /\ files' = [n \in Names |-> Unknown]
  /\ stored' = [n \in Names |-> {}]
  /\ hiding' \in BOOLEAN

Next ==
  \/ \E n \in Names :
       Create(n) \/ Recreate(n) \/ \E b \in Contents : Write(n, b)
  \/ FailsHalfWay

Spec == Init /\ [][Next]_<<files, stored, hiding>>
=============================================================================
