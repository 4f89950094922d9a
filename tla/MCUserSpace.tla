---------------------------- MODULE MCUserSpace -----------------------------
(***************************************************************************)
(* Tables of four entries and pages of four bytes.  The programs: one with *)
(* two segments that do not begin at a page, one with a note and a segment *)
(* above the first PML4 entry, one that shares a page table with the       *)
(* stack, one that shares one with managed frames and a page with the      *)
(* first, and one with two segments at addresses of managed frames, as      *)
(* docs/user.md links its example at 0x400000.  The heap begins two pages  *)
(* before the end of a two-level table.                                    *)
(***************************************************************************)
EXTENDS UserSpace

Segment(vaddr, filesz, memsz, rw) ==
  [load |-> TRUE, vaddr |-> vaddr, filesz |-> filesz, memsz |-> memsz, rw |-> rw]
Note == [load |-> FALSE, vaddr |-> 0, filesz |-> 0, memsz |-> 0, rw |-> FALSE]

MCPrograms ==
  << <<Segment(40 * 4 + 3, 5, 5, FALSE), Segment(42 * 4 + 2, 1, 3, TRUE)>>,
     <<Note, Segment(70 * 4, 4, 7, TRUE)>>,
     <<Segment(28 * 4 + 1, 4, 6, FALSE)>>,
     <<Segment(23 * 4, 2, 2, TRUE), Segment(40 * 4, 2, 2, TRUE)>>,
     <<Segment(14 * 4, 2, 2, FALSE), Segment(21 * 4 + 2, 4, 6, TRUE)>> >>

MCManaged == 1..21
MCIncrements == {-1, 0, 3, 8, 12}
=============================================================================
