------------------------------ MODULE MCFat16 -------------------------------
(* Three clusters of two bytes and a root directory of two entries, so     *)
(* that both fill up; two of the paths have the same short name.  Clusters *)
(* are counted modulo three, so that a file of three clusters is too long. *)
EXTENDS Fat16

MCPaths == {"a.txt", "b.txt", "lognumber1.t", "lognumber2.t"}
MCSlashPaths == {"a.txt", "/a.txt"}
MCComponent ==
  [p \in Paths |->
     CASE p \in {"a.txt", "/a.txt"} -> "A" [] p = "b.txt" -> "B"
       [] OTHER -> "LOGNUMBE"]
MCWhole == [p \in Paths |-> IF p = "/a.txt" THEN "/A" ELSE MCComponent[p]]
MCShortNames == {MCComponent[p] : p \in Paths} \union {MCWhole[p] : p \in Paths}

\* Nothing, a whole cluster, part of a second one and part of a third.
MCContents == {<<>>, <<1, 2>>, <<2, 1, 1>>, <<1, 1, 2, 2, 1>>}

\* A new volume, and one on which other systems have deleted every file.
MCImages ==
  {[i \in Slots |-> IF i \in D THEN Deleted ELSE EndMark] : D \in {{}, Slots}}
=============================================================================
