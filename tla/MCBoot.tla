------------------------------- MODULE MCBoot -------------------------------
(***************************************************************************)
(* An instance of Boot for TLC: images with a segment in one table, with   *)
(* segments in two tables, in either order, and with pages that are not in *)
(* the file; memory from too small to ample.                               *)
(***************************************************************************)
EXTENDS Boot

Segment(vaddr, memsz, filesz) == [vaddr |-> vaddr, memsz |-> memsz, filesz |-> filesz]

MCImages == { <<Segment(1, 3, 3)>>,
              <<Segment(1, 2, 1), Segment(4, 5, 2)>>,
              <<Segment(5, 4, 3), Segment(0, 2, 2)>>,
              <<Segment(2, 4, 4), Segment(6, 1, 0), Segment(1, 2, 0)>> }

=============================================================================
