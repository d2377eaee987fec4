---------------------------- MODULE MCElfLoader -----------------------------
(***************************************************************************)
(* An instance of ElfLoader for TLC: a segment of two pages, the second    *)
(* only partly in the file, and one that starts in another table and ends  *)
(* with a page that is not in the file.                                    *)
(***************************************************************************)
EXTENDS ElfLoader

MCSegments == <<[vaddr |-> 0, memsz |-> 3, filesz |-> 3],
                [vaddr |-> 4, memsz |-> 4, filesz |-> 1]>>

=============================================================================
