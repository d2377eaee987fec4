----------------------------- MODULE MCUntyped -----------------------------
(***************************************************************************)
(* Small instances of Untyped for TLC: a word has 2 units, a page 8.       *)
(***************************************************************************)
EXTENDS Untyped

MCSizeOf == [Tcb |-> 6, CNode |-> 4, EndPoint |-> 4, Notification |-> 4,
             PageTable |-> 8, Page |-> 8]

MCAlignOf == [Tcb |-> 2, CNode |-> 1, EndPoint |-> 2, Notification |-> 2,
              PageTable |-> 8, Page |-> 8]

=============================================================================
