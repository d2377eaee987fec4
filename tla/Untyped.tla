------------------------------ MODULE Untyped ------------------------------
(***************************************************************************)
(* One block of untyped memory and the objects made from it.               *)
(*                                                                         *)
(* An untyped capability cannot be copied or moved (the default of         *)
(* Capability::derive), so a block has exactly one free index, and blocks  *)
(* do not affect each other.  Addresses are counted from 0 in any unit:    *)
(* the conversion between physical and kernel addresses adds a constant.   *)
(* Slots of the destination node are the subject of CSpace.                *)
(*                                                                         *)
(* Sources: kernel/src/capability/untyped.rs, capability.rs,               *)
(* capability/cnode.rs (object size), shared/src/lib.rs (align_up).        *)
(***************************************************************************)
EXTENDS Integers

CONSTANTS
    Start,          \* address of the block
    BlockBits,      \* the block has 2^BlockBits units
    SizeOf,         \* size_of of each kernel object; of one CNodeEntry for CNode
    AlignOf,        \* align_of of each kernel object; CNode is a unit struct
    WordAlign,      \* alignment of a machine word, which every object contains
    WordBits,       \* width of usize
    UserSizes,      \* the user_size argument: the radix of a CNode
    Nums,           \* the num argument
    OverflowChecks  \* debug build: arithmetic overflow panics; else it wraps

\* The types invoke_retype accepts; any other is answered with UnknownCapType.
RetypeTypes == {"Tcb", "CNode", "EndPoint", "Notification", "PageTable", "Page"}

UntypedSize == 2^BlockBits
End == Start + UntypedSize

ASSUME UntypedAssumption ==
    /\ Start \in Nat /\ BlockBits \in Nat /\ UntypedSize \in Nat
    /\ SizeOf \in [RetypeTypes -> Nat \ {0}]
    /\ AlignOf \in [RetypeTypes -> Nat \ {0}]
    /\ WordAlign \in Nat \ {0}
    /\ WordBits \in Nat /\ 2^WordBits \in Nat \ {0}
    /\ UserSizes \subseteq Nat /\ \A n \in UserSizes : 2^n \in Nat \ {0}
    /\ Nums \subseteq Nat
    /\ OverflowChecks \in BOOLEAN

\* The boot code makes blocks of whole pages, a page is a multiple of every
\* alignment, and Rust makes the size of a type a multiple of its alignment.
ASSUME LayoutAssumption ==
    /\ Start % WordAlign = 0
    /\ \A t \in RetypeTypes :
        /\ End % AlignOf[t] = 0
        /\ SizeOf[t] % AlignOf[t] = 0
        /\ SizeOf[t] % WordAlign = 0
        /\ AlignOf[t] = 1 \/ AlignOf[t] % WordAlign = 0

VARIABLES
    free_idx,       \* the free index in the capability's cap_dep_val
    objects,        \* the objects made so far, with the memory each of them uses
    panicked        \* whether an overflow check stopped the kernel

untyped_vars == <<free_idx, objects, panicked>>

Object == [type : RetypeTypes, addr : Nat, size : Nat]

\* Addresses are natural numbers, and every object has a type that retype makes.
TypeOK ==
    /\ free_idx \in Nat
    /\ objects \subseteq Object
    /\ panicked \in BOOLEAN

-----------------------------------------------------------------------------
\* Mutant: an address is used as it is.
AlignNot(value, align) == value

AlignUp(value, align) == ((value + align - 1) \div align) * align

\* get_object_size, before any wrap-around.
ObjectSize(type, user_size) ==
    IF type = "CNode" THEN 2^user_size * SizeOf[type] ELSE SizeOf[type]

Word(n) == n % 2^WordBits

\* The object_size of retype: the size of all objects together.
TotalSize(type, user_size, num) == Word(num * ObjectSize(type, user_size))

\* Mutant: the result of the memory check is dropped.
EnoughMemoryNot(total) == TRUE

\* get_free_bytes().checked_sub(object_size)
EnoughMemory(total) == total <= Word(End - free_idx)

\* What CapGenerator yields from first on: num objects, each of them total
\* further than the one before.
Generated(type, user_size, num, first, total) ==
    { [type |-> type, addr |-> first + i * total, size |-> ObjectSize(type, user_size)] :
        i \in 0..(num - 1) }

\* Mutant: the new free index is where the objects start.
EndAddressFirst(num, first, total) == first

EndAddress(num, first, total) == first + Word(total * num)

\* The places where a debug build panics: the size computation, the
\* subtraction in get_free_bytes, and the generator's end address.
Overflows(type, user_size, num) ==
    \/ num * ObjectSize(type, user_size) >= 2^WordBits
    \/ free_idx > End
    \/ /\ EnoughMemory(TotalSize(type, user_size, num))
       /\ TotalSize(type, user_size, num) * num >= 2^WordBits

RetypePanics(type, user_size, num) ==
    /\ OverflowChecks
    /\ Overflows(type, user_size, num)
    /\ panicked' = TRUE
    /\ UNCHANGED <<free_idx, objects>>

RetypeNoMemory(type, user_size, num) ==
    /\ ~(OverflowChecks /\ Overflows(type, user_size, num))
    /\ ~EnoughMemory(TotalSize(type, user_size, num))
    /\ UNCHANGED untyped_vars

RetypeSucceeds(type, user_size, num) ==
    LET total == TotalSize(type, user_size, num)
        first == AlignUp(free_idx, AlignOf[type])
    IN  /\ ~(OverflowChecks /\ Overflows(type, user_size, num))
        /\ EnoughMemory(total)
        /\ objects' = objects \cup Generated(type, user_size, num, first, total)
        /\ free_idx' = EndAddress(num, first, total)
        /\ UNCHANGED panicked

Retype(type, user_size, num) ==
    /\ ~panicked
    /\ \/ RetypePanics(type, user_size, num)
       \/ RetypeNoMemory(type, user_size, num)
       \/ RetypeSucceeds(type, user_size, num)

\* A block as UntypedCapGenerator makes it at boot: nothing of it is used.
UntypedInit ==
    /\ free_idx = Start
    /\ objects = {}
    /\ panicked = FALSE

UntypedNext ==
    \E type \in RetypeTypes, user_size \in UserSizes, num \in Nums :
        Retype(type, user_size, num)

UntypedSpec == UntypedInit /\ [][UntypedNext]_untyped_vars

-----------------------------------------------------------------------------
(***************************************************************************)
(* Properties.                                                             *)
(***************************************************************************)

\* Every object lies inside the block it was made from: the memory check of
\* retype is enough, although the free index is aligned only after the check.
ObjectsInBlock ==
    \A o \in objects : Start <= o.addr /\ o.addr + o.size <= End

\* No two objects share memory.
ObjectsDisjoint ==
    \A o, p \in objects :
        o # p => o.addr + o.size <= p.addr \/ p.addr + p.size <= o.addr

\* Every object is aligned as its type demands, and its words are aligned: the
\* entries of a CNode too, although CNode itself has alignment 1.
ObjectsAligned ==
    \A o \in objects :
        o.addr % AlignOf[o.type] = 0 /\ o.addr % WordAlign = 0

\* Memory is never given back: the free index does not move backwards over an
\* object, whatever retype returns.
FreeIndexNeverReturns ==
    [][free_idx' >= free_idx /\ objects \subseteq objects']_untyped_vars

=============================================================================
