------------------------------- MODULE CSpace -------------------------------
(***************************************************************************)
(* Capability spaces: CNodes that hold capabilities, the lookup of a path, *)
(* and the invocations that fill, move and empty slots.                    *)
(*                                                                         *)
(* A slot is <<object, index>>.  The slots of a thread control block are   *)
(* root_cnode (0), vspace (1) and ipc_buffer (2).  Where a new object lies *)
(* in memory is the subject of Untyped; here it is only a new object.      *)
(* A call that the kernel answers with an error changes nothing.           *)
(*                                                                         *)
(* Sources: kernel/src/syscall.rs, capability.rs, capability/{cnode,tcb,   *)
(* untyped,endpoint,notification,page_table}.rs, object/{cnode,tcb}.rs.    *)
(***************************************************************************)
EXTENDS Integers, FiniteSets

CONSTANTS
    RootRadix,      \* ROOT_CNODE_ENTRY_NUM_BITS
    Radices,        \* the user_size of the CNodes made at run time
    NewTypes,       \* the types that Retype makes
    Nums,           \* the num argument of Retype
    MintTypes,      \* the types that callers mint (Mintable in libzoea)
    Badges,         \* the cap_val argument of Mint
    CopyTypes,      \* the types that callers copy
    MoveTypes,      \* the types that callers move
    Depths,         \* the path lengths callers use
    MaxObjects,     \* bound: the objects that ever exist
    MaxCaps         \* bound: the slots that are ever filled

VARIABLES
    objects,        \* the kernel objects made so far, by number: type and radix
    slots,          \* the filled slots: capability and links of the entry
    panic           \* whether an assertion or an index check stopped the kernel

vars == <<objects, slots, panic>>

Types == {"Untyped", "Tcb", "EndPoint", "CNode", "Notification", "PageTable", "Page"}

\* The root CNode has room for what the boot code puts into it.  A CNode with a
\* radix of 0 would make lookup_entry_mut loop; libzoea mints only these types.
ASSUME CSpaceAssumption ==
    /\ RootRadix \in Nat \ {0} /\ 2^RootRadix > 6
    /\ Radices \subseteq Nat \ {0}
    /\ NewTypes \subseteq Types
    /\ MintTypes \subseteq {"EndPoint", "Notification"}
    /\ Nums \subseteq Nat /\ Badges \subseteq Nat /\ Depths \subseteq Nat

Null == <<>>                \* no link
Stack == <<"stack">>        \* a link to an entry that was on the kernel stack
NoSlot == <<"no slot">>     \* a failed lookup

Filled == DOMAIN slots
Holds(s, type) == s \in Filled /\ slots[s].cap.type = type

Tcbs == {t \in DOMAIN objects : objects[t].type = "Tcb"}

\* The CNode capabilities that threads have as their root.
Roots == {slots[<<t, 0>>].cap : t \in {u \in Tcbs : <<u, 0>> \in Filled}}

\* cap_dep_val: the radix of a CNode, the badge of an endpoint or notification,
\* whether a page or page table is mapped.
Cap(type, obj, val) == [type |-> type, obj |-> obj, val |-> val]
CNodeCap == [type : {"CNode"}, obj : Nat, val : Nat \ {0}]

\* A slot's content: a capability, and the two links of its ManagementDB.
Entry(cap, prev, next) == [cap |-> cap, prev |-> prev, next |-> next]

\* Every filled slot lies in an object that has such a slot.  The kernel
\* trusts the radix of a capability when it computes a slot's address.
TypeOK ==
    /\ panic \in BOOLEAN
    /\ \A o \in DOMAIN objects : objects[o].type \in Types
    /\ \A s \in Filled :
        /\ slots[s].cap.type \in Types
        /\ slots[s].cap.val \in Nat
        /\ slots[s].cap.obj \in DOMAIN objects
        /\ s[1] \in DOMAIN objects
        /\ objects[s[1]].type = "CNode" => s[2] \in 0..(2^objects[s[1]].radix - 1)
        /\ objects[s[1]].type = "Tcb" => s[2] \in 0..2
        /\ objects[s[1]].type \in {"CNode", "Tcb"}

----------------------------------------------------------------------------
(* Lookup *)

\* The slot that a path of depth bits names: each CNode on the way consumes its
\* radix from the high end.  An empty slot or a capability of another type ends
\* the walk, even when bits are left.
lookup_entry_mut(root, ptr, depth) ==
    LET walk[d \in 0..depth] ==
          [c \in CNodeCap |->
              IF d < c.val THEN NoSlot
              ELSE LET rem == d - c.val
                       s == <<c.obj, (ptr \div 2^rem) % 2^c.val>>
                   IN  IF rem = 0 \/ ~Holds(s, "CNode") THEN s ELSE walk[rem][slots[s].cap]]
    IN  walk[depth][root]

\* The slots that a caller can name from a CNode capability.
Addressable(root) ==
    (UNION {{lookup_entry_mut(root, p, d) : p \in 0..(2^d - 1)} : d \in Depths}) \ {NoSlot}

\* Those that hold a capability of a type, as as_capability and try_ref_as check.
Named(root, type) == {s \in Addressable(root) : Holds(s, type)}

\* Mutant: a slot that is filled is handed out.
get_writableFilled(cap, num, index) == 2^cap.val > num + index

\* Mutant: the bound forgets the index.
get_writableNoBound(cap, num, index) ==
    /\ 2^cap.val > num
    /\ \A i \in 0..(num - 1) : <<cap.obj, index + i>> \notin Filled

get_writable(cap, num, index) ==
    /\ 2^cap.val > num + index
    /\ \A i \in 0..(num - 1) : <<cap.obj, index + i>> \notin Filled

----------------------------------------------------------------------------
(* Derivation, and the links between entries *)

\* Mutant: a capability of any type can be derived.
CanDeriveAny(cap) == cap.type = "Page" => cap.val = 1

\* Untyped and Tcb keep the default, CanNotDerivable; a page must be mapped.
CanDerive(cap) ==
    /\ cap.type \notin {"Untyped", "Tcb"}
    /\ cap.type = "Page" => cap.val = 1

\* Mutant: every copy starts with cap_dep_val 0.
deriveReset(cap) == [cap EXCEPT !.val = 0]

\* The copy of an endpoint, notification or page starts with cap_dep_val 0.
derive(cap) ==
    IF cap.type \in {"CNode", "PageTable"} THEN cap ELSE [cap EXCEPT !.val = 0]

\* f with the entry e in slot s.
Put(f, s, e) == [x \in DOMAIN f \cup {s} |-> IF x = s THEN e ELSE f[x]]

\* A new entry is linked behind its parent while it is still a local variable,
\* and then moved into its slot: the parent points to where the entry was.
insert(s, parent, cap) ==
    Put([slots EXCEPT ![parent].next = Stack], s, Entry(cap, parent, slots[parent].next))

\* The links of a moved entry.  A previous link that is missing can become the
\* address of the local entry, when that is where the stale next link points.
replace(s, src, cap) ==
    LET old == slots[src]
        relink(f) == IF old.prev \in DOMAIN f THEN [f EXCEPT ![old.prev].next = Stack] ELSE f
        prevs == IF old.prev = Null /\ old.next = Stack THEN {Null, Stack} ELSE {old.prev}
    IN  {Put(relink([x \in Filled \ {src} |-> slots[x]]), s, Entry(cap, p, old.next)) : p \in prevs}

----------------------------------------------------------------------------
(* Invocations, once the paths in their arguments are resolved *)

Panic ==
    /\ panic' = TRUE
    /\ UNCHANGED <<objects, slots>>

Room(num) == Cardinality(Filled) + num <= MaxCaps

\* Objects made at run time have the next free numbers.
Fresh == Cardinality(DOMAIN objects)

\* The radix a new capability records, and with it the number of its slots.
create_cap_dep_val(type, user_size) == IF type = "CNode" THEN user_size ELSE 0

\* Retype without objects indexes an empty slice of slots and panics.  Otherwise
\* the objects go to consecutive slots, each linked behind the untyped entry.
UntypedRetype(ut, node, index, num, type, user_size) ==
    /\ get_writable(slots[node].cap, num, index)
    /\ IF num = 0 THEN Panic
       ELSE LET val == create_cap_dep_val(type, user_size)
                new == {<<slots[node].cap.obj, index + i>> : i \in 0..(num - 1)}
                entry(i) == Entry(Cap(type, Fresh + i, val), ut,
                                  IF i = 0 THEN slots[ut].next ELSE Stack)
            IN  /\ Fresh + num <= MaxObjects
                /\ Room(num)
                /\ objects' = [o \in 0..(Fresh + num - 1) |->
                                 IF o < Fresh THEN objects[o]
                                 ELSE [type |-> type, radix |-> val]]
                /\ slots' = [s \in Filled \cup new |->
                               IF s \in new THEN entry(s[2] - index)
                               ELSE IF s = ut THEN [slots[s] EXCEPT !.next = Stack]
                               ELSE slots[s]]
                /\ UNCHANGED panic

\* Copy, mint and move.  Whatever can be derived can also be moved, and nothing else.
CNodeCopy(src, dest) ==
    /\ dest \notin Filled
    /\ CanDerive(slots[src].cap)
    /\ Room(1)
    /\ slots' = insert(dest, src, derive(slots[src].cap))
    /\ UNCHANGED <<objects, panic>>

CNodeMint(src, dest, val) ==
    /\ dest \notin Filled
    /\ CanDerive(slots[src].cap)
    /\ Room(1)
    /\ slots' = insert(dest, src, [derive(slots[src].cap) EXCEPT !.val = val])
    /\ UNCHANGED <<objects, panic>>

CNodeMove(src, dest) ==
    /\ dest \notin Filled
    /\ CanDerive(slots[src].cap)
    /\ slots' \in replace(dest, src, derive(slots[src].cap))
    /\ UNCHANGED <<objects, panic>>

\* TCB configure derives the root CNode and then the address space into the
\* thread; a slot of the thread that is already set fails an assertion.
TcbConfigure(tcb, cnode, vspace) ==
    LET t == slots[tcb].cap.obj
        first == insert(<<t, 0>>, cnode, slots[cnode].cap)
    IN  IF {<<t, 0>>, <<t, 1>>} \cap Filled # {} THEN Panic
        ELSE /\ Room(2)
             /\ slots' = Put([first EXCEPT ![vspace].next = Stack], <<t, 1>>,
                             Entry(slots[vspace].cap, vspace, slots[vspace].next))
             /\ UNCHANGED <<objects, panic>>

TcbSetIpcBuffer(tcb, page) ==
    LET s == <<slots[tcb].cap.obj, 2>>
    IN  /\ CanDerive(slots[page].cap)
        /\ IF s \in Filled THEN Panic
           ELSE /\ Room(1)
                /\ slots' = insert(s, page, derive(slots[page].cap))
                /\ UNCHANGED <<objects, panic>>

\* What mapping and unmapping a page does to its capability (VSpace has the rest).
PageMapOrUnMap(page) ==
    /\ slots' = [slots EXCEPT ![page].cap.val = 1 - @]
    /\ UNCHANGED <<objects, panic>>

----------------------------------------------------------------------------
(* The specification *)

\* The root server's CSpace as the boot code leaves it, without the pages and
\* page tables of the program: root CNode (object 0), address space (1), TCB (2),
\* IPC buffer (3), boot info page (4) and one untyped block (5).
Init ==
    /\ objects = [o \in 0..5 |->
                    [type |-> CASE o = 0 -> "CNode" [] o = 1 -> "PageTable" [] o = 2 -> "Tcb"
                                [] o \in {3, 4} -> "Page" [] o = 5 -> "Untyped",
                     radix |-> IF o = 0 THEN RootRadix ELSE 0]]
    /\ slots = LET node == Cap("CNode", 0, RootRadix)
                   vspace == Cap("PageTable", 1, 1)
                   ipc == Cap("Page", 3, 1)
               IN  [s \in ({0} \X (1..6)) \cup ({2} \X (0..2)) |->
                     CASE s = <<0, 1>> -> Entry(Cap("Tcb", 2, 0), Null, Null)
                       [] s = <<0, 2>> -> Entry(node, Null, Stack)
                       [] s = <<0, 3>> -> Entry(vspace, Null, Stack)
                       [] s = <<0, 4>> -> Entry(ipc, Null, Stack)
                       [] s = <<0, 5>> -> Entry(Cap("Page", 4, 1), Null, Null)
                       [] s = <<0, 6>> -> Entry(Cap("Untyped", 5, 0), Null, Null)
                       [] s = <<2, 0>> -> Entry(node, <<0, 2>>, Null)
                       [] s = <<2, 1>> -> Entry(vspace, <<0, 3>>, Null)
                       [] s = <<2, 2>> -> Entry(ipc, <<0, 4>>, Null)]
    /\ panic = FALSE

\* handle_invocation: a thread's arguments are looked up from its root, the
\* destination of a copy, mint or move from the CNode that is invoked.
Invoke(root) ==
    \/ \E ut \in Named(root, "Untyped"), node \in Named(root, "CNode"), num \in Nums,
          index \in 0..(2^RootRadix - 1), type \in NewTypes, user_size \in Radices :
        UntypedRetype(ut, node, index, num, type, user_size)
    \/ \E node \in Named(root, "CNode"), src \in Addressable(root) \cap Filled :
        \E dest \in Addressable(slots[node].cap) :
            \/ slots[src].cap.type \in CopyTypes /\ CNodeCopy(src, dest)
            \/ /\ slots[src].cap.type \in MintTypes
               /\ \E val \in Badges : CNodeMint(src, dest, val)
            \/ slots[src].cap.type \in MoveTypes /\ CNodeMove(src, dest)
    \/ \E tcb \in Named(root, "Tcb"), cnode \in Named(root, "CNode"),
          vspace \in Named(root, "PageTable") : TcbConfigure(tcb, cnode, vspace)
    \/ \E tcb \in Named(root, "Tcb"), page \in Named(root, "Page") : TcbSetIpcBuffer(tcb, page)
    \/ \E page \in Named(root, "Page") : PageMapOrUnMap(page)

Next == ~panic /\ \E root \in Roots : Invoke(root)

Spec == Init /\ [][Next]_vars

----------------------------------------------------------------------------
(* Properties *)

\* A capability says what its object is: its type is the type the object was
\* made with, and the radix of a CNode capability is that of the node's memory,
\* so lookup_entry_mut never computes a slot outside the node.
CapsMatchObjects ==
    \A s \in Filled :
        LET cap == slots[s].cap
        IN  /\ cap.type = objects[cap.obj].type
            /\ cap.type = "CNode" => cap.val = objects[cap.obj].radix

\* An untyped block or a thread has one capability, wherever it is: there is one
\* free index for the memory of a block (derive is refused, for moves as well).
OneCapPerUntypedAndTcb ==
    \A s, t \in Filled :
        /\ slots[s].cap.obj = slots[t].cap.obj
        /\ slots[s].cap.type \in {"Untyped", "Tcb"}
        => s = t

\* A filled slot keeps its object and type unless a move empties it, and then another
\* slot has got its capability.
CapsKept ==
    \A s \in Filled :
        LET cap == slots[s].cap
            same(t) == slots'[t].cap.obj = cap.obj /\ slots'[t].cap.type = cap.type
        IN  \/ s \in DOMAIN slots' /\ same(s)
            \/ s \notin DOMAIN slots' /\ \E t \in DOMAIN slots' \ Filled : same(t)

\* No invocation overwrites a capability (get_writable, the checks for NotEmptySlot
\* and the assertions of TCB configure).
NoCapOverwritten == [][CapsKept]_vars

\* What the layout of ManagementDB says, for the entry of an untyped block: its
\* next link is the next node entry, a filled slot that links back to this one.
NextIsNodeEntry ==
    \A s \in Filled :
        LET next == slots[s].next
        IN  slots[s].cap.type = "Untyped" /\ next # Null
            => next \in Filled /\ slots[next].prev = s

=============================================================================
