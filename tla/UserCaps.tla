------------------------------ MODULE UserCaps ------------------------------
(***************************************************************************)
(* libzoea's capabilities over the kernel's CSpace: a program names a      *)
(* capability by the path that libzoea computes, and a CNode capability    *)
(* hands out slots with a cursor.  The program is the root server; the     *)
(* kernel's side of every call is an invocation of CSpace.                 *)
(*                                                                         *)
(* Sources: libzoea/src/caps.rs, rootserver/src/boot_info.rs.              *)
(***************************************************************************)
EXTENDS CSpace

CONSTANTS
    Copyable,       \* the types with the Copyable trait
    Mintable,       \* the types with the Mintable trait
    MintNodes       \* the nodes that the program mints into

VARIABLE handles    \* the Capability values: by path, the type and the CNode's cursor

uvars == <<objects, slots, panic, handles>>

Handle(type, radix, cursor) == [type |-> type, radix |-> radix, cursor |-> cursor]

\* The program's own root, and the slot that the kernel finds for a path.
Root == slots[<<2, 0>>].cap
Slot(path) == lookup_entry_mut(Root, path[1], path[2])

Nodes == {n \in DOMAIN handles : handles[n].type = "CNode"}

\* get_slot succeeds while the cursor is inside the node.
HasSlot(n) == handles[n].cursor < 2^handles[n].radix

\* Mutant: the path of a new capability is not nested in its node's path.
get_cap_ptrFlat(n) == <<handles[n].cursor, handles[n].radix>>

\* The path of the slot that get_slot hands out next.
get_cap_ptr(n) ==
    <<n[1] * 2^handles[n].radix + handles[n].cursor, n[2] + handles[n].radix>>

\* Mutant: get_slot does not advance the cursor.
TakenKept(n) == handles

\* The handles after get_slot: the slot is taken, whatever becomes of the call.
Taken(n) == [handles EXCEPT ![n].cursor = @ + 1]

\* A call that succeeds takes the slot and makes a new handle.
Ok(n, handle) == handles' = Put(Taken(n), get_cap_ptr(n), handle)

\* A retype, copy or mint that the kernel answers with an error, for memory, an
\* unmapped page or the last slot of the node: the slot is lost.
CallFails(n) ==
    /\ HasSlot(n)
    /\ handles' = Taken(n)
    /\ UNCHANGED vars

retype_single(ut, n, type, user_size) ==
    /\ HasSlot(n)
    /\ Holds(Slot(ut), "Untyped")
    /\ Holds(Slot(n), "CNode")
    /\ UntypedRetype(Slot(ut), Slot(n), handles[n].cursor, 1, type, user_size)
    /\ Ok(n, Handle(type, create_cap_dep_val(type, user_size), 0))

\* Mutant: copy names the destination from the root, as mint does.
CopyDestFull(n) ==
    lookup_entry_mut(slots[Slot(n)].cap, get_cap_ptr(n)[1], get_cap_ptr(n)[2])

\* copy names the destination inside the node: its index, and the radix as depth.
CopyDest(n) == lookup_entry_mut(slots[Slot(n)].cap, handles[n].cursor, handles[n].radix)

\* mint names it by the whole path, which the kernel looks up from the node.
MintDest(n) == lookup_entry_mut(slots[Slot(n)].cap, get_cap_ptr(n)[1], get_cap_ptr(n)[2])

copy(n, h) ==
    /\ HasSlot(n)
    /\ handles[h].type \in Copyable
    /\ Holds(Slot(n), "CNode")
    /\ Slot(h) \in Filled
    /\ CopyDest(n) # NoSlot
    /\ CNodeCopy(Slot(h), CopyDest(n))
    /\ Ok(n, handles[h])

mint(n, h, cap_val) ==
    /\ HasSlot(n)
    /\ handles[h].type \in Mintable
    /\ Holds(Slot(n), "CNode")
    /\ Slot(h) \in Filled
    /\ MintDest(n) # NoSlot
    /\ CNodeMint(Slot(h), MintDest(n), cap_val)
    /\ Ok(n, handles[h])

\* Page::map and unmap, configure and set_ipc_buffer take no slot of libzoea's.
map_page(h) ==
    /\ Holds(Slot(h), "Page")
    /\ PageMapOrUnMap(Slot(h))
    /\ UNCHANGED handles

configure(t, c, v) ==
    /\ Holds(Slot(t), "Tcb") /\ Holds(Slot(c), "CNode") /\ Holds(Slot(v), "PageTable")
    /\ TcbConfigure(Slot(t), Slot(c), Slot(v))
    /\ UNCHANGED handles

set_ipc_buffer(t, p) ==
    /\ Holds(Slot(t), "Tcb") /\ Holds(Slot(p), "Page")
    /\ TcbSetIpcBuffer(Slot(t), Slot(p))
    /\ UNCHANGED handles

----------------------------------------------------------------------------

\* BootInfo gives the program its root CNode (whose cursor starts behind the
\* capabilities of the boot code), its address space and the first untyped block.
RootPath == <<2, RootRadix>>

\* The impls of Copyable and Mintable.
ASSUME UserCapsAssumption ==
    /\ Copyable \subseteq {"Page", "Notification"}
    /\ Mintable \subseteq {"EndPoint", "Notification"}

\* The root server mints into its root CNode only.  The kernel looks up the path that
\* mint names from the node, where the bits of the path select other slots than from
\* the root, unless the node is the root.
MintsIntoRoot == MintNodes \subseteq {RootPath}

BootHandles ==
    [p \in {RootPath, <<3, RootRadix>>, <<6, RootRadix>>} |->
      CASE p = RootPath -> Handle("CNode", RootRadix, 7)
        [] p = <<3, RootRadix>> -> Handle("PageTable", 0, 0)
        [] p = <<6, RootRadix>> -> Handle("Untyped", 0, 0)]

UserInit == Init /\ handles = BootHandles

UserNext ==
    /\ ~panic
    /\ \/ \E n \in Nodes : CallFails(n)
       \/ \E n \in Nodes, h \in DOMAIN handles :
            \/ /\ handles[h].type = "Untyped"
               /\ \E type \in NewTypes, user_size \in Radices :
                    retype_single(h, n, type, user_size)
            \/ copy(n, h)
            \/ n \in MintNodes /\ \E val \in Badges : mint(n, h, val)
       \/ \E h \in DOMAIN handles : handles[h].type = "Page" /\ map_page(h)
       \/ \E t, c, v \in DOMAIN handles :
            /\ handles[t].type = "Tcb" /\ handles[c].type = "CNode"
            /\ handles[v].type = "PageTable"
            /\ configure(t, c, v)
       \/ \E t, p \in DOMAIN handles :
            handles[t].type = "Tcb" /\ handles[p].type = "Page" /\ set_ipc_buffer(t, p)

UserSpec == UserInit /\ [][UserNext]_uvars

----------------------------------------------------------------------------
(* Properties *)

\* Every Capability<K> of the program resolves to a slot that holds a capability
\* of type K, and no two of them to the same slot: the path that get_cap_ptr
\* computes is the one lookup_entry_mut walks, however deep the node is that a retype
\* or copy fills (mints go to the root CNode, MintsIntoRoot).
PathsResolve ==
    LET slot == [h \in DOMAIN handles |-> Slot(h)]
    IN  /\ \A h \in DOMAIN handles :
            /\ Holds(slot[h], handles[h].type)
            /\ handles[h].type = "CNode" => slots[slot[h]].cap.val = handles[h].radix
        /\ \A g, h \in DOMAIN handles : slot[g] = slot[h] => g = h

\* The cursor of a CNode is never behind a filled slot, so get_slot never hands
\* out a slot that is in use and no call is lost to NotEmptySlot.
CursorPastFilled ==
    \A n \in Nodes :
        LET node == slots[Slot(n)].cap.obj
        IN  \A s \in Filled : s[1] = node => s[2] < handles[n].cursor

\* The abstract store that a program sees: what the kernel finds for each path.
Meaning(h) ==
    LET s == Slot(h)
        cap == IF s \in Filled THEN slots[s].cap ELSE Cap("none", 0, 0)
    IN  [type |-> cap.type, obj |-> cap.obj,
         badge |-> IF cap.type \in Mintable THEN cap.val ELSE 0]

Store == INSTANCE CapStore WITH
    Boot <- [p \in DOMAIN BootHandles |->
              [type |-> BootHandles[p].type,
               obj |-> CASE p = RootPath -> 0 [] p[1] = 3 -> 1 [] p[1] = 6 -> 5,
               badge |-> 0]],
    NoBadge <- 0,
    store <- [h \in DOMAIN handles |-> Meaning(h)]

\* libzoea over the kernel implements the store: a retype, copy or mint gives one
\* new name, and no call ever changes what an earlier name means.
StoreSpec == Store!Spec

=============================================================================
