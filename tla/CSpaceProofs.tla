---------------------------- MODULE CSpaceProofs ----------------------------
(***************************************************************************)
(* Proofs about CSpace, for every size of the root CNode, every size of    *)
(* the CNodes made at run time, and every choice of arguments.             *)
(*                                                                         *)
(* The invariant IInv adds to the properties what they rest on: every      *)
(* filled slot is a slot of a CNode or of a thread, a thread's root is a   *)
(* CNode, CNodes have a radix, and objects are numbered without gaps.      *)
(***************************************************************************)
EXTENDS CSpace, NatLemmas

\* The backends of a leaf that names none, in the order they are tried.
USE SMTT(20), ZenonT(10), SMTT(30), SMTT(40), SMTT(50)

-----------------------------------------------------------------------------
(***************************************************************************)
(* Lookup.                                                                 *)
(***************************************************************************)

\* One round of the loop of lookup_entry_mut, when d bits of the path are left.
Step(ptr, f, d) ==
    [c \in CNodeCap |->
        IF d < c.val THEN NoSlot
        ELSE LET rem == d - c.val
                 s == <<c.obj, (ptr \div 2^rem) % 2^c.val>>
             IN  IF rem = 0 \/ ~Holds(s, "CNode") THEN s ELSE f[rem][slots[s].cap]]

\* f gives what the loop finds, for every number of bits that are left.
IsWalk(ptr, f, depth) == f = [d \in 0..depth |-> Step(ptr, f, d)]

\* A round of the loop of lookup_entry_mut depends only on rounds with fewer bits left.
LEMMA StepReadsBelow ==
    ASSUME NEW ptr, NEW f, NEW g, NEW d \in Nat,
           \A e \in 0..(d - 1) : f[e] = g[e]
    PROVE  Step(ptr, f, d) = Step(ptr, g, d)
<1>. SUFFICES ASSUME NEW c \in CNodeCap, ~(d < c.val)
              PROVE  f[d - c.val] = g[d - c.val]
  BY DEF Step
<1>. QED  BY DEF CNodeCap

\* The loop of lookup_entry_mut ends, whatever the slots hold: every CNode consumes bits.
LEMMA WalkExists ==
    ASSUME NEW ptr, NEW depth \in Nat
    PROVE  \E f : IsWalk(ptr, f, depth)
<1>. DEFINE S == {n \in Nat : \E f : IsWalk(ptr, f, n)}
<1>1. 0 \in S
  <2>. DEFINE f == [d \in 0..0 |-> Step(ptr, <<>>, d)]
  <2>1. \A d \in 0..0 : f[d] = Step(ptr, f, d)
    BY StepReadsBelow
  <2>2. IsWalk(ptr, f, 0)
    BY <2>1 DEF IsWalk
  <2>. QED  BY <2>2
<1>2. ASSUME NEW n \in Nat, n \in S PROVE n + 1 \in S
  <2>1. PICK f : IsWalk(ptr, f, n)
    BY <1>2
  <2>. DEFINE g == [d \in 0..(n + 1) |-> IF d <= n THEN f[d] ELSE Step(ptr, f, d)]
  <2>2. \A e \in 0..n : f[e] = g[e]
    OBVIOUS
  <2>3. ASSUME NEW d \in 0..(n + 1) PROVE g[d] = Step(ptr, g, d)
    <3>1. Step(ptr, f, d) = Step(ptr, g, d)
      BY <2>2, StepReadsBelow
    <3>2. d <= n => f[d] = Step(ptr, f, d)
      BY <2>1 DEF IsWalk
    <3>. QED  BY <3>1, <3>2
  <2>4. IsWalk(ptr, g, n + 1)
    BY <2>3 DEF IsWalk
  <2>. QED  BY <2>4
<1>3. Nat \subseteq S
  BY Zenon, <1>1, <1>2, SetInduction
<1>. QED  BY <1>3

\* lookup_entry_mut is such a walk over all bits of the path.
LEMMA LookupIsWalk ==
    ASSUME NEW root, NEW ptr, NEW depth \in Nat
    PROVE  \E f : IsWalk(ptr, f, depth) /\ lookup_entry_mut(root, ptr, depth) = f[depth][root]
<1>. DEFINE f == CHOOSE g : IsWalk(ptr, g, depth)
<1>1. IsWalk(ptr, f, depth)
  BY WalkExists
<1>2. lookup_entry_mut(root, ptr, depth) = f[depth][root]
  BY Zenon DEF lookup_entry_mut, IsWalk, Step
<1>. QED  BY Zenon, <1>1, <1>2

-----------------------------------------------------------------------------
(***************************************************************************)
(* The invariant.                                                          *)
(***************************************************************************)

Links == {Null, Stack} \cup (Nat \X Nat)

\* What a capability must be, given the objects that exist.
CapOK(c, objs) ==
    /\ c \in [type : Types, obj : DOMAIN objs, val : Nat]
    /\ c.type = objs[c.obj].type
    /\ c.type = "CNode" => c.val = objs[c.obj].radix /\ c.val # 0
    /\ c.type = "Page" => c.val \in {0, 1}

\* A slot of a CNode that a path can name.
NodeSlot(s, objs) ==
    /\ s \in Nat \X Nat
    /\ s[1] \in DOMAIN objs
    /\ objs[s[1]].type = "CNode"
    /\ s[2] \in 0..(2^objs[s[1]].radix - 1)

\* A slot of a thread, and the type of capability in it.
TcbSlot(s, type, objs) ==
    /\ s \in Nat \X (0..2)
    /\ s[1] \in DOMAIN objs
    /\ objs[s[1]].type = "Tcb"
    /\ s[2] = 0 => type = "CNode"

\* An entry, and the slot it is in.
EntryOK(s, e, objs) ==
    /\ e \in [cap : [type : Types, obj : DOMAIN objs, val : Nat], prev : Links, next : Links]
    /\ CapOK(e.cap, objs)
    /\ NodeSlot(s, objs) \/ TcbSlot(s, e.cap.type, objs)

\* Objects are numbered from 0 on.
ObjectsOK(objs) ==
    \E n \in Nat : /\ DOMAIN objs = 0..(n - 1)
                   /\ objs \in [0..(n - 1) -> [type : Types, radix : Nat]]

IInv ==
    /\ panic \in BOOLEAN
    /\ ObjectsOK(objects)
    /\ slots = [s \in Filled |-> slots[s]]
    /\ \A s \in Filled : EntryOK(s, slots[s], objects)
    /\ OneCapPerUntypedAndTcb

\* A capability to a CNode is one that the loop can go on with.
LEMMA CNodeCaps ==
    ASSUME ObjectsOK(objects), NEW c, CapOK(c, objects), c.type = "CNode"
    PROVE  c \in CNodeCap
<1>1. c.obj \in Nat
  BY DEF CapOK, ObjectsOK
<1>. QED  BY <1>1 DEF CapOK, CNodeCap

\* The slot that one round of the loop computes is in the node of its capability.
LEMMA SlotInNode ==
    ASSUME NEW c \in CNodeCap, CapOK(c, objects), NEW p \in Nat
    PROVE  NodeSlot(<<c.obj, p % 2^c.val>>, objects)
<1>1. 2^c.val \in Nat \ {0}
  BY PowerOfTwo DEF CNodeCap
<1>2. p % 2^c.val \in 0..(2^c.val - 1)
  BY <1>1
<1>3. c.obj \in Nat /\ c.type = "CNode"
  BY DEF CNodeCap
<1>4. c.obj \in DOMAIN objects /\ objects[c.obj].type = "CNode" /\ objects[c.obj].radix = c.val
  BY <1>3 DEF CapOK
<1>. QED  BY <1>1, <1>2, <1>3, <1>4 DEF NodeSlot

\* One round of the loop stays in the node, or goes on with a capability it trusts.
LEMMA StepInNode ==
    ASSUME IInv, NEW ptr \in Nat, NEW f, NEW d \in Nat,
           NEW c \in CNodeCap, CapOK(c, objects),
           \A e \in 0..(d - 1) : \A b \in CNodeCap :
              CapOK(b, objects) => f[e][b] = NoSlot \/ NodeSlot(f[e][b], objects)
    PROVE  Step(ptr, f, d)[c] = NoSlot \/ NodeSlot(Step(ptr, f, d)[c], objects)
<1>. DEFINE rem == d - c.val
            s == <<c.obj, (ptr \div 2^rem) % 2^c.val>>
<1>1. CASE d < c.val
  BY <1>1 DEF Step
<1>2. CASE ~(d < c.val)
  <2>1. c.val \in Nat \ {0} /\ rem \in 0..(d - 1)
    BY <1>2 DEF CNodeCap
  <2>2. 2^rem \in Nat \ {0}
    BY <2>1, PowerOfTwo
  <2>3. ptr \div 2^rem \in Nat
    BY <2>2
  <2>6. NodeSlot(s, objects)
    BY <2>3, SlotInNode
  <2>7. CASE rem = 0 \/ ~Holds(s, "CNode")
    BY <1>2, <2>6, <2>7 DEF Step
  <2>8. CASE ~(rem = 0 \/ ~Holds(s, "CNode"))
    <3>1. CapOK(slots[s].cap, objects) /\ slots[s].cap.type = "CNode"
      BY <2>8 DEF Holds, IInv, EntryOK
    <3>2. slots[s].cap \in CNodeCap
      BY <3>1, CNodeCaps DEF IInv
    <3>3. Step(ptr, f, d)[c] = f[rem][slots[s].cap]
      BY <1>2, <2>8 DEF Step
    <3>. QED  BY <2>1, <3>1, <3>2, <3>3
  <2>. QED  BY <2>7, <2>8
<1>. QED  BY <1>1, <1>2

\* lookup_entry_mut finds a slot inside the node of some capability, or nothing.
LEMMA LookupInNode ==
    ASSUME IInv, NEW root, CapOK(root, objects), root.type = "CNode",
           NEW ptr \in Nat, NEW depth \in Nat
    PROVE  \/ lookup_entry_mut(root, ptr, depth) = NoSlot
           \/ NodeSlot(lookup_entry_mut(root, ptr, depth), objects)
<1>1. PICK f : IsWalk(ptr, f, depth) /\ lookup_entry_mut(root, ptr, depth) = f[depth][root]
  BY LookupIsWalk
<1>. DEFINE Good(d) == \A c \in CNodeCap :
                CapOK(c, objects) => f[d][c] = NoSlot \/ NodeSlot(f[d][c], objects)
            S == {n \in Nat : \A d \in 0..n : d <= depth => Good(d)}
<1>2. ASSUME NEW d \in 0..depth, \A e \in 0..(d - 1) : Good(e) PROVE Good(d)
  <2>1. f[d] = Step(ptr, f, d)
    BY <1>1 DEF IsWalk
  <2>. HIDE <1>1
  <2>. QED  BY <1>2, <2>1, StepInNode
<1>. HIDE DEF Good
<1>3. 0 \in S
  BY <1>2
<1>4. \A n \in Nat : n \in S => n + 1 \in S
  <2>. SUFFICES ASSUME NEW n \in Nat, n \in S, n + 1 <= depth PROVE Good(n + 1)
    OBVIOUS
  <2>. QED  BY <1>2
<1>5. Nat \subseteq S
  <2>. HIDE DEF S
  <2>. QED  BY <1>3, <1>4, SetInduction
<1>6. Good(depth)
  BY <1>5
<1>7. root \in CNodeCap
  BY CNodeCaps DEF IInv
<1>. QED  BY <1>1, <1>6, <1>7 DEF Good

\* Every slot that a thread can name from a CNode capability is a slot of a CNode.
LEMMA AddressableInNode ==
    ASSUME IInv, NEW root, CapOK(root, objects), root.type = "CNode",
           NEW s \in Addressable(root)
    PROVE  NodeSlot(s, objects)
<1>1. PICK d \in Depths : \E p \in 0..(2^d - 1) : s = lookup_entry_mut(root, p, d)
  BY DEF Addressable
<1>2. PICK p \in 0..(2^d - 1) : s = lookup_entry_mut(root, p, d)
  BY <1>1
<1>3. d \in Nat /\ p \in Nat
  BY PowerOfTwo, CSpaceAssumption
<1>4. s # NoSlot
  BY DEF Addressable
<1>. QED  BY <1>2, <1>3, <1>4, LookupInNode

-----------------------------------------------------------------------------
(***************************************************************************)
(* The links and what a step adds.                                         *)
(***************************************************************************)

\* The shape of an entry.
LinkTypes == [cap : [type : Types, obj : DOMAIN objects, val : Nat], prev : Links, next : Links]

\* A new entry links behind its parent (insert): the capabilities in all other
\* slots stay, whatever becomes of the links.
LEMMA InsertFills ==
    ASSUME IInv, NEW parent \in Filled, NEW s \in Nat \X Nat, s \notin Filled, NEW cap
    PROVE  LET new == insert(s, parent, cap)
           IN  /\ new = [x \in Filled \cup {s} |-> new[x]]
               /\ DOMAIN new = Filled \cup {s}
               /\ new[s] = Entry(cap, parent, slots[parent].next)
               /\ parent \in Links /\ slots[parent].next \in Links
               /\ \A x \in Filled : /\ new[x].cap = slots[x].cap
                                    /\ new[x].prev = slots[x].prev
                                    /\ new[x] \in LinkTypes
<1>. DEFINE linked == [slots EXCEPT ![parent].next = Stack]
            new == insert(s, parent, cap)
<1>1. \A x \in Filled : slots[x] \in LinkTypes
  BY DEF IInv, EntryOK, LinkTypes
<1>2. parent \in Nat \X Nat
  BY DEF IInv, EntryOK, NodeSlot, TcbSlot
<1>3. DOMAIN linked = Filled
  BY DEF IInv, Filled
<1>4. \A x \in Filled : linked[x] = IF x = parent THEN [slots[x] EXCEPT !.next = Stack] ELSE slots[x]
  BY DEF IInv, Filled
<1>5. \A x \in Filled : /\ linked[x] \in LinkTypes
                        /\ linked[x].cap = slots[x].cap
                        /\ linked[x].prev = slots[x].prev
  BY <1>1, <1>4 DEF LinkTypes, Links
<1>6. new = [x \in Filled \cup {s} |-> IF x = s THEN Entry(cap, parent, slots[parent].next)
                                       ELSE linked[x]]
  BY <1>3 DEF insert, Put
<1>7. parent \in Links /\ slots[parent].next \in Links
  BY <1>1, <1>2 DEF LinkTypes, Links
<1>. HIDE DEF linked
<1>. QED  BY <1>5, <1>6, <1>7

\* An entry stays right when objects are added.
LEMMA EntryStays ==
    ASSUME NEW s, NEW e, NEW d, EntryOK(s, e, objects),
           d \in [cap : {e.cap}, prev : Links, next : Links],
           \A o \in DOMAIN objects : o \in DOMAIN objects' /\ objects'[o] = objects[o]
    PROVE  EntryOK(s, d, objects')
BY DEF EntryOK, CapOK, NodeSlot, TcbSlot

\* A step that adds objects and fills slots, and leaves the other capabilities alone.
LEMMA GrowthKeepsIInv ==
    ASSUME IInv, panic' \in BOOLEAN, ObjectsOK(objects'),
           \A o \in DOMAIN objects : o \in DOMAIN objects' /\ objects'[o] = objects[o],
           slots' = [x \in DOMAIN slots' |-> slots'[x]],
           Filled \subseteq DOMAIN slots',
           \A x \in Filled : slots'[x] \in LinkTypes /\ slots'[x].cap = slots[x].cap,
           \A x \in DOMAIN slots' \ Filled :
              /\ EntryOK(x, slots'[x], objects')
              /\ slots'[x].cap.type \in {"Untyped", "Tcb"} =>
                  /\ slots'[x].cap.obj \notin DOMAIN objects
                  /\ \A y \in DOMAIN slots' \ Filled :
                        slots'[y].cap.obj = slots'[x].cap.obj => x = y
    PROVE  IInv'
<1>1. \A x \in Filled : EntryOK(x, slots'[x], objects')
  <2>. SUFFICES ASSUME NEW x \in Filled PROVE EntryOK(x, slots'[x], objects')
    OBVIOUS
  <2>1. EntryOK(x, slots[x], objects)
    BY DEF IInv
  <2>2. slots'[x] \in [cap : {slots[x].cap}, prev : Links, next : Links]
    BY DEF LinkTypes
  <2>. QED  BY <2>1, <2>2, EntryStays
<1>2. \A x \in DOMAIN slots' : EntryOK(x, slots'[x], objects')
  BY <1>1
<1>3. \A x \in Filled : slots[x].cap.obj \in DOMAIN objects
  BY DEF IInv, EntryOK
<1>4. OneCapPerUntypedAndTcb'
  <2>. SUFFICES ASSUME NEW x \in DOMAIN slots', NEW y \in DOMAIN slots',
                       slots'[x].cap.obj = slots'[y].cap.obj,
                       slots'[x].cap.type \in {"Untyped", "Tcb"}
                PROVE  x = y
    BY DEF OneCapPerUntypedAndTcb, Filled
  <2>0. slots'[y].cap.type = slots'[x].cap.type
    BY <1>2 DEF EntryOK, CapOK
  <2>1. CASE x \in Filled /\ y \in Filled
    BY <2>1 DEF IInv, OneCapPerUntypedAndTcb
  <2>2. CASE x \in Filled /\ y \notin Filled
    BY <2>0, <2>2, <1>3
  <2>3. CASE x \notin Filled
    BY <2>0, <2>3, <1>3
  <2>. QED  BY <2>1, <2>2, <2>3
<1>. QED  BY <1>2, <1>4 DEF IInv, Filled

\* A new entry that is linked behind its parent (CapEntry::insert).
LEMMA InsertKeepsIInv ==
    ASSUME IInv, NEW parent \in Filled, NEW s, s \notin Filled, NEW cap, CapOK(cap, objects),
           cap.type \notin {"Untyped", "Tcb"},
           NodeSlot(s, objects) \/ TcbSlot(s, cap.type, objects),
           slots' = insert(s, parent, cap), UNCHANGED <<objects, panic>>
    PROVE  IInv'
<1>1. s \in Nat \X Nat
  BY DEF NodeSlot, TcbSlot
<1>2. /\ slots' = [x \in Filled \cup {s} |-> slots'[x]]
      /\ DOMAIN slots' = Filled \cup {s}
      /\ slots'[s] = Entry(cap, parent, slots[parent].next)
      /\ parent \in Links /\ slots[parent].next \in Links
      /\ \A x \in Filled : slots'[x].cap = slots[x].cap /\ slots'[x] \in LinkTypes
  BY <1>1, InsertFills
<1>3. EntryOK(s, slots'[s], objects')
  BY <1>2 DEF EntryOK, Entry, CapOK
<1>4. slots'[s].cap = cap
  BY <1>2 DEF Entry
<1>5. panic' \in BOOLEAN /\ ObjectsOK(objects') /\ objects' = objects
  BY DEF IInv
<1>. QED  BY <1>2, <1>3, <1>4, <1>5, GrowthKeepsIInv

\* What can be derived keeps its object and type (Capability::derive).
LEMMA DeriveKeeps ==
    ASSUME NEW cap, CapOK(cap, objects), CanDerive(cap)
    PROVE  /\ CapOK(derive(cap), objects)
           /\ derive(cap).obj = cap.obj /\ derive(cap).type = cap.type
           /\ cap.type \notin {"Untyped", "Tcb"}
BY DEF CapOK, CanDerive, derive

\* Copy (CNodeCap::copy): a derived capability in an empty slot of a CNode.
LEMMA CopyKeepsIInv ==
    ASSUME IInv, NEW src \in Filled, NEW dest, NodeSlot(dest, objects), CNodeCopy(src, dest)
    PROVE  IInv'
<1>1. CapOK(slots[src].cap, objects)
  BY DEF IInv, EntryOK
<1>2. CapOK(derive(slots[src].cap), objects) /\ derive(slots[src].cap).type \notin {"Untyped", "Tcb"}
  BY <1>1, DeriveKeeps DEF CNodeCopy
<1>. QED  BY <1>2, InsertKeepsIInv DEF CNodeCopy

\* Mint: a copy with the badge that the caller gives it.
LEMMA MintKeepsIInv ==
    ASSUME IInv, NEW src \in Filled, NEW dest, NodeSlot(dest, objects), NEW val \in Nat,
           slots[src].cap.type \in {"EndPoint", "Notification"}, CNodeMint(src, dest, val)
    PROVE  IInv'
<1>. DEFINE cap == [derive(slots[src].cap) EXCEPT !.val = val]
<1>1. CapOK(slots[src].cap, objects)
  BY DEF IInv, EntryOK
<1>2. CapOK(derive(slots[src].cap), objects) /\ derive(slots[src].cap).type = slots[src].cap.type
  BY <1>1, DeriveKeeps DEF CNodeMint
<1>3. CapOK(cap, objects) /\ cap.type \notin {"Untyped", "Tcb"}
  BY Zenon, <1>2 DEF CapOK
<1>4. /\ dest \notin Filled /\ slots' = insert(dest, src, cap)
      /\ UNCHANGED <<objects, panic>>
  BY DEF CNodeMint
<1>. HIDE DEF cap
<1>. QED  BY <1>3, <1>4, InsertKeepsIInv

\* A panic changes nothing but the flag.
LEMMA PanicKeepsIInv ==
    ASSUME IInv, Panic
    PROVE  IInv'
BY DEF IInv, Panic, Filled, OneCapPerUntypedAndTcb

\* TCB set_ipc_buffer: the slot of the thread is empty, or the kernel panics.
LEMMA SetIpcBufferKeepsIInv ==
    ASSUME IInv, NEW tcb, Holds(tcb, "Tcb"), NEW page, Holds(page, "Page"),
           TcbSetIpcBuffer(tcb, page)
    PROVE  IInv'
<1>. DEFINE s == <<slots[tcb].cap.obj, 2>>
<1>1. CapOK(slots[tcb].cap, objects) /\ CapOK(slots[page].cap, objects) /\ ObjectsOK(objects)
  BY DEF IInv, EntryOK, Holds
<1>2. slots[tcb].cap.obj \in Nat /\ slots[tcb].cap.obj \in DOMAIN objects
      /\ objects[slots[tcb].cap.obj].type = "Tcb"
  BY <1>1 DEF CapOK, ObjectsOK, Holds
<1>3. TcbSlot(s, derive(slots[page].cap).type, objects)
  BY <1>2 DEF TcbSlot
<1>4. CASE s \in Filled
  BY <1>4, PanicKeepsIInv DEF TcbSetIpcBuffer
<1>5. CASE s \notin Filled
  <2>1. CapOK(derive(slots[page].cap), objects) /\ derive(slots[page].cap).type \notin {"Untyped", "Tcb"}
    BY <1>1, DeriveKeeps DEF TcbSetIpcBuffer
  <2>2. /\ page \in Filled /\ slots' = insert(s, page, derive(slots[page].cap))
        /\ UNCHANGED <<objects, panic>>
    BY <1>5 DEF TcbSetIpcBuffer, Holds
  <2>. HIDE DEF s
  <2>. QED  BY <1>3, <1>5, <2>1, <2>2, InsertKeepsIInv
<1>. QED  BY <1>4, <1>5

\* TCB configure fills two slots of the thread with copies.
LEMMA ConfigureFills ==
    ASSUME IInv, NEW tcb, Holds(tcb, "Tcb"), NEW cnode, Holds(cnode, "CNode"),
           NEW vspace, Holds(vspace, "PageTable"), TcbConfigure(tcb, cnode, vspace),
           NEW t, t = slots[tcb].cap.obj, {<<t, 0>>, <<t, 1>>} \cap Filled = {}
    PROVE  /\ slots' = [x \in DOMAIN slots' |-> slots'[x]]
           /\ DOMAIN slots' = Filled \cup {<<t, 0>>, <<t, 1>>}
           /\ \A x \in Filled : /\ slots'[x] \in LinkTypes
                                /\ slots'[x].cap = slots[x].cap
                                /\ slots'[x].prev = slots[x].prev
           /\ slots'[<<t, 0>>] \in LinkTypes /\ slots'[<<t, 1>>] \in LinkTypes
           /\ slots'[<<t, 0>>].cap = slots[cnode].cap /\ slots'[<<t, 0>>].prev = cnode
           /\ slots'[<<t, 1>>].cap = slots[vspace].cap /\ slots'[<<t, 1>>].prev = vspace
           /\ UNCHANGED <<objects, panic>>
<1>. DEFINE a == <<t, 0>>
            b == <<t, 1>>
            first == insert(a, cnode, slots[cnode].cap)
            linked == [first EXCEPT ![vspace].next = Stack]
<1>1. \A x \in Filled : slots[x] \in LinkTypes /\ x \in Nat \X Nat
  BY DEF IInv, EntryOK, NodeSlot, TcbSlot, LinkTypes
<1>2. tcb \in Filled /\ cnode \in Filled /\ vspace \in Filled
  BY DEF Holds
<1>3. t \in Nat
  BY <1>2 DEF IInv, EntryOK, ObjectsOK
<1>4. a \in Nat \X Nat /\ a \notin Filled /\ b \in Nat \X Nat /\ b \notin Filled /\ a # b
  BY <1>3
<1>5. /\ first = [x \in Filled \cup {a} |-> first[x]]
      /\ DOMAIN first = Filled \cup {a}
      /\ first[a] = Entry(slots[cnode].cap, cnode, slots[cnode].next)
      /\ \A x \in Filled : /\ first[x].cap = slots[x].cap
                           /\ first[x].prev = slots[x].prev
                           /\ first[x] \in LinkTypes
  <2>. HIDE DEF a
  <2>. QED  BY <1>2, <1>4, InsertFills
<1>6. /\ slots' = Put(linked, b, Entry(slots[vspace].cap, vspace, slots[vspace].next))
      /\ UNCHANGED <<objects, panic>>
  BY DEF TcbConfigure
<1>7. first[a] \in LinkTypes /\ first[a].cap = slots[cnode].cap /\ first[a].prev = cnode
  <2>1. slots[cnode] \in LinkTypes /\ cnode \in Links
    BY <1>1, <1>2 DEF Links
  <2>. HIDE DEF first, a, b
  <2>. QED  BY <1>5, <2>1 DEF Entry, LinkTypes
<1>. HIDE DEF first, a, b
<1>8. DOMAIN linked = Filled \cup {a}
  BY <1>5
<1>9. \A x \in Filled \cup {a} :
        linked[x] = IF x = vspace THEN [first[x] EXCEPT !.next = Stack] ELSE first[x]
  BY Zenon, <1>5
<1>10. \A x \in Filled \cup {a} : first[x] \in LinkTypes
  BY <1>5, <1>7
<1>11. \A x \in Filled \cup {a} : /\ linked[x] \in LinkTypes
                                  /\ linked[x].cap = first[x].cap
                                  /\ linked[x].prev = first[x].prev
  BY <1>9, <1>10 DEF LinkTypes, Links
<1>. HIDE DEF linked
<1>12. slots' = [x \in Filled \cup {a, b} |->
                    IF x = b THEN Entry(slots[vspace].cap, vspace, slots[vspace].next) ELSE linked[x]]
  BY <1>6, <1>8 DEF Put
<1>13. /\ slots'[b] \in LinkTypes
       /\ slots'[b].cap = slots[vspace].cap /\ slots'[b].prev = vspace
  BY <1>1, <1>2, <1>12 DEF Entry, LinkTypes, Links
<1>14. \A x \in Filled \cup {a} : slots'[x] = linked[x]
  BY <1>4, <1>12
<1>15. /\ \A x \in Filled : slots'[x] \in LinkTypes /\ slots'[x].cap = slots[x].cap
                            /\ slots'[x].prev = slots[x].prev
       /\ slots'[a] \in LinkTypes /\ slots'[a].cap = slots[cnode].cap /\ slots'[a].prev = cnode
  <2>1. ASSUME NEW x \in Filled
        PROVE  slots'[x] \in LinkTypes /\ slots'[x].cap = slots[x].cap /\ slots'[x].prev = slots[x].prev
    <3>1. x \in Filled \cup {a}
      OBVIOUS
    <3>2. slots'[x] = linked[x] /\ linked[x] \in LinkTypes
          /\ linked[x].cap = first[x].cap /\ linked[x].prev = first[x].prev
      BY Zenon, <3>1, <1>11, <1>14
    <3>3. first[x].cap = slots[x].cap /\ first[x].prev = slots[x].prev
      BY Zenon, <1>5
    <3>. QED  BY Zenon, <3>2, <3>3
  <2>2. /\ slots'[a] \in LinkTypes /\ slots'[a].cap = slots[cnode].cap
        /\ slots'[a].prev = cnode
    <3>1. a \in Filled \cup {a}
      OBVIOUS
    <3>. QED  BY Zenon, <3>1, <1>7, <1>11, <1>14
  <2>. QED  BY Zenon, <2>1, <2>2
<1>16. slots' = [x \in DOMAIN slots' |-> slots'[x]] /\ DOMAIN slots' = Filled \cup {a, b}
  BY <1>12
<1>. QED  BY Zenon, <1>6, <1>13, <1>15, <1>16 DEF a, b

\* TCB configure keeps the invariant, with its assertions on the slots of the thread.
LEMMA ConfigureKeepsIInv ==
    ASSUME IInv, NEW tcb, Holds(tcb, "Tcb"), NEW cnode, Holds(cnode, "CNode"),
           NEW vspace, Holds(vspace, "PageTable"), TcbConfigure(tcb, cnode, vspace)
    PROVE  IInv'
<1>. DEFINE t == slots[tcb].cap.obj
<1>1. CASE {<<t, 0>>, <<t, 1>>} \cap Filled # {}
  BY <1>1, PanicKeepsIInv DEF TcbConfigure
<1>2. CASE {<<t, 0>>, <<t, 1>>} \cap Filled = {}
  <2>1. /\ CapOK(slots[tcb].cap, objects) /\ CapOK(slots[cnode].cap, objects)
        /\ CapOK(slots[vspace].cap, objects) /\ ObjectsOK(objects) /\ panic \in BOOLEAN
    BY DEF IInv, EntryOK, Holds
  <2>2. t \in Nat /\ t \in DOMAIN objects /\ objects[t].type = "Tcb"
    BY <2>1 DEF CapOK, ObjectsOK, Holds
  <2>3. /\ TcbSlot(<<t, 0>>, slots[cnode].cap.type, objects)
        /\ TcbSlot(<<t, 1>>, slots[vspace].cap.type, objects)
    BY <2>2 DEF TcbSlot, Holds
  <2>. HIDE DEF t
  <2>4. /\ slots' = [x \in DOMAIN slots' |-> slots'[x]]
        /\ DOMAIN slots' = Filled \cup {<<t, 0>>, <<t, 1>>}
        /\ \A x \in Filled : slots'[x] \in LinkTypes /\ slots'[x].cap = slots[x].cap
        /\ slots'[<<t, 0>>] \in LinkTypes /\ slots'[<<t, 1>>] \in LinkTypes
        /\ slots'[<<t, 0>>].cap = slots[cnode].cap
        /\ slots'[<<t, 1>>].cap = slots[vspace].cap
        /\ UNCHANGED <<objects, panic>>
    BY <1>2, ConfigureFills DEF t
  <2>5. \A x \in DOMAIN slots' \ Filled :
            EntryOK(x, slots'[x], objects') /\ slots'[x].cap.type \notin {"Untyped", "Tcb"}
    BY <2>1, <2>3, <2>4 DEF EntryOK, LinkTypes, Holds
  <2>6. objects' = objects /\ panic' \in BOOLEAN /\ ObjectsOK(objects')
    BY <2>1, <2>4
  <2>. QED  BY <2>4, <2>5, <2>6, GrowthKeepsIInv
<1>. QED  BY <1>1, <1>2

\* Mapping or unmapping a page changes the value of one page capability.
LEMMA PageKeepsIInv ==
    ASSUME IInv, NEW page, Holds(page, "Page"), PageMapOrUnMap(page)
    PROVE  IInv'
<1>1. \A x \in Filled : EntryOK(x, slots[x], objects)
  BY DEF IInv
<1>2. /\ slots' = [x \in Filled |-> slots'[x]] /\ DOMAIN slots' = Filled
      /\ \A x \in Filled : slots'[x] = IF x = page THEN [slots[x] EXCEPT !.cap.val = 1 - slots[x].cap.val]
                                       ELSE slots[x]
      /\ objects' = objects /\ panic' = panic
  BY Zenon DEF IInv, PageMapOrUnMap, Holds, Filled
<1>3. /\ slots'[page] = [slots[page] EXCEPT !.cap.val = 1 - slots[page].cap.val]
      /\ slots[page].cap.val \in {0, 1} /\ page \in Filled
  BY <1>1, <1>2 DEF Holds, EntryOK, CapOK
<1>4. /\ slots'[page].cap = [slots[page].cap EXCEPT !.val = 1 - slots[page].cap.val]
      /\ slots'[page] \in LinkTypes
  BY <1>1, <1>3 DEF EntryOK, LinkTypes
<1>5. EntryOK(page, slots'[page], objects')
  BY <1>1, <1>2, <1>3, <1>4 DEF EntryOK, CapOK, LinkTypes, Holds
<1>6. \A x \in Filled : /\ EntryOK(x, slots'[x], objects')
                        /\ slots'[x].cap.obj = slots[x].cap.obj
                        /\ slots'[x].cap.type = slots[x].cap.type
  <2>. SUFFICES ASSUME NEW x \in Filled
                PROVE  /\ EntryOK(x, slots'[x], objects')
                       /\ slots'[x].cap.obj = slots[x].cap.obj
                       /\ slots'[x].cap.type = slots[x].cap.type
    OBVIOUS
  <2>1. CASE x = page
    <3>1. slots[page].cap \in [type : Types, obj : DOMAIN objects, val : Nat]
      BY <1>1, <1>3 DEF EntryOK
    <3>. QED  BY <2>1, <3>1, <1>4, <1>5
  <2>2. CASE x # page
    BY <2>2, <1>1, <1>2
  <2>. QED  BY <2>1, <2>2
<1>7. OneCapPerUntypedAndTcb'
  BY <1>2, <1>6 DEF IInv, OneCapPerUntypedAndTcb, Filled
<1>8. panic' \in BOOLEAN /\ ObjectsOK(objects')
  BY <1>2 DEF IInv
<1>. QED  BY <1>2, <1>6, <1>7, <1>8 DEF IInv, Filled

\* Retype fills the slots from index on with capabilities to new objects.
LEMMA RetypeFills ==
    ASSUME IInv, NEW ut, Holds(ut, "Untyped"), NEW node, Holds(node, "CNode"),
           NEW index \in Nat, NEW num \in Nat \ {0}, NEW type \in Types,
           NEW user_size \in Nat \ {0},
           UntypedRetype(ut, node, index, num, type, user_size)
    PROVE  LET obj == slots[node].cap.obj
               val == create_cap_dep_val(type, user_size)
               new == {<<obj, index + i>> : i \in 0..(num - 1)}
           IN
           /\ Fresh \in Nat /\ DOMAIN objects = 0..(Fresh - 1)
           /\ objects' = [o \in 0..(Fresh + num - 1) |->
                            IF o < Fresh THEN objects[o] ELSE [type |-> type, radix |-> val]]
           /\ slots' = [x \in DOMAIN slots' |-> slots'[x]]
           /\ DOMAIN slots' = Filled \cup new /\ Filled \cap new = {}
           /\ \A x \in Filled : /\ slots'[x] \in LinkTypes
                                /\ slots'[x].cap = slots[x].cap
                                /\ slots'[x].prev = slots[x].prev
           /\ \A i \in 0..(num - 1) :
                \E next \in Links :
                    slots'[<<obj, index + i>>] = Entry(Cap(type, Fresh + i, val), ut, next)
           /\ index + num < 2^slots[node].cap.val
           /\ UNCHANGED panic
<1>. DEFINE obj == slots[node].cap.obj
            val == create_cap_dep_val(type, user_size)
            new == {<<obj, index + i>> : i \in 0..(num - 1)}
<1>1. \A x \in Filled : slots[x] \in LinkTypes /\ x \in Nat \X Nat
  BY DEF IInv, EntryOK, NodeSlot, TcbSlot, LinkTypes
<1>2. Fresh \in Nat /\ DOMAIN objects = 0..(Fresh - 1)
  <2>1. PICK n \in Nat : DOMAIN objects = 0..(n - 1)
    BY DEF IInv, ObjectsOK
  <2>2. Cardinality(0..(n - 1)) = n
    BY CardinalityBelow
  <2>. QED  BY <2>1, <2>2 DEF Fresh
<1>. DEFINE entry(i) == Entry(Cap(type, Fresh + i, val), ut, IF i = 0 THEN slots[ut].next ELSE Stack)
<1>3. /\ objects' = [o \in 0..(Fresh + num - 1) |->
                        IF o < Fresh THEN objects[o] ELSE [type |-> type, radix |-> val]]
      /\ slots' = [s \in Filled \cup new |->
                     IF s \in new THEN entry(s[2] - index)
                     ELSE IF s = ut THEN [slots[s] EXCEPT !.next = Stack]
                     ELSE slots[s]]
      /\ UNCHANGED panic
  <2>1. num # 0
    OBVIOUS
  <2>. QED  BY <2>1, Zenon DEF UntypedRetype
<1>4. \A i \in 0..(num - 1) : <<obj, index + i>> \notin Filled
  BY DEF UntypedRetype, get_writable
<1>5. Filled \cap new = {}
  BY <1>4
<1>6. \A x \in Filled : slots'[x] = IF x = ut THEN [slots[x] EXCEPT !.next = Stack] ELSE slots[x]
  BY <1>3, <1>5
<1>7. \A x \in Filled : /\ slots'[x] \in LinkTypes
                        /\ slots'[x].cap = slots[x].cap
                        /\ slots'[x].prev = slots[x].prev
  <2>. SUFFICES ASSUME NEW x \in Filled
                PROVE  /\ slots'[x] \in LinkTypes
                       /\ slots'[x].cap = slots[x].cap
                       /\ slots'[x].prev = slots[x].prev
    OBVIOUS
  <2>1. CASE x = ut
    <3>1. slots'[x] = [slots[x] EXCEPT !.next = Stack] /\ slots[x] \in LinkTypes
      BY <1>1, <1>6, <2>1
    <3>. QED  BY <3>1 DEF LinkTypes, Links
  <2>2. CASE x # ut
    BY Zenon, <1>1, <1>6, <2>2
  <2>. QED  BY <2>1, <2>2
<1>8. ASSUME NEW i \in 0..(num - 1)
      PROVE  \E next \in Links :
                slots'[<<obj, index + i>>] = Entry(Cap(type, Fresh + i, val), ut, next)
  <2>1. <<obj, index + i>> \in new /\ <<obj, index + i>>[2] - index = i
    OBVIOUS
  <2>2. slots'[<<obj, index + i>>] = entry(i)
    BY Zenon, <1>3, <2>1
  <2>3. slots[ut].next \in Links /\ Stack \in Links
    BY <1>1 DEF LinkTypes, Links, Holds
  <2>. QED  BY <2>2, <2>3
<1>9. index + num < 2^slots[node].cap.val
  <2>1. 2^slots[node].cap.val > num + index
    BY DEF UntypedRetype, get_writable
  <2>2. slots[node].cap.val \in Nat
    BY <1>1 DEF LinkTypes, Holds
  <2>3. 2^slots[node].cap.val \in Nat
    BY <2>2, PowerOfTwo
  <2>. QED  BY <2>1, <2>3
<1>10. slots' = [x \in DOMAIN slots' |-> slots'[x]] /\ DOMAIN slots' = Filled \cup new
  BY <1>3
<1>. QED  BY Zenon, <1>2, <1>3, <1>5, <1>7, <1>8, <1>9, <1>10

\* Retype of one object, as libzoea calls it: one slot is filled, with a
\* capability to a new object.
LEMMA RetypeOneFills ==
    ASSUME IInv, NEW ut, Holds(ut, "Untyped"), NEW node, Holds(node, "CNode"),
           NEW index \in Nat, NEW type \in Types, NEW user_size \in Nat \ {0},
           UntypedRetype(ut, node, index, 1, type, user_size)
    PROVE  LET new == <<slots[node].cap.obj, index>>
           IN  /\ Fresh \notin DOMAIN objects
               /\ DOMAIN slots' = Filled \cup {new} /\ new \notin Filled
               /\ slots'[new].cap = Cap(type, Fresh, create_cap_dep_val(type, user_size))
               /\ slots'[new].prev = ut
               /\ \A x \in Filled : /\ slots'[x].cap = slots[x].cap
                                    /\ slots'[x].prev = slots[x].prev
<1>. DEFINE num == 1
            obj == slots[node].cap.obj
            val == create_cap_dep_val(type, user_size)
            new == {<<obj, index + i>> : i \in 0..(num - 1)}
<1>1. num \in Nat \ {0} /\ UntypedRetype(ut, node, index, num, type, user_size)
  OBVIOUS
<1>. HIDE DEF num, obj, val
<1>2. /\ Fresh \in Nat /\ DOMAIN objects = 0..(Fresh - 1)
      /\ objects' = [o \in 0..(Fresh + num - 1) |->
                       IF o < Fresh THEN objects[o] ELSE [type |-> type, radix |-> val]]
      /\ slots' = [x \in DOMAIN slots' |-> slots'[x]]
      /\ DOMAIN slots' = Filled \cup new /\ Filled \cap new = {}
      /\ \A x \in Filled : /\ slots'[x] \in LinkTypes
                           /\ slots'[x].cap = slots[x].cap
                           /\ slots'[x].prev = slots[x].prev
      /\ \A i \in 0..(num - 1) :
           \E next \in Links :
               slots'[<<obj, index + i>>] = Entry(Cap(type, Fresh + i, val), ut, next)
      /\ index + num < 2^slots[node].cap.val
      /\ UNCHANGED panic
  BY <1>1, RetypeFills, Zenon DEF obj, val
<1>3. 0..(num - 1) = {0} /\ index + 0 = index /\ Fresh + 0 = Fresh
  BY <1>2 DEF num
<1>4. {<<obj, index + i>> : i \in 0..(num - 1)} = {<<obj, index>>}
  BY <1>3
<1>5. \E next \in Links : slots'[<<obj, index>>] = Entry(Cap(type, Fresh, val), ut, next)
  BY <1>2, <1>3
<1>6. slots'[<<obj, index>>].cap = Cap(type, Fresh, val) /\ slots'[<<obj, index>>].prev = ut
  BY <1>5 DEF Entry
<1>7. Fresh \notin DOMAIN objects
  BY <1>2
<1>. QED  BY <1>2, <1>4, <1>6, <1>7 DEF obj, val

\* Retype makes objects, and one capability for each in slots that were empty.
LEMMA RetypeKeepsIInv ==
    ASSUME IInv, NEW ut, Holds(ut, "Untyped"), NEW node, Holds(node, "CNode"),
           NEW index \in Nat, NEW num \in Nat, NEW type \in Types, NEW user_size \in Nat \ {0},
           UntypedRetype(ut, node, index, num, type, user_size)
    PROVE  IInv'
<1>1. CASE num = 0
  BY <1>1, PanicKeepsIInv DEF UntypedRetype
<1>2. CASE num # 0
  <2>. DEFINE obj == slots[node].cap.obj
              val == create_cap_dep_val(type, user_size)
              new == {<<obj, index + i>> : i \in 0..(num - 1)}
  <2>1. CapOK(slots[node].cap, objects) /\ ObjectsOK(objects) /\ panic \in BOOLEAN
    BY DEF IInv, EntryOK, Holds
  <2>2. /\ obj \in Nat /\ obj \in DOMAIN objects /\ objects[obj].type = "CNode"
        /\ objects[obj].radix = slots[node].cap.val
    BY <2>1 DEF CapOK, ObjectsOK, Holds
  <2>3. val \in Nat /\ (type = "CNode" => val # 0) /\ (type = "Page" => val = 0)
    BY DEF create_cap_dep_val
  <2>. HIDE DEF obj, val
  <2>4. /\ Fresh \in Nat /\ DOMAIN objects = 0..(Fresh - 1)
        /\ objects' = [o \in 0..(Fresh + num - 1) |->
                         IF o < Fresh THEN objects[o] ELSE [type |-> type, radix |-> val]]
        /\ slots' = [x \in DOMAIN slots' |-> slots'[x]]
        /\ DOMAIN slots' = Filled \cup new /\ Filled \cap new = {}
        /\ \A x \in Filled : /\ slots'[x] \in LinkTypes
                             /\ slots'[x].cap = slots[x].cap
                             /\ slots'[x].prev = slots[x].prev
        /\ \A i \in 0..(num - 1) :
             \E next \in Links :
                 slots'[<<obj, index + i>>] = Entry(Cap(type, Fresh + i, val), ut, next)
        /\ index + num < 2^slots[node].cap.val
        /\ UNCHANGED panic
    <3>1. num \in Nat \ {0}
      BY <1>2
    <3>. QED  BY <3>1, RetypeFills, Zenon DEF obj, val
  <2>5. \A o \in DOMAIN objects : o \in DOMAIN objects' /\ objects'[o] = objects[o]
    BY <2>4
  <2>6. ObjectsOK(objects')
    <3>. DEFINE n == Fresh + num
    <3>1. n \in Nat
      BY <2>4
    <3>2. objects \in [0..(Fresh - 1) -> [type : Types, radix : Nat]]
      BY <2>1, <2>4 DEF ObjectsOK
    <3>3. objects' \in [0..(n - 1) -> [type : Types, radix : Nat]]
      BY <2>3, <2>4, <3>2
    <3>4. DOMAIN objects' = 0..(n - 1)
      BY <2>4
    <3>. HIDE DEF n
    <3>. QED  BY <3>1, <3>3, <3>4 DEF ObjectsOK
  <2>7. ASSUME NEW i \in 0..(num - 1)
        PROVE  /\ EntryOK(<<obj, index + i>>, slots'[<<obj, index + i>>], objects')
               /\ slots'[<<obj, index + i>>].cap.obj = Fresh + i
    <3>. DEFINE s == <<obj, index + i>>
    <3>1. PICK next \in Links : slots'[s] = Entry(Cap(type, Fresh + i, val), ut, next)
      BY <2>4
    <3>2. ut \in Links
      BY DEF IInv, EntryOK, NodeSlot, TcbSlot, Holds, Links
    <3>3. Fresh + i \in DOMAIN objects' /\ objects'[Fresh + i] = [type |-> type, radix |-> val]
      BY <2>4
    <3>4. CapOK(Cap(type, Fresh + i, val), objects')
      BY <2>3, <3>3 DEF CapOK, Cap
    <3>5. NodeSlot(s, objects')
      <4>1. index + i \in 0..(2^slots[node].cap.val - 1)
        <5>1. slots[node].cap.val \in Nat
          BY <2>1 DEF CapOK
        <5>2. 2^slots[node].cap.val \in Nat
          BY <5>1, PowerOfTwo
        <5>3. index + num < 2^slots[node].cap.val
          BY <2>4
        <5>. QED  BY <5>2, <5>3
      <4>. QED  BY <2>2, <2>5, <4>1 DEF NodeSlot
    <3>6. slots'[s].cap = Cap(type, Fresh + i, val)
      BY <3>1 DEF Entry
    <3>7. slots'[s] \in [cap : [type : Types, obj : DOMAIN objects', val : Nat], prev : Links, next : Links]
      BY <2>3, <3>1, <3>2, <3>3 DEF Entry, Cap
    <3>. QED  BY <3>4, <3>5, <3>6, <3>7 DEF EntryOK, Cap
  <2>8. ASSUME NEW x \in DOMAIN slots' \ Filled
        PROVE  /\ EntryOK(x, slots'[x], objects')
               /\ slots'[x].cap.obj \notin DOMAIN objects
               /\ \A y \in DOMAIN slots' \ Filled :
                     slots'[y].cap.obj = slots'[x].cap.obj => x = y
    <3>1. PICK i \in 0..(num - 1) : x = <<obj, index + i>>
      BY <2>4
    <3>2. slots'[x].cap.obj = Fresh + i /\ EntryOK(x, slots'[x], objects')
      BY <2>7, <3>1
    <3>3. ASSUME NEW y \in DOMAIN slots' \ Filled, slots'[y].cap.obj = slots'[x].cap.obj
          PROVE  x = y
      <4>1. PICK j \in 0..(num - 1) : y = <<obj, index + j>>
        BY <2>4
      <4>2. slots'[y].cap.obj = Fresh + j
        BY <2>7, <4>1
      <4>3. Fresh \in Nat
        BY <2>4
      <4>4. i = j
        BY <3>2, <3>3, <4>2, <4>3
      <4>. QED  BY <3>1, <4>1, <4>4
    <3>. QED  BY <2>4, <3>2, <3>3
  <2>9. panic' \in BOOLEAN
    BY <2>1, <2>4
  <2>. HIDE DEF new
  <2>. QED  BY <2>4, <2>5, <2>6, <2>8, <2>9, GrowthKeepsIInv
<1>. QED  BY <1>1, <1>2

\* A move empties one slot and fills another with what it derives from the first.
LEMMA MoveFills ==
    ASSUME IInv, NEW src \in Filled, NEW dest \in Nat \X Nat, CNodeMove(src, dest)
    PROVE  /\ slots' = [x \in DOMAIN slots' |-> slots'[x]]
           /\ DOMAIN slots' = (Filled \ {src}) \cup {dest}
           /\ \A x \in Filled \ {src} : slots'[x] \in LinkTypes /\ slots'[x].cap = slots[x].cap
           /\ \E prev, next \in Links :
                slots'[dest] = Entry(derive(slots[src].cap), prev, next)
<1>. DEFINE old == slots[src]
            rest == [x \in Filled \ {src} |-> slots[x]]
            linked == IF old.prev \in DOMAIN rest THEN [rest EXCEPT ![old.prev].next = Stack] ELSE rest
            prevs == IF old.prev = Null /\ old.next = Stack THEN {Null, Stack} ELSE {old.prev}
<1>1. \A x \in Filled : slots[x] \in LinkTypes
  BY DEF IInv, EntryOK, LinkTypes
<1>2. old.prev \in Links /\ old.next \in Links /\ prevs \subseteq Links
  BY <1>1 DEF LinkTypes, Links
<1>3. PICK p \in prevs :
         slots' = Put(linked, dest, Entry(derive(slots[src].cap), p, old.next))
  BY Zenon DEF CNodeMove, replace
<1>4. DOMAIN linked = Filled \ {src}
  OBVIOUS
<1>5. ASSUME NEW x \in Filled \ {src}
      PROVE  linked[x] \in LinkTypes /\ linked[x].cap = slots[x].cap
  <2>1. slots[x] \in LinkTypes
    BY <1>1
  <2>2. linked[x] = slots[x] \/ linked[x] = [slots[x] EXCEPT !.next = Stack]
    OBVIOUS
  <2>. HIDE DEF linked
  <2>. QED  BY <2>1, <2>2 DEF LinkTypes, Links
<1>. HIDE DEF linked, prevs
<1>6. slots' = [x \in (Filled \ {src}) \cup {dest} |->
                  IF x = dest THEN Entry(derive(slots[src].cap), p, old.next) ELSE linked[x]]
  BY <1>3, <1>4 DEF Put
<1>7. dest \notin Filled
  BY DEF CNodeMove
<1>8. slots'[dest] = Entry(derive(slots[src].cap), p, old.next) /\ p \in Links
  BY <1>2, <1>6
<1>9. \A x \in Filled \ {src} : slots'[x] = linked[x]
  BY <1>6, <1>7
<1>. QED  BY Zenon, <1>2, <1>5, <1>6, <1>8, <1>9

\* Move (CapEntry::replace): the capability leaves its slot for an empty one.
LEMMA MoveKeepsIInv ==
    ASSUME IInv, NEW src \in Filled, NEW dest, NodeSlot(dest, objects), CNodeMove(src, dest)
    PROVE  IInv'
<1>. DEFINE cap == derive(slots[src].cap)
<1>1. dest \in Nat \X Nat /\ dest \notin Filled /\ objects' = objects /\ panic' = panic
  BY DEF NodeSlot, CNodeMove
<1>2. /\ slots' = [x \in DOMAIN slots' |-> slots'[x]]
      /\ DOMAIN slots' = (Filled \ {src}) \cup {dest}
      /\ \A x \in Filled \ {src} : slots'[x] \in LinkTypes /\ slots'[x].cap = slots[x].cap
      /\ \E prev, next \in Links : slots'[dest] = Entry(cap, prev, next)
  BY <1>1, MoveFills
<1>3. CapOK(cap, objects) /\ cap.type \notin {"Untyped", "Tcb"}
  <2>1. CapOK(slots[src].cap, objects)
    BY DEF IInv, EntryOK
  <2>. QED  BY <2>1, DeriveKeeps DEF CNodeMove
<1>. HIDE DEF cap
<1>4. EntryOK(dest, slots'[dest], objects') /\ slots'[dest].cap = cap
  BY <1>1, <1>2, <1>3 DEF EntryOK, Entry, CapOK
<1>5. ASSUME NEW x \in Filled \ {src} PROVE EntryOK(x, slots'[x], objects')
  <2>1. EntryOK(x, slots[x], objects)
    BY DEF IInv
  <2>2. slots'[x] \in [cap : {slots[x].cap}, prev : Links, next : Links]
    BY <1>2 DEF LinkTypes
  <2>. QED  BY <1>1, <2>1, <2>2, EntryStays
<1>6. \A x \in DOMAIN slots' : EntryOK(x, slots'[x], objects')
  BY <1>2, <1>4, <1>5
<1>7. OneCapPerUntypedAndTcb'
  <2>. SUFFICES ASSUME NEW x \in DOMAIN slots', NEW y \in DOMAIN slots',
                       slots'[x].cap.obj = slots'[y].cap.obj,
                       slots'[x].cap.type \in {"Untyped", "Tcb"}
                PROVE  x = y
    BY DEF OneCapPerUntypedAndTcb, Filled
  <2>1. slots'[y].cap.type = slots'[x].cap.type
    BY <1>6 DEF EntryOK, CapOK
  <2>2. x # dest /\ y # dest
    BY <1>3, <1>4, <2>1
  <2>. QED  BY <1>2, <2>2 DEF IInv, OneCapPerUntypedAndTcb
<1>8. panic' \in BOOLEAN /\ ObjectsOK(objects')
  BY <1>1 DEF IInv
<1>. QED  BY <1>2, <1>6, <1>7, <1>8 DEF IInv, Filled

-----------------------------------------------------------------------------
(***************************************************************************)
(* The invariant is inductive.                                             *)
(***************************************************************************)

\* An invocation whose paths are resolved: what handle_invocation knows of the
\* entries it works on.
ResolvedRetype ==
    \E ut, node : \E index \in Nat, num \in Nat, type \in Types, user_size \in Nat \ {0} :
        /\ Holds(ut, "Untyped") /\ Holds(node, "CNode")
        /\ UntypedRetype(ut, node, index, num, type, user_size)

ResolvedCopy ==
    \E src \in Filled : \E dest :
        /\ NodeSlot(dest, objects)
        /\ \/ CNodeCopy(src, dest)
           \/ /\ slots[src].cap.type \in {"EndPoint", "Notification"}
              /\ \E val \in Nat : CNodeMint(src, dest, val)

ResolvedMove == \E src \in Filled : \E dest : NodeSlot(dest, objects) /\ CNodeMove(src, dest)

ResolvedTcb ==
    \/ \E tcb, cnode, vspace :
        /\ Holds(tcb, "Tcb") /\ Holds(cnode, "CNode") /\ Holds(vspace, "PageTable")
        /\ TcbConfigure(tcb, cnode, vspace)
    \/ \E tcb, page : Holds(tcb, "Tcb") /\ Holds(page, "Page") /\ TcbSetIpcBuffer(tcb, page)

ResolvedPage == \E page : Holds(page, "Page") /\ PageMapOrUnMap(page)

Resolved == ResolvedRetype \/ ResolvedCopy \/ ResolvedMove \/ ResolvedTcb \/ ResolvedPage

\* The root of a thread is a capability to a CNode.
LEMMA RootsAreCNodes ==
    ASSUME IInv, NEW root \in Roots
    PROVE  CapOK(root, objects) /\ root.type = "CNode"
<1>1. PICK t \in DOMAIN objects : /\ objects[t].type = "Tcb" /\ <<t, 0>> \in Filled
                                  /\ root = slots[<<t, 0>>].cap
  BY Zenon DEF Roots, Tcbs
<1>2. EntryOK(<<t, 0>>, slots[<<t, 0>>], objects)
  BY <1>1 DEF IInv
<1>. QED  BY <1>1, <1>2 DEF EntryOK, NodeSlot, TcbSlot

\* The arguments of an invocation are resolved before it does anything
\* (handle_invocation, as_capability).
LEMMA NextIsResolved ==
    ASSUME IInv, Next
    PROVE  Resolved
<1>1. PICK root \in Roots : Invoke(root)
  BY DEF Next
<1>2. CapOK(root, objects) /\ root.type = "CNode"
  BY RootsAreCNodes
<1>3. \A type : \A s \in Named(root, type) : Holds(s, type)
  BY DEF Named
<1>4. CASE \E ut \in Named(root, "Untyped"), node \in Named(root, "CNode"), num \in Nums,
              index \in 0..(2^RootRadix - 1), type \in NewTypes, user_size \in Radices :
            UntypedRetype(ut, node, index, num, type, user_size)
  <2>1. 2^RootRadix \in Nat
    BY CSpaceAssumption, PowerOfTwo
  <2>2. 0..(2^RootRadix - 1) \subseteq Nat
    BY <2>1
  <2>3. Nums \subseteq Nat /\ NewTypes \subseteq Types /\ Radices \subseteq Nat \ {0}
    BY CSpaceAssumption
  <2>4. PICK ut \in Named(root, "Untyped"), node \in Named(root, "CNode"), num \in Nums,
             index \in 0..(2^RootRadix - 1), type \in NewTypes, user_size \in Radices :
            UntypedRetype(ut, node, index, num, type, user_size)
    BY <1>4, Zenon
  <2>5. num \in Nat /\ index \in Nat /\ type \in Types /\ user_size \in Nat \ {0}
    BY <2>2, <2>3, Zenon
  <2>6. Holds(ut, "Untyped") /\ Holds(node, "CNode")
    BY <1>3, Zenon
  <2>7. ResolvedRetype
    BY <2>4, <2>5, <2>6 DEF ResolvedRetype
  <2>. QED  BY <2>7 DEF Resolved
<1>5. ASSUME NEW node \in Named(root, "CNode"), NEW src \in Addressable(root) \cap Filled,
             NEW dest \in Addressable(slots[node].cap),
             \/ slots[src].cap.type \in CopyTypes /\ CNodeCopy(src, dest)
             \/ /\ slots[src].cap.type \in MintTypes
                /\ \E val \in Badges : CNodeMint(src, dest, val)
             \/ slots[src].cap.type \in MoveTypes /\ CNodeMove(src, dest)
      PROVE  Resolved
  <2>1. CapOK(slots[node].cap, objects) /\ slots[node].cap.type = "CNode"
    BY <1>3 DEF IInv, EntryOK, Holds
  <2>2. NodeSlot(dest, objects)
    BY <2>1, AddressableInNode
  <2>3. MintTypes \subseteq {"EndPoint", "Notification"} /\ Badges \subseteq Nat
    BY CSpaceAssumption
  <2>. QED  BY <1>5, <2>2, <2>3, Zenon DEF Resolved, ResolvedCopy, ResolvedMove
<1>6. CASE \E tcb \in Named(root, "Tcb"), cnode \in Named(root, "CNode"),
              vspace \in Named(root, "PageTable") : TcbConfigure(tcb, cnode, vspace)
  BY <1>3, <1>6, Zenon DEF Resolved, ResolvedTcb
<1>7. CASE \E tcb \in Named(root, "Tcb"), page \in Named(root, "Page") : TcbSetIpcBuffer(tcb, page)
  BY <1>3, <1>7, Zenon DEF Resolved, ResolvedTcb
<1>8. CASE \E page \in Named(root, "Page") : PageMapOrUnMap(page)
  BY <1>3, <1>8, Zenon DEF Resolved, ResolvedPage
<1>. QED  BY <1>1, <1>4, <1>5, <1>6, <1>7, <1>8, Zenon DEF Invoke

\* No invocation breaks the invariant.
LEMMA ResolvedKeepsIInv ==
    ASSUME IInv, Resolved
    PROVE  IInv'
<1>1. CASE ResolvedRetype
  BY <1>1, RetypeKeepsIInv DEF ResolvedRetype
<1>2. CASE ResolvedCopy
  BY <1>2, CopyKeepsIInv, MintKeepsIInv DEF ResolvedCopy
<1>3. CASE ResolvedMove
  BY <1>3, MoveKeepsIInv DEF ResolvedMove
<1>4. CASE ResolvedTcb
  BY <1>4, ConfigureKeepsIInv, SetIpcBufferKeepsIInv DEF ResolvedTcb
<1>5. CASE ResolvedPage
  BY <1>5, PageKeepsIInv DEF ResolvedPage
<1>. QED  BY <1>1, <1>2, <1>3, <1>4, <1>5 DEF Resolved

\* The slots and objects that the boot code leaves.
LEMMA InitSlots ==
    ASSUME Init
    PROVE  LET node == Cap("CNode", 0, RootRadix)
               vspace == Cap("PageTable", 1, 1)
               ipc == Cap("Page", 3, 1)
           IN
           /\ DOMAIN slots = {<<0, 1>>, <<0, 2>>, <<0, 3>>, <<0, 4>>, <<0, 5>>, <<0, 6>>,
                              <<2, 0>>, <<2, 1>>, <<2, 2>>}
           /\ slots = [s \in DOMAIN slots |-> slots[s]]
           /\ slots[<<0, 1>>] = Entry(Cap("Tcb", 2, 0), Null, Null)
           /\ slots[<<0, 2>>] = Entry(node, Null, Stack)
           /\ slots[<<0, 3>>] = Entry(vspace, Null, Stack)
           /\ slots[<<0, 4>>] = Entry(ipc, Null, Stack)
           /\ slots[<<0, 5>>] = Entry(Cap("Page", 4, 1), Null, Null)
           /\ slots[<<0, 6>>] = Entry(Cap("Untyped", 5, 0), Null, Null)
           /\ slots[<<2, 0>>] = Entry(node, <<0, 2>>, Null)
           /\ slots[<<2, 1>>] = Entry(vspace, <<0, 3>>, Null)
           /\ slots[<<2, 2>>] = Entry(ipc, <<0, 4>>, Null)
<1>. DEFINE at == ({0} \X (1..6)) \cup ({2} \X (0..2))
            node == Cap("CNode", 0, RootRadix)
            vspace == Cap("PageTable", 1, 1)
            ipc == Cap("Page", 3, 1)
<1>1. slots = [s \in at |-> slots[s]] /\ DOMAIN slots = at
  BY DEF Init
<1>2. slots = [s \in at |->
                     CASE s = <<0, 1>> -> Entry(Cap("Tcb", 2, 0), Null, Null)
                       [] s = <<0, 2>> -> Entry(node, Null, Stack)
                       [] s = <<0, 3>> -> Entry(vspace, Null, Stack)
                       [] s = <<0, 4>> -> Entry(ipc, Null, Stack)
                       [] s = <<0, 5>> -> Entry(Cap("Page", 4, 1), Null, Null)
                       [] s = <<0, 6>> -> Entry(Cap("Untyped", 5, 0), Null, Null)
                       [] s = <<2, 0>> -> Entry(node, <<0, 2>>, Null)
                       [] s = <<2, 1>> -> Entry(vspace, <<0, 3>>, Null)
                       [] s = <<2, 2>> -> Entry(ipc, <<0, 4>>, Null)]
  BY Zenon DEF Init
<1>. HIDE DEF node, vspace, ipc
<1>3. at = {<<0, 1>>, <<0, 2>>, <<0, 3>>, <<0, 4>>, <<0, 5>>, <<0, 6>>, <<2, 0>>, <<2, 1>>, <<2, 2>>}
  OBVIOUS
<1>. HIDE DEF at
<1>4. /\ slots[<<0, 1>>] = Entry(Cap("Tcb", 2, 0), Null, Null)
      /\ slots[<<0, 2>>] = Entry(node, Null, Stack)
      /\ slots[<<0, 3>>] = Entry(vspace, Null, Stack)
      /\ slots[<<0, 4>>] = Entry(ipc, Null, Stack)
      /\ slots[<<0, 5>>] = Entry(Cap("Page", 4, 1), Null, Null)
      /\ slots[<<0, 6>>] = Entry(Cap("Untyped", 5, 0), Null, Null)
      /\ slots[<<2, 0>>] = Entry(node, <<0, 2>>, Null)
      /\ slots[<<2, 1>>] = Entry(vspace, <<0, 3>>, Null)
      /\ slots[<<2, 2>>] = Entry(ipc, <<0, 4>>, Null)
  <2>1. /\ slots[<<0, 1>>] = Entry(Cap("Tcb", 2, 0), Null, Null)
        /\ slots[<<0, 2>>] = Entry(node, Null, Stack)
    BY <1>2, <1>3
  <2>2. /\ slots[<<0, 3>>] = Entry(vspace, Null, Stack)
        /\ slots[<<0, 4>>] = Entry(ipc, Null, Stack)
    BY <1>2, <1>3
  <2>3. /\ slots[<<0, 5>>] = Entry(Cap("Page", 4, 1), Null, Null)
        /\ slots[<<0, 6>>] = Entry(Cap("Untyped", 5, 0), Null, Null)
    BY <1>2, <1>3
  <2>4. slots[<<2, 0>>] = Entry(node, <<0, 2>>, Null)
    BY <1>2, <1>3
  <2>5. slots[<<2, 1>>] = Entry(vspace, <<0, 3>>, Null)
    BY <1>2, <1>3
  <2>6. slots[<<2, 2>>] = Entry(ipc, <<0, 4>>, Null)
    BY <1>2, <1>3
  <2>. QED  BY Zenon, <2>1, <2>2, <2>3, <2>4, <2>5, <2>6
<1>. QED  BY <1>1, <1>3, <1>4 DEF node, vspace, ipc

\* The CSpace that the boot code leaves satisfies the invariant.
LEMMA InitIInv == Init => IInv
<1>. SUFFICES ASSUME Init PROVE IInv
  OBVIOUS
<1>. DEFINE at == {<<0, 1>>, <<0, 2>>, <<0, 3>>, <<0, 4>>, <<0, 5>>, <<0, 6>>,
                   <<2, 0>>, <<2, 1>>, <<2, 2>>}
            node == Cap("CNode", 0, RootRadix)
            vspace == Cap("PageTable", 1, 1)
            ipc == Cap("Page", 3, 1)
<1>1. /\ DOMAIN objects = 0..5
      /\ objects = [o \in 0..5 |-> objects[o]]
      /\ objects[0] = [type |-> "CNode", radix |-> RootRadix]
      /\ objects[1] = [type |-> "PageTable", radix |-> 0]
      /\ objects[2] = [type |-> "Tcb", radix |-> 0]
      /\ objects[3] = [type |-> "Page", radix |-> 0]
      /\ objects[4] = [type |-> "Page", radix |-> 0]
      /\ objects[5] = [type |-> "Untyped", radix |-> 0]
  BY DEF Init
<1>2. ObjectsOK(objects)
  <2>1. \A o \in 0..5 : objects[o] \in [type : Types, radix : Nat]
    BY <1>1, CSpaceAssumption DEF Types
  <2>. DEFINE n == 6
  <2>2. DOMAIN objects = 0..(n - 1) /\ objects \in [0..(n - 1) -> [type : Types, radix : Nat]]
    BY <1>1, <2>1
  <2>. QED  BY <2>2 DEF ObjectsOK
<1>3. slots = [s \in at |-> slots[s]] /\ DOMAIN slots = at
  BY InitSlots
<1>. HIDE DEF node, vspace, ipc
<1>6. /\ slots[<<0, 1>>] = Entry(Cap("Tcb", 2, 0), Null, Null)
      /\ slots[<<0, 2>>] = Entry(node, Null, Stack)
      /\ slots[<<0, 3>>] = Entry(vspace, Null, Stack)
      /\ slots[<<0, 4>>] = Entry(ipc, Null, Stack)
      /\ slots[<<0, 5>>] = Entry(Cap("Page", 4, 1), Null, Null)
      /\ slots[<<0, 6>>] = Entry(Cap("Untyped", 5, 0), Null, Null)
      /\ slots[<<2, 0>>] = Entry(node, <<0, 2>>, Null)
      /\ slots[<<2, 1>>] = Entry(vspace, <<0, 3>>, Null)
      /\ slots[<<2, 2>>] = Entry(ipc, <<0, 4>>, Null)
  BY InitSlots DEF node, vspace, ipc
<1>7. /\ CapOK(Cap("Tcb", 2, 0), objects) /\ CapOK(node, objects)
      /\ CapOK(vspace, objects) /\ CapOK(ipc, objects)
      /\ CapOK(Cap("Page", 4, 1), objects) /\ CapOK(Cap("Untyped", 5, 0), objects)
  BY <1>1, CSpaceAssumption DEF CapOK, Cap, Types, node, vspace, ipc
<1>8. 2^RootRadix \in Nat /\ 2^RootRadix > 6
  BY CSpaceAssumption, PowerOfTwo
<1>9. \A i \in 1..6 : NodeSlot(<<0, i>>, objects)
  BY <1>1, <1>8 DEF NodeSlot
<1>10. /\ TcbSlot(<<2, 0>>, "CNode", objects) /\ TcbSlot(<<2, 1>>, "PageTable", objects)
       /\ TcbSlot(<<2, 2>>, "Page", objects)
  BY <1>1 DEF TcbSlot
<1>11. \A cap, prev, next : CapOK(cap, objects) /\ prev \in Links /\ next \in Links
          => /\ Entry(cap, prev, next) \in LinkTypes
             /\ Entry(cap, prev, next).cap = cap
  BY DEF CapOK, Entry, LinkTypes
<1>12. Null \in Links /\ Stack \in Links /\ \A i \in 1..6 : <<0, i>> \in Links
  BY DEF Links
<1>13. node.type = "CNode" /\ vspace.type = "PageTable" /\ ipc.type = "Page"
  BY DEF node, vspace, ipc, Cap
<1>14. ASSUME NEW s \in at PROVE EntryOK(s, slots[s], objects)
  <2>1. ASSUME NEW x, NEW cap, NEW prev \in Links, NEW next \in Links, CapOK(cap, objects),
               slots[x] = Entry(cap, prev, next), NodeSlot(x, objects) \/ TcbSlot(x, cap.type, objects)
        PROVE  EntryOK(x, slots[x], objects)
    <3>1. slots[x] \in LinkTypes /\ slots[x].cap = cap
      <4>1. Entry(cap, prev, next) \in LinkTypes /\ Entry(cap, prev, next).cap = cap
        BY Zenon, <2>1, <1>11
      <4>. QED  BY <2>1, <4>1
    <3>. QED  BY <2>1, <3>1 DEF EntryOK, LinkTypes
  <2>2. /\ NodeSlot(<<0, 1>>, objects) /\ NodeSlot(<<0, 2>>, objects) /\ NodeSlot(<<0, 3>>, objects)
        /\ NodeSlot(<<0, 4>>, objects) /\ NodeSlot(<<0, 5>>, objects) /\ NodeSlot(<<0, 6>>, objects)
    BY <1>9
  <2>3. <<0, 2>> \in Links /\ <<0, 3>> \in Links /\ <<0, 4>> \in Links
    BY <1>12
  <2>4. CASE s \in {<<0, 1>>, <<0, 5>>, <<0, 6>>}
    BY Zenon, <2>1, <2>2, <2>4, <1>6, <1>7, <1>12
  <2>5. CASE s \in {<<0, 2>>, <<0, 3>>, <<0, 4>>}
    BY Zenon, <2>1, <2>2, <2>5, <1>6, <1>7, <1>12
  <2>6. CASE s \in {<<2, 0>>, <<2, 1>>, <<2, 2>>}
    BY ZenonT(20), <2>1, <2>3, <2>6, <1>6, <1>7, <1>10, <1>12, <1>13
  <2>. QED  BY Zenon, <2>4, <2>5, <2>6
<1>15. /\ \A s \in at : slots[s].cap.type = "Tcb" => s = <<0, 1>>
       /\ \A s \in at : slots[s].cap.type = "Untyped" => s = <<0, 6>>
  <2>1. \A cap, prev, next : Entry(cap, prev, next).cap = cap
    BY DEF Entry
  <2>2. Cap("Page", 4, 1).type = "Page" /\ Cap("Tcb", 2, 0).type = "Tcb"
        /\ Cap("Untyped", 5, 0).type = "Untyped"
    BY DEF Cap
  <2>3. /\ slots[<<0, 1>>].cap.type = "Tcb" /\ slots[<<0, 6>>].cap.type = "Untyped"
        /\ slots[<<0, 5>>].cap.type = "Page"
    BY <1>6, <2>1, <2>2
  <2>4. /\ slots[<<0, 2>>].cap.type = "CNode" /\ slots[<<0, 3>>].cap.type = "PageTable"
        /\ slots[<<0, 4>>].cap.type = "Page"
    BY <1>6, <1>13, <2>1
  <2>5. /\ slots[<<2, 0>>].cap.type = "CNode" /\ slots[<<2, 1>>].cap.type = "PageTable"
        /\ slots[<<2, 2>>].cap.type = "Page"
    BY <1>6, <1>13, <2>1
  <2>. QED  BY <2>3, <2>4, <2>5
<1>. HIDE DEF at
<1>16. OneCapPerUntypedAndTcb
  <2>. SUFFICES ASSUME NEW s \in at, NEW t \in at, slots[s].cap.obj = slots[t].cap.obj,
                       slots[s].cap.type \in {"Untyped", "Tcb"}
                PROVE  s = t
    BY <1>3 DEF OneCapPerUntypedAndTcb, Filled
  <2>1. slots[s].cap.type = slots[t].cap.type
    BY <1>14 DEF EntryOK, CapOK
  <2>. QED  BY <1>15, <2>1
<1>. QED  BY Zenon, <1>2, <1>3, <1>14, <1>16 DEF IInv, Filled, Init

\* The invariant is inductive.
LEMMA Inductive == IInv /\ [Next]_vars => IInv'
<1>1. ASSUME IInv, Next PROVE IInv'
  BY <1>1, NextIsResolved, ResolvedKeepsIInv
<1>2. ASSUME IInv, UNCHANGED vars PROVE IInv'
  BY <1>2 DEF IInv, vars, Filled, OneCapPerUntypedAndTcb
<1>. QED  BY <1>1, <1>2

\* The invariant holds in every reachable state.
LEMMA InvariantHolds == Spec => []IInv
BY InitIInv, Inductive, PTL DEF Spec

\* What the invariant says about the properties of CSpace.
LEMMA IInvImplies == IInv => TypeOK /\ CapsMatchObjects /\ OneCapPerUntypedAndTcb
<1>. SUFFICES ASSUME IInv PROVE TypeOK /\ CapsMatchObjects
  BY DEF IInv
<1>1. TypeOK
  BY DEF IInv, TypeOK, EntryOK, CapOK, NodeSlot, TcbSlot, ObjectsOK
<1>2. CapsMatchObjects
  BY DEF IInv, CapsMatchObjects, EntryOK, CapOK
<1>. QED  BY <1>1, <1>2

\* No invocation overwrites a capability.
LEMMA ResolvedKeepsCaps ==
    ASSUME IInv, Resolved
    PROVE  CapsKept
<1>0. \A x \in Filled : slots[x] \in LinkTypes /\ x \in Nat \X Nat
  BY DEF IInv, EntryOK, NodeSlot, TcbSlot, LinkTypes
<1>1. ASSUME \A x \in Filled : x \in DOMAIN slots' /\ slots'[x].cap = slots[x].cap
      PROVE  CapsKept
  BY <1>1 DEF CapsKept
<1>2. ASSUME Panic PROVE CapsKept
  BY <1>1, <1>2 DEF Panic, Filled
<1>3. CASE ResolvedRetype
  <2>1. PICK ut, node : \E index \in Nat, num \in Nat, type \in Types, user_size \in Nat \ {0} :
               /\ Holds(ut, "Untyped") /\ Holds(node, "CNode")
               /\ UntypedRetype(ut, node, index, num, type, user_size)
    BY <1>3 DEF ResolvedRetype
  <2>2. PICK index \in Nat, num \in Nat, type \in Types, user_size \in Nat \ {0} :
               /\ Holds(ut, "Untyped") /\ Holds(node, "CNode")
               /\ UntypedRetype(ut, node, index, num, type, user_size)
    BY <2>1
  <2>3. CASE num = 0
    BY <1>2, <2>2, <2>3 DEF UntypedRetype
  <2>4. CASE num # 0
    <3>1. num \in Nat \ {0}
      BY <2>4
    <3>2. Holds(ut, "Untyped") /\ Holds(node, "CNode")
      BY <2>2
    <3>3. UntypedRetype(ut, node, index, num, type, user_size)
      BY <2>2
    <3>4. \A x \in Filled : x \in DOMAIN slots' /\ slots'[x].cap = slots[x].cap
      BY <3>1, <3>2, <3>3, RetypeFills, Zenon
    <3>. QED  BY <1>1, <3>4
  <2>. QED  BY <2>3, <2>4
<1>4. ASSUME NEW s \in Nat \X Nat, s \notin Filled, NEW parent \in Filled, NEW cap,
             slots' = insert(s, parent, cap)
      PROVE  CapsKept
  <2>1. /\ DOMAIN slots' = Filled \cup {s}
        /\ \A x \in Filled : slots'[x].cap = slots[x].cap
    BY <1>4, InsertFills
  <2>. QED  BY <1>1, <2>1
<1>5. CASE ResolvedCopy
  <2>1. PICK src \in Filled : \E dest : /\ NodeSlot(dest, objects)
                                        /\ CNodeCopy(src, dest) \/ \E val \in Nat : CNodeMint(src, dest, val)
    BY <1>5 DEF ResolvedCopy
  <2>2. PICK dest : /\ NodeSlot(dest, objects)
                    /\ CNodeCopy(src, dest) \/ \E val \in Nat : CNodeMint(src, dest, val)
    BY <2>1
  <2>3. dest \in Nat \X Nat
    BY <2>2 DEF NodeSlot
  <2>4. dest \notin Filled /\ \E cap : slots' = insert(dest, src, cap)
    BY Zenon, <2>2 DEF CNodeCopy, CNodeMint
  <2>. QED  BY <1>4, <2>3, <2>4
<1>6. CASE ResolvedMove
  <2>1. PICK src \in Filled : \E dest : NodeSlot(dest, objects) /\ CNodeMove(src, dest)
    BY <1>6 DEF ResolvedMove
  <2>2. PICK dest : NodeSlot(dest, objects) /\ CNodeMove(src, dest)
    BY <2>1
  <2>3. dest \in Nat \X Nat /\ dest \notin Filled
    BY <2>2 DEF NodeSlot, CNodeMove
  <2>4. /\ DOMAIN slots' = (Filled \ {src}) \cup {dest}
        /\ \A x \in Filled \ {src} : slots'[x].cap = slots[x].cap
        /\ \E prev, next \in Links : slots'[dest] = Entry(derive(slots[src].cap), prev, next)
    BY <2>2, <2>3, MoveFills
  <2>5. /\ derive(slots[src].cap).obj = slots[src].cap.obj
        /\ derive(slots[src].cap).type = slots[src].cap.type
    BY <2>2, DeriveKeeps DEF CNodeMove, IInv, EntryOK
  <2>6. slots'[dest].cap = derive(slots[src].cap)
    BY <2>4 DEF Entry
  <2>. QED  BY <2>3, <2>4, <2>5, <2>6 DEF CapsKept
<1>7. CASE ResolvedTcb
  <2>1. ASSUME NEW tcb, NEW cnode, NEW vspace,
               Holds(tcb, "Tcb"), Holds(cnode, "CNode"), Holds(vspace, "PageTable"),
               TcbConfigure(tcb, cnode, vspace)
        PROVE  CapsKept
    <3>. DEFINE t == slots[tcb].cap.obj
    <3>1. CASE {<<t, 0>>, <<t, 1>>} \cap Filled # {}
      BY <1>2, <2>1, <3>1 DEF TcbConfigure
    <3>2. CASE {<<t, 0>>, <<t, 1>>} \cap Filled = {}
      <4>1. /\ DOMAIN slots' = Filled \cup {<<t, 0>>, <<t, 1>>}
            /\ \A x \in Filled : slots'[x].cap = slots[x].cap
        BY <2>1, <3>2, ConfigureFills, Zenon
      <4>. QED  BY <1>1, <4>1
    <3>. QED  BY <3>1, <3>2
  <2>2. ASSUME NEW tcb, NEW page, Holds(tcb, "Tcb"), Holds(page, "Page"), TcbSetIpcBuffer(tcb, page)
        PROVE  CapsKept
    <3>. DEFINE s == <<slots[tcb].cap.obj, 2>>
    <3>1. CASE s \in Filled
      BY <1>2, <2>2, <3>1 DEF TcbSetIpcBuffer
    <3>2. CASE s \notin Filled
      <4>1. page \in Filled /\ s \in Nat \X Nat
        BY <2>2 DEF Holds, IInv, EntryOK, ObjectsOK
      <4>2. slots' = insert(s, page, derive(slots[page].cap))
        BY <2>2, <3>2 DEF TcbSetIpcBuffer
      <4>. HIDE DEF s
      <4>. QED  BY <1>4, <3>2, <4>1, <4>2
    <3>. QED  BY <3>1, <3>2
  <2>. QED  BY <1>7, <2>1, <2>2 DEF ResolvedTcb
<1>8. CASE ResolvedPage
  <2>1. PICK page : Holds(page, "Page") /\ PageMapOrUnMap(page)
    BY <1>8 DEF ResolvedPage
  <2>2. /\ DOMAIN slots' = Filled
        /\ \A x \in Filled : slots'[x] = IF x = page THEN [slots[x] EXCEPT !.cap.val = 1 - slots[x].cap.val]
                                         ELSE slots[x]
    BY <2>1 DEF IInv, PageMapOrUnMap, Holds, Filled
  <2>3. \A x \in Filled : /\ slots'[x].cap.obj = slots[x].cap.obj
                          /\ slots'[x].cap.type = slots[x].cap.type
    BY <1>0, <2>2 DEF LinkTypes
  <2>. QED  BY <2>2, <2>3 DEF CapsKept
<1>. QED  BY <1>3, <1>5, <1>6, <1>7, <1>8 DEF Resolved

\* Every filled slot lies inside an object that has such a slot, whatever paths
\* callers give to lookup_entry_mut and get_writable (TypeOK).
THEOREM SlotsCorrect == Spec => []TypeOK
BY InvariantHolds, IInvImplies, PTL

\* The type and radix in a capability are those of its object (CapsMatchObjects):
\* lookup_entry_mut never computes a slot outside a CNode.
THEOREM CapsCorrect == Spec => []CapsMatchObjects
BY InvariantHolds, IInvImplies, PTL

\* An untyped block and a thread have one capability each, through any sequence of
\* copies, mints and moves (OneCapPerUntypedAndTcb).
THEOREM OneCapCorrect == Spec => []OneCapPerUntypedAndTcb
BY InvariantHolds, IInvImplies, PTL

\* No retype, copy, mint, move or TCB call overwrites a capability (NoCapOverwritten).
THEOREM OverwriteCorrect == Spec => NoCapOverwritten
<1>1. IInv /\ [Next]_vars => [CapsKept]_vars
  BY NextIsResolved, ResolvedKeepsCaps
<1>. QED  BY <1>1, InvariantHolds, PTL DEF Spec, NoCapOverwritten

=============================================================================
