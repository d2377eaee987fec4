--------------------------- MODULE UserCapsProofs ---------------------------
(***************************************************************************)
(* Proofs about UserCaps, for every size of the root CNode and of the      *)
(* nodes that a program makes: the paths of libzoea name what they are     *)
(* meant to name, and the calls of a program implement CapStore.           *)
(***************************************************************************)
EXTENDS UserCaps, CSpaceProofs

\* The backends of a leaf that names none, in the order they are tried.
USE SMTT(20), ZenonT(10), SMTT(30), SMTT(40), SMTT(50)

-----------------------------------------------------------------------------
(***************************************************************************)
(* What lookup_entry_mut finds for a path that is put together.            *)
(***************************************************************************)

\* Two walks over the same path agree as far as both go.
LEMMA WalkUnique ==
    ASSUME NEW ptr, NEW a \in Nat, NEW b \in Nat, a <= b,
           NEW f, IsWalk(ptr, f, a), NEW g, IsWalk(ptr, g, b)
    PROVE  \A d \in 0..a : f[d] = g[d]
<1>. DEFINE S == {n \in Nat : \A d \in 0..n : d <= a => f[d] = g[d]}
<1>1. ASSUME NEW d \in 0..a, \A e \in 0..(d - 1) : f[e] = g[e] PROVE f[d] = g[d]
  <2>1. f[d] = Step(ptr, f, d)
    BY DEF IsWalk
  <2>2. g[d] = Step(ptr, g, d)
    BY DEF IsWalk
  <2>3. Step(ptr, f, d) = Step(ptr, g, d)
    BY <1>1, StepReadsBelow
  <2>. QED  BY <2>1, <2>2, <2>3
<1>2. 0 \in S
  BY <1>1
<1>3. ASSUME NEW n \in Nat, n \in S PROVE n + 1 \in S
  <2>1. n + 1 <= a => f[n + 1] = g[n + 1]
    BY <1>1, <1>3
  <2>2. \A d \in 0..(n + 1) : d \in 0..n \/ d = n + 1
    OBVIOUS
  <2>. QED  BY <1>3, <2>1, <2>2
<1>4. Nat \subseteq S
  <2>. HIDE DEF S
  <2>. QED  BY <1>2, <1>3, SetInduction
<1>. QED  BY <1>4

\* One round of the loop of lookup_entry_mut.
LEMMA LookupUnfolds ==
    ASSUME NEW c \in CNodeCap, NEW ptr \in Nat, NEW depth \in Nat
    PROVE  lookup_entry_mut(c, ptr, depth) =
             IF depth < c.val THEN NoSlot
             ELSE LET rem == depth - c.val
                      s == <<c.obj, (ptr \div 2^rem) % 2^c.val>>
                  IN  IF rem = 0 \/ ~Holds(s, "CNode") THEN s
                      ELSE lookup_entry_mut(slots[s].cap, ptr, rem)
<1>. DEFINE rem == depth - c.val
            s == <<c.obj, (ptr \div 2^rem) % 2^c.val>>
<1>1. PICK f : IsWalk(ptr, f, depth) /\ lookup_entry_mut(c, ptr, depth) = f[depth][c]
  BY LookupIsWalk
<1>2. f[depth] = Step(ptr, f, depth)
  BY <1>1 DEF IsWalk
<1>3. lookup_entry_mut(c, ptr, depth) =
        IF depth < c.val THEN NoSlot
        ELSE IF rem = 0 \/ ~Holds(s, "CNode") THEN s ELSE f[rem][slots[s].cap]
  BY Zenon, <1>1, <1>2 DEF Step
<1>4. ASSUME ~(depth < c.val)
      PROVE  f[rem][slots[s].cap] = lookup_entry_mut(slots[s].cap, ptr, rem)
  <2>1. rem \in 0..depth /\ rem \in Nat
    BY <1>4 DEF CNodeCap
  <2>. HIDE DEF rem, s
  <2>2. PICK g : IsWalk(ptr, g, rem) /\ lookup_entry_mut(slots[s].cap, ptr, rem) = g[rem][slots[s].cap]
    BY <2>1, LookupIsWalk
  <2>3. g[rem] = f[rem]
    BY <1>1, <2>1, <2>2, WalkUnique
  <2>. QED  BY <2>2, <2>3
<1>. HIDE DEF rem, s
<1>5. lookup_entry_mut(c, ptr, depth) =
        IF depth < c.val THEN NoSlot
        ELSE IF rem = 0 \/ ~Holds(s, "CNode") THEN s ELSE lookup_entry_mut(slots[s].cap, ptr, rem)
  BY <1>3, <1>4
<1>. QED  BY <1>5, Zenon DEF rem, s

\* The path <<ptr, depth>> leads from a CNode capability to slot s: a longer path
\* that starts with it goes on from s.
Leads(c, path, s) ==
    \A y, e \in Nat :
        y \div 2^e = path[1] =>
            lookup_entry_mut(c, y, path[2] + e) =
                IF e = 0 \/ ~Holds(s, "CNode") THEN s ELSE lookup_entry_mut(slots[s].cap, y, e)

\* A slot's index, of as many bits as the CNode has, leads to that slot.
LEMMA IndexLeads ==
    ASSUME NEW c \in CNodeCap, NEW i \in Nat, i < 2^c.val
    PROVE  Leads(c, <<i, c.val>>, <<c.obj, i>>)
<1>. SUFFICES ASSUME NEW y \in Nat, NEW e \in Nat, y \div 2^e = i
              PROVE  lookup_entry_mut(c, y, c.val + e) =
                        IF e = 0 \/ ~Holds(<<c.obj, i>>, "CNode") THEN <<c.obj, i>>
                        ELSE lookup_entry_mut(slots[<<c.obj, i>>].cap, y, e)
  BY Zenon DEF Leads
<1>1. c.val \in Nat /\ c.val + e \in Nat /\ c.val + e - c.val = e /\ ~(c.val + e < c.val)
  BY DEF CNodeCap
<1>2. 2^c.val \in Nat \ {0}
  BY <1>1, PowerOfTwo
<1>3. i % 2^c.val = i
  BY <1>2, ModBound
<1>. QED  BY <1>1, <1>3, LookupUnfolds

\* A path that leads to a CNode, with an index of that node behind it, leads to
\* the node's slot of that index.
LEMMA ChildLeads ==
    ASSUME NEW c, NEW p \in Nat, NEW d \in Nat, NEW s, Leads(c, <<p, d>>, s),
           Holds(s, "CNode"), NEW k \in CNodeCap, slots[s].cap = k,
           NEW i \in Nat, i < 2^k.val
    PROVE  Leads(c, <<p * 2^k.val + i, d + k.val>>, <<k.obj, i>>)
<1>. DEFINE r == k.val
            t == <<k.obj, i>>
            q == p * 2^r + i
<1>1. r \in Nat \ {0} /\ 2^r \in Nat \ {0} /\ q \in Nat
  BY PowerOfTwo DEF CNodeCap
<1>2. ASSUME NEW y \in Nat, NEW e \in Nat, y \div 2^e = q
      PROVE  lookup_entry_mut(c, y, d + r + e) =
                IF e = 0 \/ ~Holds(t, "CNode") THEN t ELSE lookup_entry_mut(slots[t].cap, y, e)
  <2>1. 2^e \in Nat \ {0}
    BY PowerOfTwo
  <2>2. 2^(e + r) = 2^e * 2^r
    BY Zenon, <1>1, PowerSum
  <2>3. q \div 2^r = p
    BY <1>1, DivUnique
  <2>4. y \div 2^(e + r) = p
    <3>1. y \div (2^e * 2^r) = (y \div 2^e) \div 2^r
      BY <1>1, <2>1, DivDiv
    <3>. QED  BY Zenon, <1>2, <2>2, <2>3, <3>1
  <2>5. d + r + e = d + (e + r) /\ e + r \in Nat /\ e + r # 0
    BY <1>1
  <2>6. lookup_entry_mut(c, y, d + (e + r)) = lookup_entry_mut(k, y, e + r)
    BY <2>4, <2>5 DEF Leads
  <2>7. q % 2^r = i
    BY <1>1, DivUnique
  <2>8. <<k.obj, (y \div 2^e) % 2^r>> = t
    BY Zenon, <1>2, <2>7
  <2>9. lookup_entry_mut(k, y, e + r) =
           IF e = 0 \/ ~Holds(t, "CNode") THEN t ELSE lookup_entry_mut(slots[t].cap, y, e)
    <3>. DEFINE l == e + r
    <3>1. l \in Nat /\ ~(l < k.val) /\ l - k.val = e
      BY <1>1
    <3>. HIDE DEF l
    <3>2. lookup_entry_mut(k, y, l) =
            LET u == <<k.obj, (y \div 2^e) % 2^k.val>>
            IN  IF e = 0 \/ ~Holds(u, "CNode") THEN u ELSE lookup_entry_mut(slots[u].cap, y, e)
      BY <3>1, LookupUnfolds
    <3>3. lookup_entry_mut(k, y, l) =
            IF e = 0 \/ ~Holds(t, "CNode") THEN t ELSE lookup_entry_mut(slots[t].cap, y, e)
      BY <2>8, <3>2, Zenon
    <3>. QED  BY <3>3 DEF l
  <2>. QED  BY <2>5, <2>6, <2>9
<1>. QED  BY <1>2, Zenon DEF Leads

\* A path that leads to a slot is found there.
LEMMA LeadsFinds ==
    ASSUME NEW c, NEW p \in Nat, NEW d \in Nat, NEW s, Leads(c, <<p, d>>, s)
    PROVE  lookup_entry_mut(c, p, d) = s
<1>1. 2^0 = 1
  <2>1. 2^(0 + 0) = 2^0 * 2^0 /\ 2^0 \in Nat \ {0}
    BY PowerSum, PowerOfTwo
  <2>. QED  BY <2>1
<1>2. p \div 2^0 = p /\ d + 0 = d
  BY <1>1
<1>. QED  BY Zenon, <1>2 DEF Leads

-----------------------------------------------------------------------------
(***************************************************************************)
(* The invariant.                                                          *)
(***************************************************************************)

NodesOf(hs) == {n \in DOMAIN hs : hs[n].type = "CNode"}

Child(n, r, i) == <<n[1] * 2^r + i, n[2] + r>>

\* Every handle has a slot, which holds what the handle stands for.
Bound(at, hs, sl) ==
    \A h \in DOMAIN hs :
        /\ at[h] \in DOMAIN sl
        /\ sl[at[h]].cap.type = hs[h].type
        /\ hs[h].type = "CNode" => sl[at[h]].cap.val = hs[h].radix

\* No two handles share a slot, and no two a node.
Distinct(at, hs, sl) ==
    /\ \A g, h \in DOMAIN hs : at[g] = at[h] => g = h
    /\ \A m, n \in NodesOf(hs) : sl[at[m]].cap.obj = sl[at[n]].cap.obj => m = n

\* A handle's path is an index of the root CNode, or an index of a node behind
\* the path of that node's handle; the index is where its slot is.
Placed(at, hs, sl) ==
    \A h \in DOMAIN hs :
        \/ h[2] = RootRadix /\ h[1] < 2^RootRadix /\ at[h] = <<0, h[1]>>
        \/ \E n \in NodesOf(hs), i \in Nat :
            /\ i < 2^hs[n].radix
            /\ h = Child(n, hs[n].radix, i)
            /\ at[h] = <<sl[at[n]].cap.obj, i>>

Cursors(at, hs, sl) ==
    \A n \in NodesOf(hs), s \in DOMAIN sl :
        s[1] = sl[at[n]].cap.obj => s[2] < hs[n].cursor

\* The program's root, which it also has a capability to.
RootKept(at, hs, sl) ==
    /\ RootPath \in NodesOf(hs) /\ at[RootPath] = <<0, 2>>
    /\ {<<0, 2>>, <<2, 0>>} \subseteq DOMAIN sl
    /\ sl[<<0, 2>>].cap = Cap("CNode", 0, RootRadix)
    /\ sl[<<2, 0>>].cap = Cap("CNode", 0, RootRadix)

HandlesOK(hs) ==
    /\ hs = [h \in DOMAIN hs |-> hs[h]]
    /\ DOMAIN hs \subseteq Nat \X Nat
    /\ \A h \in DOMAIN hs : hs[h] \in [type : Types, radix : Nat, cursor : Nat]

HandlesAt(at, hs, sl) ==
    /\ HandlesOK(hs)
    /\ Bound(at, hs, sl)
    /\ Distinct(at, hs, sl)
    /\ Placed(at, hs, sl)
    /\ Cursors(at, hs, sl)
    /\ RootKept(at, hs, sl)

UInv ==
    /\ IInv
    /\ \E at : HandlesAt(at, handles, slots)

\* A node that a handle stands for.
LEMMA NodeCaps ==
    ASSUME IInv, NEW at, HandlesAt(at, handles, slots), NEW n \in Nodes
    PROVE  /\ Holds(at[n], "CNode")
           /\ slots[at[n]].cap \in CNodeCap
           /\ slots[at[n]].cap.val = handles[n].radix
           /\ CapOK(slots[at[n]].cap, objects)
           /\ n \in NodesOf(handles) /\ n \in Nat \X Nat /\ handles[n].cursor \in Nat
<1>1. n \in NodesOf(handles) /\ n \in DOMAIN handles /\ handles[n].type = "CNode"
  BY DEF Nodes, NodesOf
<1>2. Holds(at[n], "CNode") /\ slots[at[n]].cap.val = handles[n].radix
  BY <1>1 DEF HandlesAt, Bound, Holds, Filled
<1>3. CapOK(slots[at[n]].cap, objects) /\ slots[at[n]].cap.type = "CNode"
  BY <1>2 DEF Holds, IInv, EntryOK
<1>4. slots[at[n]].cap \in CNodeCap
  BY <1>3, CNodeCaps DEF IInv
<1>5. n \in Nat \X Nat /\ handles[n].cursor \in Nat
  BY <1>1 DEF HandlesAt, HandlesOK
<1>. QED  BY <1>1, <1>2, <1>3, <1>4, <1>5

\* The root of the program is the root CNode.
LEMMA RootCap ==
    ASSUME NEW at, HandlesAt(at, handles, slots)
    PROVE  /\ Root = Cap("CNode", 0, RootRadix) /\ Root \in CNodeCap
           /\ Root.obj = 0 /\ Root.val = RootRadix
<1>1. Root = Cap("CNode", 0, RootRadix)
  BY DEF HandlesAt, RootKept, Root
<1>. QED  BY <1>1, CSpaceAssumption DEF Cap, CNodeCap

\* The path of every handle leads to its slot.
LEMMA HandleLeads ==
    ASSUME IInv, NEW at, HandlesAt(at, handles, slots), NEW h \in DOMAIN handles
    PROVE  Leads(Root, h, at[h])
<1>. DEFINE S == {m \in Nat : \A g \in DOMAIN handles : g[2] <= m => Leads(Root, g, at[g])}
<1>1. ASSUME NEW g \in DOMAIN handles,
             \A n \in DOMAIN handles : n[2] < g[2] => Leads(Root, n, at[n])
      PROVE  Leads(Root, g, at[g])
  <2>1. /\ g \in Nat \X Nat
        /\ \/ g[2] = RootRadix /\ g[1] < 2^RootRadix /\ at[g] = <<0, g[1]>>
           \/ \E n \in NodesOf(handles), i \in Nat :
                /\ i < 2^handles[n].radix
                /\ g = Child(n, handles[n].radix, i)
                /\ at[g] = <<slots[at[n]].cap.obj, i>>
    BY DEF HandlesAt, Placed, HandlesOK
  <2>2. CASE g[2] = RootRadix /\ g[1] < 2^RootRadix /\ at[g] = <<0, g[1]>>
    <3>1. g = <<g[1], Root.val>> /\ g[1] \in Nat /\ Root \in CNodeCap /\ at[g] = <<Root.obj, g[1]>>
          /\ g[1] < 2^Root.val
      BY <2>1, <2>2, RootCap
    <3>. QED  BY <3>1, IndexLeads
  <2>3. CASE \E n \in NodesOf(handles), i \in Nat :
                /\ i < 2^handles[n].radix
                /\ g = Child(n, handles[n].radix, i)
                /\ at[g] = <<slots[at[n]].cap.obj, i>>
    <3>1. PICK n \in NodesOf(handles), i \in Nat :
                /\ i < 2^handles[n].radix
                /\ g = Child(n, handles[n].radix, i)
                /\ at[g] = <<slots[at[n]].cap.obj, i>>
      BY <2>3
    <3>2. n \in Nodes /\ n \in DOMAIN handles
      BY DEF Nodes, NodesOf
    <3>. DEFINE k == slots[at[n]].cap
    <3>3. Holds(at[n], "CNode") /\ k \in CNodeCap /\ k.val = handles[n].radix /\ n \in Nat \X Nat
      BY <3>2, NodeCaps
    <3>4. g = <<n[1] * 2^k.val + i, n[2] + k.val>> /\ at[g] = <<k.obj, i>> /\ i < 2^k.val
      BY <3>1, <3>3 DEF Child
    <3>5. k.val \in Nat \ {0} /\ n[2] \in Nat /\ n[1] \in Nat /\ n = <<n[1], n[2]>>
      BY <3>3 DEF CNodeCap
    <3>. HIDE DEF k
    <3>6. Leads(Root, n, at[n])
      BY <1>1, <3>2, <3>4, <3>5
    <3>7. Leads(Root, <<n[1], n[2]>>, at[n])
      BY <3>5, <3>6, Zenon
    <3>8. Leads(Root, <<n[1] * 2^k.val + i, n[2] + k.val>>, <<k.obj, i>>)
      BY <3>3, <3>4, <3>5, <3>7, ChildLeads DEF k
    <3>. QED  BY <3>4, <3>8
  <2>. QED  BY <2>1, <2>2, <2>3
<1>2. \A g \in DOMAIN handles : g[2] \in Nat
  BY DEF HandlesAt, HandlesOK
<1>3. 0 \in S
  BY <1>1, <1>2
<1>4. ASSUME NEW m \in Nat, m \in S PROVE m + 1 \in S
  <2>. SUFFICES ASSUME NEW g \in DOMAIN handles, g[2] <= m + 1 PROVE Leads(Root, g, at[g])
    OBVIOUS
  <2>. QED  BY <1>1, <1>2, <1>4
<1>5. Nat \subseteq S
  <2>. HIDE DEF S
  <2>. QED  BY <1>3, <1>4, SetInduction
<1>. QED  BY <1>2, <1>5

\* What the calls of libzoea name: the slot of a handle, and for a node with a
\* slot left the same new slot in retype, copy and (for the root) mint.
LEMMA SlotsNamed ==
    ASSUME IInv, NEW at, HandlesAt(at, handles, slots)
    PROVE  /\ \A h \in DOMAIN handles : Slot(h) = at[h]
           /\ \A n \in Nodes : HasSlot(n) =>
                LET new == <<slots[at[n]].cap.obj, handles[n].cursor>>
                IN  /\ get_cap_ptr(n) \in Nat \X Nat
                    /\ lookup_entry_mut(Root, get_cap_ptr(n)[1], get_cap_ptr(n)[2]) = new
                    /\ CopyDest(n) = new
                    /\ MintsIntoRoot /\ n \in MintNodes => MintDest(n) = new
<1>1. ASSUME NEW h \in DOMAIN handles PROVE Slot(h) = at[h]
  <2>1. h \in Nat \X Nat
    BY DEF HandlesAt, HandlesOK
  <2>2. h[1] \in Nat /\ h[2] \in Nat /\ h = <<h[1], h[2]>>
    BY <2>1
  <2>3. Leads(Root, <<h[1], h[2]>>, at[h])
    BY <2>2, HandleLeads, Zenon
  <2>. QED  BY <2>2, <2>3, LeadsFinds DEF Slot
<1>2. ASSUME NEW n \in Nodes, HasSlot(n)
      PROVE  LET new == <<slots[at[n]].cap.obj, handles[n].cursor>>
             IN  /\ get_cap_ptr(n) \in Nat \X Nat
                 /\ lookup_entry_mut(Root, get_cap_ptr(n)[1], get_cap_ptr(n)[2]) = new
                 /\ CopyDest(n) = new
                 /\ MintsIntoRoot /\ n \in MintNodes => MintDest(n) = new
  <2>. DEFINE k == slots[at[n]].cap
              i == handles[n].cursor
              p == n[1] * 2^k.val + i
              d == n[2] + k.val
  <2>0. n \in DOMAIN handles
    BY DEF Nodes
  <2>1. Holds(at[n], "CNode") /\ k \in CNodeCap /\ k.val = handles[n].radix /\ n \in Nat \X Nat /\ i \in Nat
    BY NodeCaps
  <2>2. k.val \in Nat /\ n[1] \in Nat /\ n[2] \in Nat /\ n = <<n[1], n[2]>> /\ i < 2^k.val
    BY <1>2, <2>1 DEF HasSlot, CNodeCap
  <2>3. p \in Nat /\ d \in Nat /\ get_cap_ptr(n) = <<p, d>>
    BY <2>1, <2>2, PowerOfTwo DEF get_cap_ptr
  <2>4. Leads(Root, <<n[1], n[2]>>, at[n])
    BY <2>0, <2>2, HandleLeads, Zenon
  <2>5. slots[at[n]].cap = k
    OBVIOUS
  <2>. HIDE DEF k
  <2>6. Leads(Root, <<p, d>>, <<k.obj, i>>)
    BY <2>1, <2>2, <2>4, <2>5, ChildLeads
  <2>7. lookup_entry_mut(Root, p, d) = <<k.obj, i>>
    BY <2>3, <2>6, LeadsFinds
  <2>8. CopyDest(n) = <<k.obj, i>>
    <3>1. Leads(k, <<i, k.val>>, <<k.obj, i>>)
      BY <2>1, <2>2, IndexLeads
    <3>2. lookup_entry_mut(k, i, k.val) = <<k.obj, i>>
      BY <2>1, <2>2, <3>1, LeadsFinds
    <3>. QED  BY <1>1, <2>0, <2>1, <2>5, <3>2 DEF CopyDest
  <2>9. ASSUME MintsIntoRoot, n \in MintNodes PROVE MintDest(n) = <<k.obj, i>>
    <3>1. n = RootPath
      BY <2>9 DEF MintsIntoRoot
    <3>2. k = Root
      BY <2>5, <3>1, RootCap DEF HandlesAt, RootKept
    <3>. QED  BY <1>1, <2>0, <2>3, <2>5, <2>7, <3>2 DEF MintDest
  <2>. QED  BY <2>3, <2>5, <2>7, <2>8, <2>9
<1>. QED  BY <1>1, <1>2

-----------------------------------------------------------------------------
(***************************************************************************)
(* The steps.                                                              *)
(***************************************************************************)

\* What every call without a move leaves alone: the capability in a filled slot,
\* but for the mapping that a page records.
CapsStay ==
    \A x \in Filled :
        /\ x \in DOMAIN slots'
        /\ slots'[x].cap.type = slots[x].cap.type
        /\ slots'[x].cap.obj = slots[x].cap.obj
        /\ slots[x].cap.type # "Page" => slots'[x].cap = slots[x].cap

\* The fields of a capability and of a slot's content.
LEMMA Fields ==
    /\ \A type, obj, val : /\ Cap(type, obj, val).type = type
                            /\ Cap(type, obj, val).obj = obj
                            /\ Cap(type, obj, val).val = val
    /\ \A cap, prev, next : Entry(cap, prev, next).cap = cap
BY DEF Cap, Entry

\* A filled slot has an object and an index.
LEMMA FilledSlot ==
    ASSUME IInv, NEW x \in Filled
    PROVE  x \in Nat \X Nat /\ x[1] \in DOMAIN objects /\ x[2] \in Nat
<1>1. EntryOK(x, slots[x], objects)
  BY DEF IInv
<1>2. CASE NodeSlot(x, objects)
  BY <1>2 DEF NodeSlot
<1>3. CASE TcbSlot(x, slots[x].cap.type, objects)
  BY <1>3 DEF TcbSlot
<1>. QED  BY <1>1, <1>2, <1>3 DEF EntryOK

\* A call that makes no handle: it may take a slot from a node's cursor, and fill
\* slots of a thread.
LEMMA NoHandleMade ==
    ASSUME IInv, NEW at, HandlesAt(at, handles, slots), CapsStay,
           \A s \in DOMAIN slots' \ Filled :
              s[1] \in DOMAIN objects /\ objects[s[1]].type # "CNode",
           handles' = handles \/ \E n \in Nodes : handles' = Taken(n)
    PROVE  HandlesAt(at, handles', slots')
<1>1. /\ DOMAIN handles' = DOMAIN handles
      /\ handles' = [h \in DOMAIN handles |-> handles'[h]]
      /\ \A h \in DOMAIN handles :
           /\ handles'[h] \in [type : Types, radix : Nat, cursor : Nat]
           /\ handles'[h].type = handles[h].type
           /\ handles'[h].radix = handles[h].radix
           /\ handles'[h].cursor >= handles[h].cursor
           /\ handles[h].cursor \in Nat
  <2>1. handles = [h \in DOMAIN handles |-> handles[h]]
    BY DEF HandlesAt, HandlesOK
  <2>2. \A h \in DOMAIN handles : handles[h] \in [type : Types, radix : Nat, cursor : Nat]
    BY DEF HandlesAt, HandlesOK
  <2>3. CASE handles' = handles
    BY <2>1, <2>2, <2>3
  <2>4. CASE \E n \in Nodes : handles' = Taken(n)
    <3>1. PICK n \in Nodes : handles' = [handles EXCEPT ![n].cursor = @ + 1]
      BY Zenon, <2>4 DEF Taken
    <3>2. /\ handles' = [h \in DOMAIN handles |-> handles'[h]]
          /\ \A h \in DOMAIN handles :
               handles'[h] = IF h = n THEN [handles[h] EXCEPT !.cursor = @ + 1] ELSE handles[h]
      BY Zenon, <2>1, <3>1
    <3>3. DOMAIN handles' = DOMAIN handles
      BY <3>2
    <3>. HIDE <3>1
    <3>. QED  BY <2>2, <3>2, <3>3
  <2>. QED  BY <2>3, <2>4
<1>2. NodesOf(handles') = NodesOf(handles)
  BY <1>1 DEF NodesOf
<1>3. \A h \in DOMAIN handles : at[h] \in Filled
  BY DEF HandlesAt, Bound, Filled
<1>4. \A n \in NodesOf(handles) : slots[at[n]].cap.type = "CNode"
  BY DEF HandlesAt, Bound, NodesOf
<1>5. \A n \in NodesOf(handles) : n \in DOMAIN handles /\ at[n] \in Filled
  BY <1>3 DEF NodesOf
<1>6. \A n \in NodesOf(handles) : slots'[at[n]].cap = slots[at[n]].cap
  BY <1>4, <1>5 DEF CapsStay
<1>7. HandlesOK(handles')
  BY <1>1 DEF HandlesAt, HandlesOK
<1>8. Bound(at, handles', slots')
  <2>. SUFFICES ASSUME NEW h \in DOMAIN handles
                PROVE  /\ at[h] \in DOMAIN slots'
                       /\ slots'[at[h]].cap.type = handles[h].type
                       /\ handles[h].type = "CNode" => slots'[at[h]].cap.val = handles[h].radix
    BY <1>1 DEF Bound
  <2>. QED  BY <1>3 DEF CapsStay, HandlesAt, Bound
<1>9. Distinct(at, handles', slots')
  BY <1>1, <1>2, <1>6 DEF HandlesAt, Distinct
<1>10. Placed(at, handles', slots')
  <2>. SUFFICES ASSUME NEW h \in DOMAIN handles
                PROVE  \/ h[2] = RootRadix /\ h[1] < 2^RootRadix /\ at[h] = <<0, h[1]>>
                       \/ \E n \in NodesOf(handles), i \in Nat :
                            /\ i < 2^handles'[n].radix
                            /\ h = Child(n, handles'[n].radix, i)
                            /\ at[h] = <<slots'[at[n]].cap.obj, i>>
    BY <1>1, <1>2 DEF Placed
  <2>1. \A n \in NodesOf(handles) : /\ handles'[n].radix = handles[n].radix
                                    /\ slots'[at[n]].cap = slots[at[n]].cap
    BY <1>1, <1>5, <1>6
  <2>. QED  BY <2>1 DEF HandlesAt, Placed
<1>11. Cursors(at, handles', slots')
  <2>. SUFFICES ASSUME NEW n \in NodesOf(handles), NEW s \in DOMAIN slots',
                       s[1] = slots[at[n]].cap.obj
                PROVE  s[2] < handles'[n].cursor
    BY <1>2, <1>6 DEF Cursors
  <2>1. objects[slots[at[n]].cap.obj].type = "CNode"
    BY Zenon, <1>4, <1>5 DEF IInv, EntryOK, CapOK
  <2>2. s \in Filled
    BY <2>1
  <2>3. s[2] < handles[n].cursor /\ s[2] \in Nat
    BY <2>2 DEF HandlesAt, Cursors, Filled, IInv, EntryOK, NodeSlot, TcbSlot
  <2>. QED  BY <1>1, <1>5, <2>3
<1>12. RootKept(at, handles', slots')
  <2>1. Cap("CNode", 0, RootRadix).type # "Page"
    BY DEF Cap
  <2>. QED  BY <1>2, <2>1 DEF HandlesAt, RootKept, CapsStay, Filled
<1>. QED  BY <1>7, <1>8, <1>9, <1>10, <1>11, <1>12 DEF HandlesAt

\* The slot that a node hands out next.
NextSlot(at, n) == <<slots[at[n]].cap.obj, handles[n].cursor>>

\* A call that fills the next slot of a node and makes a handle for it.
LEMMA HandleMade ==
    ASSUME IInv, NEW at, HandlesAt(at, handles, slots), CapsStay,
           NEW n \in Nodes, HasSlot(n), NEW handle, Ok(n, handle),
           DOMAIN slots' = Filled \cup {NextSlot(at, n)}, NextSlot(at, n) \notin Filled,
           handle \in [type : Types, radix : Nat, cursor : Nat],
           slots'[NextSlot(at, n)].cap.type = handle.type,
           handle.type = "CNode" =>
              /\ slots'[NextSlot(at, n)].cap.val = handle.radix
              /\ slots'[NextSlot(at, n)].cap.obj \notin DOMAIN objects
    PROVE  /\ get_cap_ptr(n) \notin DOMAIN handles
           /\ DOMAIN handles' = DOMAIN handles \cup {get_cap_ptr(n)}
           /\ \E bt : /\ HandlesAt(bt, handles', slots')
                      /\ bt[get_cap_ptr(n)] = NextSlot(at, n)
                      /\ \A h \in DOMAIN handles : bt[h] = at[h]
<1>. DEFINE q == get_cap_ptr(n)
            new == NextSlot(at, n)
            bt == [h \in DOMAIN handles \cup {q} |-> IF h = q THEN new ELSE at[h]]
            r == handles[n].radix
<1>0. n \in DOMAIN handles /\ n \in NodesOf(handles)
  BY DEF Nodes, NodesOf
<1>1. \A h \in DOMAIN handles : at[h] \in Filled /\ Slot(h) = at[h]
  BY SlotsNamed DEF HandlesAt, Bound, Filled
<1>2. q \in Nat \X Nat /\ lookup_entry_mut(Root, q[1], q[2]) = new
  BY Zenon, SlotsNamed DEF NextSlot
<1>3. q \notin DOMAIN handles
  BY <1>1, <1>2 DEF Slot
<1>4. q = Child(n, r, handles[n].cursor)
  BY DEF get_cap_ptr, Child
<1>19. new = <<slots[at[n]].cap.obj, handles[n].cursor>>
  BY DEF NextSlot
<1>. HIDE DEF q, new
<1>5. handles = [h \in DOMAIN handles |-> handles[h]]
  BY DEF HandlesAt, HandlesOK
<1>6. \A h \in DOMAIN handles : handles[h] \in [type : Types, radix : Nat, cursor : Nat]
  BY DEF HandlesAt, HandlesOK
<1>7. /\ handles' = [h \in DOMAIN handles \cup {q} |-> handles'[h]]
      /\ DOMAIN handles' = DOMAIN handles \cup {q}
      /\ handles'[q] = handle
      /\ \A h \in DOMAIN handles :
           /\ handles'[h] = IF h = n THEN [handles[h] EXCEPT !.cursor = @ + 1] ELSE handles[h]
  <2>1. handles' = Put([handles EXCEPT ![n].cursor = @ + 1], q, handle)
    BY DEF Ok, Taken, q
  <2>. QED  BY <1>3, <1>5, <2>1 DEF Put
<1>8. \A h \in DOMAIN handles :
           /\ handles'[h] \in [type : Types, radix : Nat, cursor : Nat]
           /\ handles'[h].type = handles[h].type
           /\ handles'[h].radix = handles[h].radix
           /\ handles'[h].cursor >= handles[h].cursor
           /\ h = n => handles'[h].cursor = handles[h].cursor + 1
           /\ handles[h].cursor \in Nat
  BY <1>6, <1>7
<1>20. /\ DOMAIN slots' = Filled \cup {new} /\ new \notin Filled
       /\ slots'[new].cap.type = handle.type
       /\ handle.type = "CNode" =>
              /\ slots'[new].cap.val = handle.radix
              /\ slots'[new].cap.obj \notin DOMAIN objects
  BY DEF new
<1>9. bt[q] = new /\ \A h \in DOMAIN handles : bt[h] = at[h]
  BY <1>3
<1>. HIDE DEF bt
<1>10. /\ NodesOf(handles) \subseteq NodesOf(handles')
       /\ \A m \in NodesOf(handles') : m \in NodesOf(handles) \/ (m = q /\ handle.type = "CNode")
  BY <1>7, <1>8 DEF NodesOf
<1>11. \A m \in NodesOf(handles) :
          /\ m \in DOMAIN handles /\ at[m] \in Filled
          /\ slots'[bt[m]].cap = slots[at[m]].cap
          /\ slots[at[m]].cap.type = "CNode"
          /\ slots[at[m]].cap.obj \in DOMAIN objects
  <2>. SUFFICES ASSUME NEW m \in NodesOf(handles)
                PROVE  /\ m \in DOMAIN handles /\ at[m] \in Filled
                       /\ slots'[bt[m]].cap = slots[at[m]].cap
                       /\ slots[at[m]].cap.type = "CNode"
                       /\ slots[at[m]].cap.obj \in DOMAIN objects
    OBVIOUS
  <2>1. m \in DOMAIN handles /\ at[m] \in Filled /\ slots[at[m]].cap.type = "CNode" /\ bt[m] = at[m]
    BY <1>1, <1>9 DEF HandlesAt, Bound, NodesOf
  <2>2. slots[at[m]].cap.obj \in DOMAIN objects
    BY <2>1 DEF IInv, EntryOK
  <2>3. slots'[at[m]].cap = slots[at[m]].cap
    BY <2>1 DEF CapsStay
  <2>. QED  BY <2>1, <2>2, <2>3
<1>12. HandlesOK(handles')
  BY <1>2, <1>7, <1>8 DEF HandlesAt, HandlesOK
<1>13. Bound(bt, handles', slots')
  <2>1. ASSUME NEW h \in DOMAIN handles
        PROVE  /\ bt[h] \in DOMAIN slots'
               /\ slots'[bt[h]].cap.type = handles'[h].type
               /\ handles'[h].type = "CNode" => slots'[bt[h]].cap.val = handles'[h].radix
    <3>1. /\ at[h] \in Filled
          /\ slots[at[h]].cap.type = handles[h].type
          /\ handles[h].type = "CNode" => slots[at[h]].cap.val = handles[h].radix
      BY <1>1 DEF HandlesAt, Bound
    <3>2. /\ at[h] \in DOMAIN slots'
          /\ slots'[at[h]].cap.type = slots[at[h]].cap.type
          /\ slots[at[h]].cap.type # "Page" => slots'[at[h]].cap = slots[at[h]].cap
      BY <3>1 DEF CapsStay
    <3>3. bt[h] = at[h] /\ handles'[h].type = handles[h].type /\ handles'[h].radix = handles[h].radix
      BY <1>8, <1>9
    <3>. QED  BY <3>1, <3>2, <3>3
  <2>. QED  BY Zenon, <1>7, <1>9, <1>20, <2>1 DEF Bound
<1>14. Distinct(bt, handles', slots')
  <2>1. \A g, h \in DOMAIN handles' : bt[g] = bt[h] => g = h
    BY <1>1, <1>20, <1>7, <1>9 DEF HandlesAt, Distinct
  <2>2. \A a, b \in NodesOf(handles') : slots'[bt[a]].cap.obj = slots'[bt[b]].cap.obj => a = b
    <3>1. \A a, b \in NodesOf(handles) : slots[at[a]].cap.obj = slots[at[b]].cap.obj => a = b
      BY DEF HandlesAt, Distinct
    <3>2. \A a \in NodesOf(handles) : /\ slots'[bt[a]].cap.obj = slots[at[a]].cap.obj
                                      /\ slots'[bt[a]].cap.obj \in DOMAIN objects
      BY <1>11
    <3>3. handle.type = "CNode" => slots'[bt[q]].cap.obj \notin DOMAIN objects
      BY <1>9, <1>20
    <3>. SUFFICES ASSUME NEW a \in NodesOf(handles'), NEW b \in NodesOf(handles'),
                         slots'[bt[a]].cap.obj = slots'[bt[b]].cap.obj
                  PROVE  a = b
      OBVIOUS
    <3>4. CASE a \in NodesOf(handles) /\ b \in NodesOf(handles)
      BY Zenon, <3>1, <3>2, <3>4
    <3>5. CASE a \notin NodesOf(handles) /\ b \in NodesOf(handles)
      BY Zenon, <1>10, <3>2, <3>3, <3>5
    <3>6. CASE a \in NodesOf(handles) /\ b \notin NodesOf(handles)
      BY Zenon, <1>10, <3>2, <3>3, <3>6
    <3>7. CASE a \notin NodesOf(handles) /\ b \notin NodesOf(handles)
      BY Zenon, <1>10, <3>7
    <3>. QED  BY <3>4, <3>5, <3>6, <3>7
  <2>. QED  BY Zenon, <2>1, <2>2 DEF Distinct
<1>15. Placed(bt, handles', slots')
  <2>1. ASSUME NEW h \in DOMAIN handles
        PROVE  \/ h[2] = RootRadix /\ h[1] < 2^RootRadix /\ bt[h] = <<0, h[1]>>
               \/ \E m \in NodesOf(handles'), i \in Nat :
                    /\ i < 2^handles'[m].radix
                    /\ h = Child(m, handles'[m].radix, i)
                    /\ bt[h] = <<slots'[bt[m]].cap.obj, i>>
    <3>1. \A m \in NodesOf(handles) : /\ handles'[m].radix = handles[m].radix
                                      /\ slots'[bt[m]].cap = slots[at[m]].cap
                                      /\ m \in NodesOf(handles')
      BY <1>8, <1>10, <1>11
    <3>2. bt[h] = at[h]
      BY <1>9
    <3>3. \/ h[2] = RootRadix /\ h[1] < 2^RootRadix /\ at[h] = <<0, h[1]>>
          \/ \E m \in NodesOf(handles), i \in Nat :
                /\ i < 2^handles[m].radix
                /\ h = Child(m, handles[m].radix, i)
                /\ at[h] = <<slots[at[m]].cap.obj, i>>
      BY DEF HandlesAt, Placed
    <3>4. ASSUME NEW m \in NodesOf(handles), NEW i \in Nat,
                 i < 2^handles[m].radix, h = Child(m, handles[m].radix, i),
                 at[h] = <<slots[at[m]].cap.obj, i>>
          PROVE  /\ m \in NodesOf(handles')
                 /\ i < 2^handles'[m].radix
                 /\ h = Child(m, handles'[m].radix, i)
                 /\ bt[h] = <<slots'[bt[m]].cap.obj, i>>
      BY <3>1, <3>2, <3>4
    <3>. QED  BY <3>2, <3>3, <3>4
  <2>2. /\ n \in NodesOf(handles') /\ handles[n].cursor \in Nat
        /\ handles[n].cursor < 2^handles'[n].radix
        /\ q = Child(n, handles'[n].radix, handles[n].cursor)
        /\ bt[q] = <<slots'[bt[n]].cap.obj, handles[n].cursor>>
    BY <1>0, <1>4, <1>19, <1>8, <1>9, <1>10, <1>11 DEF HasSlot
  <2>3. \E m \in NodesOf(handles'), i \in Nat :
            /\ i < 2^handles'[m].radix
            /\ q = Child(m, handles'[m].radix, i)
            /\ bt[q] = <<slots'[bt[m]].cap.obj, i>>
    BY <2>2
  <2>4. \A h \in DOMAIN handles' : h \in DOMAIN handles \/ h = q
    BY <1>7
  <2>. QED  BY <2>1, <2>3, <2>4, Zenon DEF Placed
<1>16. Cursors(bt, handles', slots')
  <2>. SUFFICES ASSUME NEW m \in NodesOf(handles'), NEW s \in DOMAIN slots',
                       s[1] = slots'[bt[m]].cap.obj
                PROVE  s[2] < handles'[m].cursor
    BY DEF Cursors
  <2>1. \A x \in Filled : x[1] \in DOMAIN objects /\ x[2] \in Nat
    BY FilledSlot
  <2>2. new[1] = slots[at[n]].cap.obj /\ new[2] = handles[n].cursor
    BY <1>19
  <2>3. CASE m \notin NodesOf(handles)
    <3>1. m = q /\ s[1] \notin DOMAIN objects
      BY <1>9, <1>10, <1>20, <2>3
    <3>. QED  BY ZenonT(20), <1>0, <1>11, <1>20, <2>1, <2>2, <3>1
  <2>4. CASE m \in NodesOf(handles) /\ s \in Filled
    <3>1. s[1] = slots[at[m]].cap.obj /\ m \in DOMAIN handles
      BY <1>11, <2>4
    <3>2. s[2] < handles[m].cursor
      BY <2>4, <3>1 DEF HandlesAt, Cursors, Filled
    <3>3. /\ handles[m].cursor \in Nat /\ s[2] \in Nat
          /\ handles[m].cursor <= handles'[m].cursor /\ handles'[m].cursor \in Nat
      BY <1>2, <1>8, <2>1, <2>4, <3>1
    <3>. QED  BY <3>2, <3>3
  <2>5. CASE m \in NodesOf(handles) /\ s = new
    <3>1. m = n
      BY <1>0, <1>11, <2>2, <2>5 DEF HandlesAt, Distinct
    <3>. QED  BY <1>0, <1>8, <2>2, <2>5, <3>1
  <2>. QED  BY <1>20, <2>3, <2>4, <2>5
<1>17. RootKept(bt, handles', slots')
  <2>1. Cap("CNode", 0, RootRadix).type # "Page"
    BY DEF Cap
  <2>2. RootPath \in NodesOf(handles) /\ at[RootPath] = <<0, 2>>
    BY DEF HandlesAt, RootKept
  <2>3. RootPath \in NodesOf(handles') /\ bt[RootPath] = <<0, 2>>
    BY <1>9, <1>10, <1>11, <2>2
  <2>. QED  BY <2>1, <2>3 DEF HandlesAt, RootKept, CapsStay, Filled
<1>18. HandlesAt(bt, handles', slots')
  BY <1>12, <1>13, <1>14, <1>15, <1>16, <1>17 DEF HandlesAt
<1>. QED  BY <1>3, <1>7, <1>9, <1>18 DEF q, new

\* A step that makes no handle, and one that makes one: a new object's, or a copy
\* of another handle's capability.
Kept ==
    /\ CapsStay
    /\ DOMAIN handles' = DOMAIN handles
    /\ \E at : HandlesAt(at, handles, slots) /\ HandlesAt(at, handles', slots')

FreshCap(c) ==
    /\ c.obj \notin DOMAIN objects
    /\ c.type \in Mintable => c.val = 0

CopiedCap(c, at) ==
    /\ \E m \in DOMAIN handles : /\ c.type = slots[at[m]].cap.type
                                 /\ c.obj = slots[at[m]].cap.obj
    /\ c.type \in Mintable => c.val \in Badges \cup {0}

MadeAt(at, bt, q) ==
    /\ HandlesAt(at, handles, slots) /\ HandlesAt(bt, handles', slots')
    /\ q \notin DOMAIN handles /\ DOMAIN handles' = DOMAIN handles \cup {q}
    /\ \A h \in DOMAIN handles : bt[h] = at[h]
    /\ FreshCap(slots'[bt[q]].cap) \/ CopiedCap(slots'[bt[q]].cap, at)

Made == CapsStay /\ \E at, bt, q : MadeAt(at, bt, q)

\* A call that the kernel refuses takes a slot from the cursor, and nothing else.
LEMMA CallFailsStep ==
    ASSUME UInv, NEW n \in Nodes, CallFails(n)
    PROVE  IInv' /\ Kept
<1>1. IInv' /\ CapsStay /\ DOMAIN slots' = Filled
  BY DEF UInv, CallFails, vars, IInv, CapsStay, Filled, OneCapPerUntypedAndTcb
<1>2. PICK at : HandlesAt(at, handles, slots)
  BY DEF UInv
<1>3. HandlesAt(at, handles', slots')
  BY <1>1, <1>2, NoHandleMade DEF UInv, CallFails
<1>4. DOMAIN handles' = DOMAIN handles
  BY DEF CallFails, Taken
<1>. QED  BY <1>1, <1>2, <1>3, <1>4 DEF Kept

\* retype_single: a handle for the new object, in the slot that get_slot handed out.
LEMMA RetypeStep ==
    ASSUME UInv, NEW n \in Nodes, NEW ut \in DOMAIN handles,
           NEW type \in NewTypes, NEW user_size \in Radices,
           retype_single(ut, n, type, user_size)
    PROVE  IInv' /\ Made
<1>1. PICK at : HandlesAt(at, handles, slots)
  BY DEF UInv
<1>. DEFINE node == at[n]
            u == at[ut]
            c == handles[n].cursor
            val == create_cap_dep_val(type, user_size)
            new == NextSlot(at, n)
            handle == Handle(type, val, 0)
<1>2. IInv
  BY DEF UInv
<1>3. Slot(n) = node /\ Slot(ut) = u
  BY <1>1, <1>2, SlotsNamed DEF Nodes
<1>4. /\ HasSlot(n) /\ Holds(u, "Untyped") /\ Holds(node, "CNode")
      /\ UntypedRetype(u, node, c, 1, type, user_size)
      /\ Ok(n, handle)
  BY <1>3 DEF retype_single
<1>5. c \in Nat
  BY <1>1, <1>2, NodeCaps
<1>6. type \in Types /\ user_size \in Nat \ {0} /\ 1 \in Nat
  BY CSpaceAssumption
<1>7. IInv'
  BY <1>2, <1>4, <1>5, <1>6, RetypeKeepsIInv, Zenon
<1>8. val \in Nat /\ (type # "CNode" => val = 0)
  BY <1>6 DEF create_cap_dep_val
<1>9. new = <<slots[node].cap.obj, c>>
  BY DEF NextSlot
<1>. HIDE DEF node, u, c, new
<1>10. /\ Fresh \notin DOMAIN objects
       /\ DOMAIN slots' = Filled \cup {new} /\ new \notin Filled
       /\ slots'[new].cap = Cap(type, Fresh, val)
       /\ \A x \in Filled : slots'[x].cap = slots[x].cap
  BY <1>2, <1>4, <1>5, <1>6, <1>9, RetypeOneFills
<1>. HIDE DEF val
<1>11. CapsStay
  BY <1>10 DEF CapsStay
<1>12. /\ handle \in [type : Types, radix : Nat, cursor : Nat]
       /\ handle.type = type /\ handle.radix = val
  BY <1>6, <1>8 DEF Handle
<1>13. slots'[new].cap.type = type /\ slots'[new].cap.val = val /\ slots'[new].cap.obj = Fresh
  BY <1>10 DEF Cap
<1>14. /\ HasSlot(n) /\ Ok(n, handle)
       /\ handle \in [type : Types, radix : Nat, cursor : Nat]
  BY <1>4, <1>12
<1>. HIDE DEF handle
<1>15. /\ DOMAIN slots' = Filled \cup {NextSlot(at, n)} /\ NextSlot(at, n) \notin Filled
       /\ slots'[NextSlot(at, n)].cap.type = handle.type
       /\ handle.type = "CNode" =>
            /\ slots'[NextSlot(at, n)].cap.val = handle.radix
            /\ slots'[NextSlot(at, n)].cap.obj \notin DOMAIN objects
  BY <1>10, <1>12, <1>13 DEF new
<1>16. /\ get_cap_ptr(n) \notin DOMAIN handles
       /\ DOMAIN handles' = DOMAIN handles \cup {get_cap_ptr(n)}
       /\ \E bt : /\ HandlesAt(bt, handles', slots')
                  /\ bt[get_cap_ptr(n)] = NextSlot(at, n)
                  /\ \A h \in DOMAIN handles : bt[h] = at[h]
  BY <1>1, <1>2, <1>11, <1>14, <1>15, HandleMade
<1>17. FreshCap(slots'[NextSlot(at, n)].cap)
  BY <1>8, <1>10, <1>13, UserCapsAssumption DEF FreshCap, new
<1>18. \E bt : MadeAt(at, bt, get_cap_ptr(n))
  BY <1>1, <1>16, <1>17, Zenon DEF MadeAt
<1>. QED  BY <1>7, <1>11, <1>18 DEF Made

\* A capability that is derived into the next slot of a node.
LEMMA DerivedStep ==
    ASSUME UInv, NEW at, HandlesAt(at, handles, slots), NEW n \in Nodes, HasSlot(n),
           NEW h \in DOMAIN handles, Ok(n, handles[h]),
           NextSlot(at, n) \notin Filled,
           NEW cap, slots' = insert(NextSlot(at, n), at[h], cap),
           cap.type = slots[at[h]].cap.type, cap.obj = slots[at[h]].cap.obj,
           cap.type # "CNode", cap.type \in Mintable => cap.val \in Badges \cup {0}
    PROVE  Made
<1>. DEFINE new == NextSlot(at, n)
<1>1. IInv
  BY DEF UInv
<1>2. at[h] \in Filled /\ handles[h].type = slots[at[h]].cap.type
  BY Zenon DEF HandlesAt, Bound, Filled
<1>3. new \in Nat \X Nat
  <2>1. slots[at[n]].cap \in CNodeCap /\ handles[n].cursor \in Nat
    BY Zenon, <1>1, NodeCaps
  <2>. QED  BY <2>1 DEF NextSlot, CNodeCap
<1>4. handles[h] \in [type : Types, radix : Nat, cursor : Nat]
  BY DEF HandlesAt, HandlesOK
<1>5. new \notin Filled /\ slots' = insert(new, at[h], cap)
  OBVIOUS
<1>. HIDE DEF new
<1>6. /\ DOMAIN slots' = Filled \cup {new}
      /\ slots'[new] = Entry(cap, at[h], slots[at[h]].next)
      /\ \A x \in Filled : slots'[x].cap = slots[x].cap
  BY <1>1, <1>2, <1>3, <1>5, InsertFills
<1>7. slots'[new].cap = cap
  BY <1>6, Fields
<1>8. CapsStay
  BY <1>6 DEF CapsStay
<1>9. /\ DOMAIN slots' = Filled \cup {NextSlot(at, n)} /\ NextSlot(at, n) \notin Filled
       /\ slots'[NextSlot(at, n)].cap.type = handles[h].type
       /\ handles[h].type # "CNode"
  BY Zenon, <1>2, <1>5, <1>6, <1>7 DEF new
<1>10. /\ get_cap_ptr(n) \notin DOMAIN handles
       /\ DOMAIN handles' = DOMAIN handles \cup {get_cap_ptr(n)}
       /\ \E bt : /\ HandlesAt(bt, handles', slots')
                  /\ bt[get_cap_ptr(n)] = NextSlot(at, n)
                  /\ \A g \in DOMAIN handles : bt[g] = at[g]
  BY ZenonT(20), <1>1, <1>4, <1>8, <1>9, HandleMade
<1>11. CopiedCap(slots'[NextSlot(at, n)].cap, at)
  BY <1>7 DEF CopiedCap, new
<1>12. \E bt : MadeAt(at, bt, get_cap_ptr(n))
  BY <1>10, <1>11, Zenon DEF MadeAt
<1>. QED  BY Zenon, <1>8, <1>12 DEF Made

\* Where the kernel puts a capability is a slot of the node.
LEMMA NextSlotInNode ==
    ASSUME IInv, NEW at, HandlesAt(at, handles, slots), NEW n \in Nodes, HasSlot(n)
    PROVE  NodeSlot(NextSlot(at, n), objects)
<1>. DEFINE k == slots[at[n]].cap
            i == handles[n].cursor
<1>1. k \in CNodeCap /\ k.val = handles[n].radix /\ CapOK(k, objects) /\ i \in Nat
  BY NodeCaps
<1>2. i < 2^k.val /\ 2^k.val \in Nat \ {0}
  BY <1>1, PowerOfTwo DEF HasSlot, CNodeCap
<1>3. i % 2^k.val = i
  BY <1>1, <1>2, ModBound
<1>4. NextSlot(at, n) = <<k.obj, i % 2^k.val>>
  BY <1>3 DEF NextSlot
<1>. HIDE DEF k, i
<1>. QED  BY <1>1, <1>4, SlotInNode

\* Capability::copy: the destination is the slot that get_slot handed out.
LEMMA CopyStep ==
    ASSUME UInv, NEW n \in Nodes, NEW h \in DOMAIN handles, copy(n, h)
    PROVE  IInv' /\ Made
<1>1. PICK at : HandlesAt(at, handles, slots)
  BY DEF UInv
<1>. DEFINE src == at[h]
            cap == derive(slots[src].cap)
<1>2. IInv /\ HasSlot(n)
  BY DEF UInv, copy
<1>3. Slot(h) = src /\ CopyDest(n) = NextSlot(at, n)
  BY <1>1, <1>2, SlotsNamed DEF NextSlot
<1>4. /\ src \in Filled /\ handles[h].type \in Copyable
      /\ CNodeCopy(src, NextSlot(at, n)) /\ Ok(n, handles[h])
  BY <1>3 DEF copy
<1>5. slots[src].cap.type = handles[h].type /\ CapOK(slots[src].cap, objects)
  BY Zenon, <1>1, <1>2, <1>4 DEF HandlesAt, Bound, IInv, EntryOK
<1>6. IInv'
  BY <1>1, <1>2, <1>4, NextSlotInNode, CopyKeepsIInv
<1>7. /\ NextSlot(at, n) \notin Filled /\ CanDerive(slots[src].cap)
      /\ slots' = insert(NextSlot(at, n), src, cap)
  BY <1>4 DEF CNodeCopy
<1>8. cap.type = slots[src].cap.type /\ cap.obj = slots[src].cap.obj
  BY <1>5, <1>7, DeriveKeeps
<1>9. cap.type \in {"Page", "Notification"}
  BY Zenon, <1>4, <1>5, <1>8, UserCapsAssumption
<1>10. cap.val = 0
  BY ZenonT(20), <1>5, <1>8, <1>9 DEF derive, CapOK
<1>. HIDE DEF cap
<1>11. Made
  BY Zenon, <1>1, <1>2, <1>4, <1>7, <1>8, <1>9, <1>10, DerivedStep
<1>. QED  BY <1>6, <1>11

\* Capability::mint into the root CNode: the same.
LEMMA MintStep ==
    ASSUME MintsIntoRoot, UInv, NEW n \in Nodes, n \in MintNodes, NEW h \in DOMAIN handles,
           NEW val \in Badges, mint(n, h, val)
    PROVE  IInv' /\ Made
<1>1. PICK at : HandlesAt(at, handles, slots)
  BY DEF UInv
<1>. DEFINE src == at[h]
            cap == [derive(slots[src].cap) EXCEPT !.val = val]
<1>2. IInv /\ HasSlot(n)
  BY DEF UInv, mint
<1>3. Slot(h) = src /\ MintDest(n) = NextSlot(at, n)
  BY <1>1, <1>2, SlotsNamed DEF NextSlot
<1>4. /\ src \in Filled /\ handles[h].type \in Mintable
      /\ CNodeMint(src, NextSlot(at, n), val) /\ Ok(n, handles[h])
  BY <1>3 DEF mint
<1>5. /\ slots[src].cap.type = handles[h].type /\ CapOK(slots[src].cap, objects)
      /\ slots[src].cap.type \in {"EndPoint", "Notification"}
  BY Zenon, <1>1, <1>2, <1>4, UserCapsAssumption DEF HandlesAt, Bound, IInv, EntryOK
<1>6. val \in Nat
  BY CSpaceAssumption
<1>7. IInv'
  BY <1>1, <1>2, <1>4, <1>5, <1>6, NextSlotInNode, MintKeepsIInv
<1>8. /\ NextSlot(at, n) \notin Filled /\ CanDerive(slots[src].cap)
      /\ slots' = insert(NextSlot(at, n), src, cap)
  BY <1>4 DEF CNodeMint
<1>9. /\ CapOK(derive(slots[src].cap), objects)
      /\ derive(slots[src].cap).type = slots[src].cap.type
      /\ derive(slots[src].cap).obj = slots[src].cap.obj
  BY <1>5, <1>8, DeriveKeeps
<1>10. cap.type = slots[src].cap.type /\ cap.obj = slots[src].cap.obj /\ cap.val = val
  BY <1>9 DEF CapOK
<1>. HIDE DEF cap
<1>11. Made
  BY Zenon, <1>1, <1>2, <1>4, <1>5, <1>8, <1>10, DerivedStep
<1>. QED  BY <1>7, <1>11

\* A call that changes no handle, and fills slots of threads at most.
LEMMA KeptStep ==
    ASSUME UInv, CapsStay, handles' = handles,
           \A s \in DOMAIN slots' \ Filled :
              s[1] \in DOMAIN objects /\ objects[s[1]].type # "CNode"
    PROVE  Kept
<1>1. PICK at : HandlesAt(at, handles, slots)
  BY DEF UInv
<1>2. HandlesAt(at, handles', slots')
  BY <1>1, NoHandleMade DEF UInv
<1>. QED  BY <1>1, <1>2 DEF Kept

\* A panic changes no slot.
LEMMA PanicStep ==
    ASSUME UInv, Panic, UNCHANGED handles
    PROVE  IInv' /\ Kept
<1>1. IInv'
  BY PanicKeepsIInv DEF UInv
<1>2. CapsStay /\ DOMAIN slots' = Filled
  BY DEF UInv, Panic, CapsStay, Filled
<1>. QED  BY <1>1, <1>2, KeptStep

\* Mapping or unmapping a page changes only what its capability records.
LEMMA PageStep ==
    ASSUME UInv, NEW h \in DOMAIN handles, map_page(h)
    PROVE  IInv' /\ Kept
<1>. DEFINE page == Slot(h)
<1>1. Holds(page, "Page") /\ PageMapOrUnMap(page) /\ handles' = handles
  BY DEF map_page
<1>. HIDE DEF page
<1>2. IInv'
  BY <1>1, PageKeepsIInv DEF UInv
<1>3. \A x \in Filled : slots[x] \in LinkTypes
  BY DEF UInv, IInv, EntryOK, LinkTypes
<1>4. /\ DOMAIN slots' = Filled
      /\ \A x \in Filled : slots'[x] = IF x = page THEN [slots[x] EXCEPT !.cap.val = 1 - slots[x].cap.val]
                                       ELSE slots[x]
  BY <1>1 DEF UInv, IInv, PageMapOrUnMap, Holds, Filled
<1>5. \A x \in Filled : /\ slots'[x].cap.obj = slots[x].cap.obj
                        /\ slots'[x].cap.type = slots[x].cap.type
  BY <1>3, <1>4 DEF LinkTypes
<1>6. CapsStay
  BY <1>1, <1>4, <1>5 DEF CapsStay, Holds
<1>7. Kept
  BY <1>1, <1>4, <1>6, KeptStep
<1>. QED  BY <1>2, <1>7

\* configure fills slots of a thread, which no path names.
LEMMA ConfigureStep ==
    ASSUME UInv, NEW a \in DOMAIN handles, NEW c \in DOMAIN handles, NEW v \in DOMAIN handles,
           configure(a, c, v)
    PROVE  IInv' /\ Kept
<1>. DEFINE tcb == Slot(a)
            cnode == Slot(c)
            vspace == Slot(v)
            t == slots[tcb].cap.obj
<1>1. /\ Holds(tcb, "Tcb") /\ Holds(cnode, "CNode") /\ Holds(vspace, "PageTable")
      /\ TcbConfigure(tcb, cnode, vspace) /\ handles' = handles
  BY DEF configure
<1>. HIDE DEF tcb, cnode, vspace
<1>2. IInv
  BY DEF UInv
<1>3. IInv'
  BY <1>1, <1>2, ConfigureKeepsIInv
<1>4. CASE {<<t, 0>>, <<t, 1>>} \cap Filled # {}
  BY <1>1, <1>4, PanicStep DEF TcbConfigure
<1>5. CASE {<<t, 0>>, <<t, 1>>} \cap Filled = {}
  <2>1. /\ DOMAIN slots' = Filled \cup {<<t, 0>>, <<t, 1>>}
        /\ \A x \in Filled : slots'[x].cap = slots[x].cap
    BY ZenonT(30), <1>1, <1>2, <1>5, ConfigureFills
  <2>2. CapsStay
    BY <2>1 DEF CapsStay
  <2>3. t \in DOMAIN objects /\ objects[t].type = "Tcb"
    BY <1>1, <1>2 DEF Holds, IInv, EntryOK, CapOK
  <2>4. Kept
    <3>1. \A s \in DOMAIN slots' \ Filled : s[1] = t
      BY <2>1
    <3>. HIDE DEF t
    <3>. QED  BY <1>1, <2>2, <2>3, <3>1, KeptStep
  <2>. QED  BY <1>3, <2>4
<1>. QED  BY <1>4, <1>5

\* set_ipc_buffer does too.
LEMMA SetIpcBufferStep ==
    ASSUME UInv, NEW a \in DOMAIN handles, NEW p \in DOMAIN handles, set_ipc_buffer(a, p)
    PROVE  IInv' /\ Kept
<1>. DEFINE tcb == Slot(a)
            page == Slot(p)
            t == slots[tcb].cap.obj
            s == <<t, 2>>
            cap == derive(slots[page].cap)
<1>1. /\ Holds(tcb, "Tcb") /\ Holds(page, "Page")
      /\ TcbSetIpcBuffer(tcb, page) /\ handles' = handles
  BY DEF set_ipc_buffer
<1>. HIDE DEF tcb, page
<1>2. IInv
  BY DEF UInv
<1>3. IInv'
  BY <1>1, <1>2, SetIpcBufferKeepsIInv
<1>4. CASE s \in Filled
  BY <1>1, <1>4, PanicStep DEF TcbSetIpcBuffer
<1>5. CASE s \notin Filled
  <2>1. /\ page \in Filled /\ CapOK(slots[page].cap, objects) /\ CanDerive(slots[page].cap)
        /\ t \in DOMAIN objects /\ objects[t].type = "Tcb" /\ t \in Nat
    <3>1. /\ page \in Filled /\ tcb \in Filled /\ slots[tcb].cap.type = "Tcb"
          /\ CanDerive(slots[page].cap)
      BY <1>1 DEF Holds, TcbSetIpcBuffer
    <3>2. CapOK(slots[page].cap, objects) /\ CapOK(slots[tcb].cap, objects)
      BY <1>2, <3>1 DEF IInv, EntryOK
    <3>3. t \in DOMAIN objects /\ objects[t].type = "Tcb"
      BY ZenonT(30), <3>1, <3>2 DEF CapOK
    <3>. QED  BY <1>2, <3>1, <3>2, <3>3 DEF IInv, ObjectsOK
  <2>2. s \in Nat \X Nat /\ slots' = insert(s, page, cap)
    BY <1>1, <1>5, <2>1 DEF TcbSetIpcBuffer
  <2>3. s[1] = t
    OBVIOUS
  <2>. HIDE DEF s, cap
  <2>4. /\ DOMAIN slots' = Filled \cup {s}
        /\ \A x \in Filled : slots'[x].cap = slots[x].cap
    BY <1>2, <1>5, <2>1, <2>2, InsertFills
  <2>5. CapsStay
    BY <2>4 DEF CapsStay
  <2>6. Kept
    BY <1>1, <2>1, <2>3, <2>4, <2>5, KeptStep
  <2>. QED  BY <1>3, <2>6
<1>. QED  BY <1>4, <1>5

\* Every call of the program.
LEMMA UserStep ==
    ASSUME MintsIntoRoot, UInv, UserNext
    PROVE  IInv' /\ (Kept \/ Made)
<1>1. CASE \E n \in Nodes : CallFails(n)
  BY <1>1, CallFailsStep
<1>2. ASSUME NEW n \in Nodes, NEW h \in DOMAIN handles,
             \/ /\ handles[h].type = "Untyped"
                /\ \E type \in NewTypes, user_size \in Radices :
                     retype_single(h, n, type, user_size)
             \/ copy(n, h)
             \/ n \in MintNodes /\ \E val \in Badges : mint(n, h, val)
      PROVE  IInv' /\ Made
  BY <1>2, RetypeStep, CopyStep, MintStep
<1>3. CASE \E h \in DOMAIN handles : handles[h].type = "Page" /\ map_page(h)
  BY <1>3, PageStep
<1>4. CASE \E t, c, v \in DOMAIN handles :
            /\ handles[t].type = "Tcb" /\ handles[c].type = "CNode"
            /\ handles[v].type = "PageTable"
            /\ configure(t, c, v)
  BY <1>4, ConfigureStep
<1>5. CASE \E t, p \in DOMAIN handles :
            handles[t].type = "Tcb" /\ handles[p].type = "Page" /\ set_ipc_buffer(t, p)
  BY <1>5, SetIpcBufferStep
<1>. QED  BY <1>1, <1>2, <1>3, <1>4, <1>5, Zenon DEF UserNext

\* The invariant is inductive.
LEMMA UserInductive ==
    ASSUME MintsIntoRoot
    PROVE  UInv /\ [UserNext]_uvars => UInv'
<1>. SUFFICES ASSUME UInv, [UserNext]_uvars PROVE UInv'
  OBVIOUS
<1>1. CASE UserNext
  <2>1. IInv' /\ (Kept \/ Made)
    BY <1>1, UserStep
  <2>2. \E at : HandlesAt(at, handles', slots')
    BY Zenon, <2>1 DEF Kept, Made, MadeAt
  <2>. QED  BY <2>1, <2>2 DEF UInv
<1>2. CASE UNCHANGED uvars
  <2>1. IInv'
    BY <1>2 DEF uvars, UInv, IInv, Filled, OneCapPerUntypedAndTcb
  <2>2. \E at : HandlesAt(at, handles', slots')
    BY <1>2 DEF uvars, UInv
  <2>. QED  BY <2>1, <2>2 DEF UInv
<1>. QED  BY <1>1, <1>2

\* The slots of the handles in BootInfo.
BootAt == [p \in {RootPath, <<3, RootRadix>>, <<6, RootRadix>>} |-> <<0, p[1]>>]

\* What BootInfo hands to the root server.
LEMMA UserInitHandles ==
    ASSUME UserInit
    PROVE  /\ IInv /\ HandlesAt(BootAt, handles, slots)
           /\ DOMAIN handles = {RootPath, <<3, RootRadix>>, <<6, RootRadix>>}
           /\ BootAt[RootPath] = <<0, 2>>
           /\ BootAt[<<3, RootRadix>>] = <<0, 3>> /\ BootAt[<<6, RootRadix>>] = <<0, 6>>
           /\ slots[<<0, 2>>].cap = Cap("CNode", 0, RootRadix)
           /\ slots[<<0, 3>>].cap = Cap("PageTable", 1, 1)
           /\ slots[<<0, 6>>].cap = Cap("Untyped", 5, 0)
<1>. DEFINE root == Cap("CNode", 0, RootRadix)
            v == <<3, RootRadix>>
            u == <<6, RootRadix>>
            at == [p \in {RootPath, v, u} |-> <<0, p[1]>>]
<1>1. IInv
  BY InitIInv DEF UserInit
<1>2. /\ DOMAIN slots = {<<0, 1>>, <<0, 2>>, <<0, 3>>, <<0, 4>>, <<0, 5>>, <<0, 6>>,
                         <<2, 0>>, <<2, 1>>, <<2, 2>>}
      /\ slots[<<0, 1>>] = Entry(Cap("Tcb", 2, 0), Null, Null)
      /\ slots[<<0, 2>>] = Entry(root, Null, Stack)
      /\ slots[<<0, 3>>] = Entry(Cap("PageTable", 1, 1), Null, Stack)
      /\ slots[<<0, 4>>] = Entry(Cap("Page", 3, 1), Null, Stack)
      /\ slots[<<0, 5>>] = Entry(Cap("Page", 4, 1), Null, Null)
      /\ slots[<<0, 6>>] = Entry(Cap("Untyped", 5, 0), Null, Null)
      /\ slots[<<2, 0>>] = Entry(root, <<0, 2>>, Null)
      /\ slots[<<2, 1>>] = Entry(Cap("PageTable", 1, 1), <<0, 3>>, Null)
      /\ slots[<<2, 2>>] = Entry(Cap("Page", 3, 1), <<0, 4>>, Null)
  BY InitSlots DEF UserInit
<1>3. /\ slots[<<0, 2>>].cap = root /\ slots[<<2, 0>>].cap = root
      /\ root.type = "CNode" /\ root.obj = 0 /\ root.val = RootRadix
      /\ slots[<<0, 3>>].cap.type = "PageTable" /\ slots[<<0, 6>>].cap.type = "Untyped"
  BY <1>2, Fields
<1>4. RootRadix \in Nat \ {0} /\ 2^RootRadix \in Nat /\ 2^RootRadix > 6
  BY CSpaceAssumption, PowerOfTwo
<1>5. RootPath = <<2, RootRadix>>
  BY DEF RootPath
<1>6. /\ DOMAIN handles = {RootPath, v, u}
      /\ handles = [p \in {RootPath, v, u} |-> handles[p]]
      /\ handles[RootPath] = Handle("CNode", RootRadix, 7)
      /\ handles[v] = Handle("PageTable", 0, 0)
      /\ handles[u] = Handle("Untyped", 0, 0)
  <2>1. handles = BootHandles
    BY DEF UserInit
  <2>2. RootPath # v /\ RootPath # u /\ v # u
    BY <1>5
  <2>. QED  BY <2>1, <2>2 DEF BootHandles
<1>7. /\ RootPath[1] = 2 /\ RootPath[2] = RootRadix
      /\ v[1] = 3 /\ v[2] = RootRadix /\ u[1] = 6 /\ u[2] = RootRadix
      /\ {RootPath, v, u} \subseteq Nat \X Nat
  BY <1>4, <1>5
<1>8. at[RootPath] = <<0, 2>> /\ at[v] = <<0, 3>> /\ at[u] = <<0, 6>>
  BY <1>7
<1>9. BootAt = at /\ DOMAIN handles = {RootPath, <<3, RootRadix>>, <<6, RootRadix>>}
  BY <1>6 DEF BootAt
<1>10. /\ at[<<3, RootRadix>>] = <<0, 3>> /\ at[<<6, RootRadix>>] = <<0, 6>>
       /\ slots[<<0, 2>>].cap = Cap("CNode", 0, RootRadix)
       /\ slots[<<0, 3>>].cap = Cap("PageTable", 1, 1)
       /\ slots[<<0, 6>>].cap = Cap("Untyped", 5, 0)
  BY <1>2, <1>8, Fields
<1>11. /\ handles[RootPath].type = "CNode" /\ handles[RootPath].radix = RootRadix
       /\ handles[RootPath].cursor = 7
       /\ handles[v].type = "PageTable" /\ handles[u].type = "Untyped"
       /\ \A h \in {RootPath, v, u} : handles[h] \in [type : Types, radix : Nat, cursor : Nat]
  BY <1>4, <1>6 DEF Handle, Types
<1>. HIDE DEF at, v, u, root
<1>12. NodesOf(handles) = {RootPath}
  BY <1>6, <1>11 DEF NodesOf
<1>13. HandlesOK(handles)
  BY <1>6, <1>7, <1>11 DEF HandlesOK
<1>14. Bound(at, handles, slots)
  <2>1. {<<0, 2>>, <<0, 3>>, <<0, 6>>} \subseteq DOMAIN slots
    BY Zenon, <1>2
  <2>2. \A h \in DOMAIN handles : h = RootPath \/ h = v \/ h = u
    BY Zenon, <1>6
  <2>3. "CNode" # "PageTable" /\ "CNode" # "Untyped"
    OBVIOUS
  <2>. QED  BY <1>3, <1>8, <1>11, <2>1, <2>2, <2>3 DEF Bound
<1>15. Distinct(at, handles, slots)
  BY <1>6, <1>8, <1>12 DEF Distinct
<1>16. Placed(at, handles, slots)
  BY <1>4, <1>6, <1>7, <1>8 DEF Placed
<1>17. Cursors(at, handles, slots)
  <2>1. \A s \in DOMAIN slots : s[1] = 0 => s[2] < 7
    BY <1>2
  <2>. QED  BY <1>3, <1>8, <1>11, <1>12, <2>1 DEF Cursors
<1>18. RootKept(at, handles, slots)
  BY <1>2, <1>3, <1>8, <1>12 DEF RootKept, root
<1>19. HandlesAt(at, handles, slots)
  BY <1>13, <1>14, <1>15, <1>16, <1>17, <1>18 DEF HandlesAt
<1>. QED  BY <1>1, <1>8, <1>19, <1>9, <1>10

\* The invariant holds when the root server starts.
LEMMA UserInitUInv == UserInit => UInv
BY UserInitHandles DEF UInv

\* The invariant holds in every reachable state.
LEMMA UserInvariant ==
    ASSUME MintsIntoRoot
    PROVE  UserSpec => []UInv
BY UserInitUInv, UserInductive, PTL DEF UserSpec

\* What the invariant says about the properties of UserCaps.
LEMMA UInvImplies == UInv => PathsResolve /\ CursorPastFilled
<1>. SUFFICES ASSUME UInv PROVE PathsResolve /\ CursorPastFilled
  OBVIOUS
<1>1. PICK at : HandlesAt(at, handles, slots)
  BY DEF UInv
<1>2. \A h \in DOMAIN handles : Slot(h) = at[h]
  BY <1>1, SlotsNamed DEF UInv
<1>3. PathsResolve
  <2>1. ASSUME NEW h \in DOMAIN handles
        PROVE  /\ Holds(Slot(h), handles[h].type)
               /\ handles[h].type = "CNode" => slots[Slot(h)].cap.val = handles[h].radix
    BY <1>1, <1>2 DEF HandlesAt, Bound, Holds, Filled
  <2>2. ASSUME NEW g \in DOMAIN handles, NEW h \in DOMAIN handles, Slot(g) = Slot(h)
        PROVE  g = h
    BY <1>1, <1>2, <2>2 DEF HandlesAt, Distinct
  <2>. QED  BY <2>1, <2>2 DEF PathsResolve
<1>4. CursorPastFilled
  <2>1. ASSUME NEW n \in Nodes, NEW s \in Filled, s[1] = slots[Slot(n)].cap.obj
        PROVE  s[2] < handles[n].cursor
    BY <1>1, <1>2, <2>1 DEF HandlesAt, Cursors, Nodes, NodesOf, Filled
  <2>. QED  BY <2>1 DEF CursorPastFilled
<1>. QED  BY <1>3, <1>4 DEF UInv

\* Every Capability<K> resolves to a slot of its own that holds a capability of type
\* K, however deep get_cap_ptr nests its path, in a program that retypes and copies into
\* any node and mints into its root CNode (PathsResolve).
THEOREM PathsCorrect ==
    ASSUME MintsIntoRoot
    PROVE  UserSpec => []PathsResolve
BY UserInvariant, UInvImplies, PTL

\* get_slot never hands out a slot that is in use, in such a program (CursorPastFilled).
THEOREM CursorCorrect ==
    ASSUME MintsIntoRoot
    PROVE  UserSpec => []CursorPastFilled
BY UserInvariant, UInvImplies, PTL

-----------------------------------------------------------------------------
(***************************************************************************)
(* libzoea implements CapStore.                                            *)
(***************************************************************************)

\* What a program sees of a capability.
Seen(c) == [type |-> c.type, obj |-> c.obj, badge |-> IF c.type \in Mintable THEN c.val ELSE 0]

\* The fields of what a program sees.
LEMMA SeenFields ==
    \A c : /\ Seen(c).type = c.type /\ Seen(c).obj = c.obj
           /\ Seen(c).badge = IF c.type \in Mintable THEN c.val ELSE 0
BY DEF Seen

\* A handle means the capability in its slot.
MeansItsSlot ==
    \A at : IInv /\ HandlesAt(at, handles, slots) =>
              \A h \in DOMAIN handles : Meaning(h) = Seen(slots[at[h]].cap)

\* Meaning, which looks a path up, agrees with the slot of the handle.
LEMMA MeaningHolds == MeansItsSlot
<1>. SUFFICES ASSUME NEW at, IInv, HandlesAt(at, handles, slots), NEW h \in DOMAIN handles
              PROVE  Meaning(h) = Seen(slots[at[h]].cap)
  BY DEF MeansItsSlot
<1>1. Slot(h) = at[h] /\ at[h] \in Filled
  BY Zenon, SlotsNamed DEF HandlesAt, Bound, Filled
<1>. QED  BY <1>1 DEF Meaning, Seen

\* A step keeps what a slot's capability means to a program.
LEMMA SeenStays ==
    ASSUME CapsStay, NEW s \in Filled
    PROVE  Seen(slots'[s].cap) = Seen(slots[s].cap)
BY UserCapsAssumption DEF CapsStay, Seen

\* Every step maps to a step of CapStore or leaves the store as it is.
LEMMA StoreStep ==
    ASSUME MintsIntoRoot, UInv, UserNext
    PROVE  LET st == [h \in DOMAIN handles |-> Meaning(h)]
           IN  Store!Next \/ st' = st
<1>1. IInv' /\ (Kept \/ Made)
  BY UserStep
<1>2. MeansItsSlot /\ MeansItsSlot'
  BY MeaningHolds, PTL
<1>3. CASE Kept
  <2>1. PICK at : HandlesAt(at, handles, slots) /\ HandlesAt(at, handles', slots')
    BY <1>3 DEF Kept
  <2>2. CapsStay /\ DOMAIN handles' = DOMAIN handles
    BY <1>3 DEF Kept
  <2>3. \A h \in DOMAIN handles : Meaning(h) = Seen(slots[at[h]].cap)
    BY <1>2, <2>1 DEF UInv, MeansItsSlot
  <2>4. \A h \in DOMAIN handles : Meaning(h)' = Seen(slots'[at[h]].cap)
    BY <1>1, <1>2, <2>1, <2>2 DEF MeansItsSlot
  <2>5. \A h \in DOMAIN handles : at[h] \in Filled
    BY <2>1 DEF HandlesAt, Bound, Filled
  <2>6. \A h \in DOMAIN handles : Meaning(h)' = Meaning(h)
    BY <2>2, <2>3, <2>4, <2>5, SeenStays
  <2>. QED  BY <2>2, <2>6
<1>4. CASE Made
  <2>1. PICK at, bt, q : MadeAt(at, bt, q)
    BY <1>4 DEF Made
  <2>. DEFINE st == [h \in DOMAIN handles |-> Meaning(h)]
              c == slots'[bt[q]].cap
  <2>2. /\ HandlesAt(at, handles, slots) /\ HandlesAt(bt, handles', slots')
        /\ q \notin DOMAIN handles /\ DOMAIN handles' = DOMAIN handles \cup {q}
        /\ \A h \in DOMAIN handles : bt[h] = at[h]
        /\ FreshCap(c) \/ CopiedCap(c, at)
        /\ CapsStay
    BY <1>4, <2>1 DEF MadeAt, Made
  <2>3. \A h \in DOMAIN handles : Meaning(h) = Seen(slots[at[h]].cap)
    BY <1>2, <2>2 DEF UInv, MeansItsSlot
  <2>4. \A h \in DOMAIN handles' : Meaning(h)' = Seen(slots'[bt[h]].cap)
    BY <1>1, <1>2, <2>2 DEF MeansItsSlot
  <2>5. \A h \in DOMAIN handles : at[h] \in Filled /\ slots[at[h]].cap.obj \in DOMAIN objects
    BY <2>2 DEF HandlesAt, Bound, Filled, UInv, IInv, EntryOK
  <2>6. \A h \in DOMAIN handles : Meaning(h)' = Meaning(h)
    <3>. SUFFICES ASSUME NEW h \in DOMAIN handles PROVE Meaning(h)' = Meaning(h)
      OBVIOUS
    <3>1. Meaning(h)' = Seen(slots'[at[h]].cap) /\ Meaning(h) = Seen(slots[at[h]].cap)
      BY <2>2, <2>3, <2>4
    <3>2. Seen(slots'[at[h]].cap) = Seen(slots[at[h]].cap)
      BY ZenonT(20), <2>2, <2>5, SeenStays
    <3>. QED  BY <3>1, <3>2
  <2>7. /\ DOMAIN st = DOMAIN handles /\ DOMAIN st' = DOMAIN handles \cup {q}
        /\ \A h \in DOMAIN handles : st[h] = Seen(slots[at[h]].cap) /\ st'[h] = st[h]
        /\ st'[q] = Seen(c)
    BY Zenon, <2>2, <2>3, <2>4, <2>6
  <2>. HIDE DEF st, c
  <2>8. CASE FreshCap(c)
    <3>1. /\ \A m \in DOMAIN st : st[m].obj # st'[q].obj
          /\ st'[q].badge = 0
      <4>1. \A m \in DOMAIN st : st[m].obj \in DOMAIN objects
        BY <2>5, <2>7, SeenFields
      <4>2. st'[q].obj = c.obj /\ c.obj \notin DOMAIN objects /\ st'[q].badge = 0
        BY <2>7, <2>8, SeenFields DEF FreshCap
      <4>. QED  BY ZenonT(20), <4>1, <4>2
    <3>. QED  BY <2>2, <2>7, <3>1, Zenon DEF Store!Next, Store!Create, st
  <2>9. CASE CopiedCap(c, at)
    <3>1. /\ \E m \in DOMAIN st : st'[q].type = st[m].type /\ st'[q].obj = st[m].obj
          /\ st'[q].badge \in Badges \cup {0}
      <4>1. PICK m \in DOMAIN handles : /\ c.type = slots[at[m]].cap.type
                                        /\ c.obj = slots[at[m]].cap.obj
        BY Zenon, <2>9 DEF CopiedCap
      <4>2. c.type \in Mintable => c.val \in Badges \cup {0}
        BY Zenon, <2>9 DEF CopiedCap
      <4>3. m \in DOMAIN st /\ st[m] = Seen(slots[at[m]].cap) /\ st'[q] = Seen(c)
        BY <2>7
      <4>4. st'[q].type = c.type /\ st'[q].obj = c.obj /\ st'[q].badge \in Badges \cup {0}
        BY <4>2, <4>3, SeenFields
      <4>5. st[m].type = slots[at[m]].cap.type /\ st[m].obj = slots[at[m]].cap.obj
        BY <4>3, SeenFields
      <4>. QED  BY Zenon, <4>1, <4>3, <4>4, <4>5
    <3>. QED  BY <2>2, <2>7, <3>1, Zenon DEF Store!Next, Store!Derive, st
  <2>. QED  BY <2>2, <2>8, <2>9
<1>. QED  BY <1>1, <1>3, <1>4

\* What the boot code leaves is the store that a program starts with.
LEMMA StoreInit == UserInit => Store!Init
<1>. SUFFICES ASSUME UserInit PROVE Store!Init
  OBVIOUS
<1>. DEFINE v == <<3, RootRadix>>
            u == <<6, RootRadix>>
<1>1. /\ IInv /\ HandlesAt(BootAt, handles, slots)
      /\ DOMAIN handles = {RootPath, v, u}
      /\ slots[BootAt[RootPath]].cap = Cap("CNode", 0, RootRadix)
      /\ slots[BootAt[v]].cap = Cap("PageTable", 1, 1)
      /\ slots[BootAt[u]].cap = Cap("Untyped", 5, 0)
  BY UserInitHandles
<1>2. \A h \in DOMAIN handles : Meaning(h) = Seen(slots[BootAt[h]].cap)
  BY <1>1, MeaningHolds DEF MeansItsSlot
<1>3. /\ Meaning(RootPath) = [type |-> "CNode", obj |-> 0, badge |-> 0]
      /\ Meaning(v) = [type |-> "PageTable", obj |-> 1, badge |-> 0]
      /\ Meaning(u) = [type |-> "Untyped", obj |-> 5, badge |-> 0]
  <2>1. RootPath \in DOMAIN handles /\ v \in DOMAIN handles /\ u \in DOMAIN handles
    BY Zenon, <1>1
  <2>2. "CNode" \notin Mintable /\ "PageTable" \notin Mintable /\ "Untyped" \notin Mintable
    BY UserCapsAssumption
  <2>3. /\ Seen(Cap("CNode", 0, RootRadix)) = [type |-> "CNode", obj |-> 0, badge |-> 0]
        /\ Seen(Cap("PageTable", 1, 1)) = [type |-> "PageTable", obj |-> 1, badge |-> 0]
        /\ Seen(Cap("Untyped", 5, 0)) = [type |-> "Untyped", obj |-> 5, badge |-> 0]
    BY <2>2 DEF Seen, Cap
  <2>. HIDE DEF v, u
  <2>. QED  BY Zenon, <1>1, <1>2, <2>1, <2>3
<1>4. RootPath # v /\ RootPath # u /\ v # u /\ v[1] = 3 /\ u[1] = 6 /\ u[1] # 3
  BY DEF RootPath
<1>. DEFINE boot == [p \in DOMAIN BootHandles |->
                      [type |-> BootHandles[p].type,
                       obj |-> CASE p = RootPath -> 0 [] p[1] = 3 -> 1 [] p[1] = 6 -> 5,
                       badge |-> 0]]
<1>5. /\ DOMAIN BootHandles = {RootPath, v, u}
      /\ BootHandles[RootPath].type = "CNode"
      /\ BootHandles[v].type = "PageTable" /\ BootHandles[u].type = "Untyped"
  BY <1>4 DEF BootHandles, Handle
<1>6. /\ boot[RootPath] = [type |-> "CNode", obj |-> 0, badge |-> 0]
      /\ boot[v] = [type |-> "PageTable", obj |-> 1, badge |-> 0]
      /\ boot[u] = [type |-> "Untyped", obj |-> 5, badge |-> 0]
  <2>1. RootPath[1] = 2
    BY DEF RootPath
  <2>. HIDE DEF v, u
  <2>. QED  BY <1>4, <1>5, <2>1
<1>7. [h \in DOMAIN handles |-> Meaning(h)] = boot
  BY <1>1, <1>3, <1>5, <1>6
<1>. QED  BY <1>7, Zenon DEF Store!Init

\* The calls of a program that mints into its root CNode implement CapStore: a retype,
\* copy or mint gives one new name, and no call changes what an earlier name means
\* (StoreSpec).
THEOREM StoreCorrect ==
    ASSUME MintsIntoRoot
    PROVE  UserSpec => StoreSpec
<1>1. UInv /\ [UserNext]_uvars => [Store!Next]_([h \in DOMAIN handles |-> Meaning(h)])
  <2>. SUFFICES ASSUME UInv, [UserNext]_uvars
                PROVE  [Store!Next]_([h \in DOMAIN handles |-> Meaning(h)])
    OBVIOUS
  <2>1. CASE UserNext
    BY <2>1, StoreStep
  <2>2. CASE UNCHANGED uvars
    <3>1. slots' = slots /\ handles' = handles
      BY <2>2 DEF uvars
    <3>2. ASSUME NEW h PROVE Meaning(h)' = Meaning(h)
      <4>1. Slot(h)' = Slot(h)
        BY <3>1 DEF Slot, Root, lookup_entry_mut, Filled, Holds
      <4>. QED  BY <3>1, <4>1 DEF Meaning, Filled
    <3>. QED  BY <3>1, <3>2
  <2>. QED  BY <2>1, <2>2
<1>. QED  BY <1>1, StoreInit, UserInvariant, PTL DEF UserSpec, StoreSpec, Store!Spec

=============================================================================
