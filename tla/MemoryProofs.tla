---------------------------- MODULE MemoryProofs ----------------------------
(***************************************************************************)
(* Proofs about the two parts of the kernel that hand out memory: the boot *)
(* code (Boot) and retype (Untyped).                                       *)
(*                                                                         *)
(* Boot: for any image, memory, root CNode and page table format.  The     *)
(* inductive invariant IInv says what every step of the boot code leaves   *)
(* for the next: memory is taken in order, slots are filled in order, and  *)
(* the pages of the image up to (seg, idx) are in place.                   *)
(*                                                                         *)
(* Untyped: for every block, every set of sizes and alignments that fit    *)
(* LayoutAssumption, and every word width, in a build with overflow        *)
(* checks.  That objects lie inside the block is proved for one object at  *)
(* a time, the only way libzoea calls retype; it is false for more.        *)
(***************************************************************************)
EXTENDS Boot, Untyped, NatLemmas

\* The backends of a leaf that names none, in the order they are tried.
USE SMTT(20), ZenonT(10), SMTT(30), SMTT(40), SMTT(50)

-----------------------------------------------------------------------------
(***************************************************************************)
(* The invariant.                                                          *)
(***************************************************************************)

MachineOK == image \in Images /\ ram \in Nat /\ capacity \in Nat

\* BumpAllocator: all that is taken is below start_addr.
MemoryOK ==
    /\ start_addr \in Nat /\ start_addr <= ram
    /\ \A r \in regions : r.start \in Nat /\ r.pages \in Nat /\ r.start + r.pages <= start_addr
    /\ \A r, q \in regions :
        r # q => r.start + r.pages <= q.start \/ q.start + q.pages <= r.start
    /\ pc = "objects" => start_addr = 0 /\ regions = {}
    /\ pc \in {"objects", "panic"} \/ start_addr >= CNodePages + 4

\* RootServerResourceManager: the slots from cnode_start_idx on are empty.
SlotsOK ==
    /\ cnode_start_idx \in Nat /\ cnode_start_idx > ROOT_BOOT_INFO_PAGE
    /\ slots = [i \in 0..(capacity - 1) |-> slots[i]]
    /\ \A i \in 0..(capacity - 1) : i >= cnode_start_idx => slots[i] = None

\* The blocks that BootInfo lists, and all that were made.
ListedBlocks == {Region("untyped", slots[i.idx].frame, i.bits) : i \in Range(boot_info.untyped_infos)}
UntypedBlocks == {r \in regions : r.use = "untyped"}

InfosOK ==
    /\ boot_info \in [untyped_infos : Seq([bits : Nat, idx : Nat]), firtst_empty_idx : Nat,
                      ipc_buffer_addr : Nat, addr : Nat]
    /\ ListedBlocks = UntypedBlocks
    /\ \A i \in Range(boot_info.untyped_infos) :
        i.idx > ROOT_BOOT_INFO_PAGE /\ i.idx < cnode_start_idx /\ i.idx < capacity
    /\ boot_info.untyped_infos # <<>> =>
        pc \in {"untyped", "done", "panic"} /\ boot_info.firtst_empty_idx = cnode_start_idx

\* The part of a segment's file that is left for its page i and the pages after it.
Rest(s, i) == image[s].filesz - PageSize * i

InPlace(s, i) ==
    /\ image[s].vaddr + i \in DOMAIN mapping
    /\ LET frame == mapping[image[s].vaddr + i]
       IN  /\ Region("page", frame, 1) \in regions
           /\ IF Rest(s, i) <= 0 THEN frame \notin DOMAIN content
              ELSE frame \in DOMAIN content /\ content[frame] = <<s, i, Min({PageSize, Rest(s, i)})>>

\* The loops of map_self and map_program: the pages before the current one are in place.
ImageOK ==
    /\ seg \in 1..Len(image) /\ idx \in 0..PageNum(image[seg])
    /\ file_sz_rem = (IF Rest(seg, idx) <= 0 THEN 0 ELSE Rest(seg, idx))
    /\ \A s \in 1..Len(image) : \A i \in 0..(PageNum(image[s]) - 1) :
        s < seg \/ (s = seg /\ i < idx) => InPlace(s, i)

\* The page being mapped has a frame that nothing uses yet.
PageOK ==
    /\ page \in [use : {"elf", "ipc", "info"}, frame : Nat, vaddr : Nat] /\ max_vaddr \in Nat
    /\ \A v \in DOMAIN mapping : mapping[v] \in Nat /\ mapping[v] < start_addr
    /\ \A f \in DOMAIN content : f \in Nat /\ f < start_addr
    /\ pc = "map" /\ page.use = "elf" =>
        /\ idx < PageNum(image[seg]) /\ page.vaddr = image[seg].vaddr + idx
        /\ Region("page", page.frame, 1) \in regions /\ page.frame < start_addr
        /\ page.frame \notin DOMAIN content /\ \A v \in DOMAIN mapping : mapping[v] # page.frame

\* The two frames behind the image.
FramesOK ==
    /\ page.use # "elf" => seg = Len(image) /\ idx = PageNum(image[seg])
    /\ page.use = "ipc" => /\ page.frame = IpcBuf /\ page.vaddr = max_vaddr + 1
                           /\ pc \in {"map", "next", "panic"}
    /\ page.use = "info" => page.frame = BootFrame /\ page.vaddr = max_vaddr + 2
    /\ (page.use = "ipc" /\ pc = "next") \/ page.use = "info" =>
        max_vaddr + 1 \in DOMAIN mapping /\ mapping[max_vaddr + 1] = IpcBuf
    /\ page.use = "info" /\ pc \notin {"map", "panic"} =>
        max_vaddr + 2 \in DOMAIN mapping /\ mapping[max_vaddr + 2] = BootFrame
    /\ pc \in {"tcb", "untyped", "done"} => page.use = "info"
    /\ pc = "done" => boot_info.ipc_buffer_addr = max_vaddr + 1 /\ boot_info.addr = max_vaddr + 2

IInv == MachineOK /\ MemoryOK /\ SlotsOK /\ InfosOK /\ ImageOK /\ PageOK /\ FramesOK

-----------------------------------------------------------------------------
(***************************************************************************)
(* Lemmas about the operators of the model.                                *)
(***************************************************************************)

\* Writing a page table entry or a page adds one element and keeps the others.
LEMMA WithIs ==
    ASSUME NEW f, NEW x, NEW y
    PROVE  /\ DOMAIN With(f, x, y) = DOMAIN f \cup {x}
           /\ With(f, x, y)[x] = y
           /\ \A k \in DOMAIN f : k # x => With(f, x, y)[k] = f[k]
BY DEF With

\* BootInfo's list after add of one more entry.
LEMMA RangeAppend ==
    ASSUME NEW S, NEW s \in Seq(S), NEW e \in S
    PROVE  Range(Append(s, e)) = Range(s) \cup {e}
<1>1. DOMAIN Append(s, e) = 1..(Len(s) + 1) /\ DOMAIN s = 1..Len(s) /\ Len(s) \in Nat
  OBVIOUS
<1>2. \A i \in 1..Len(s) : Append(s, e)[i] = s[i]
  OBVIOUS
<1>3. Append(s, e)[Len(s) + 1] = e
  OBVIOUS
<1>4. \A i \in 1..(Len(s) + 1) : i \in 1..Len(s) \/ i = Len(s) + 1
  BY <1>1
<1>5. Len(s) + 1 \in 1..(Len(s) + 1) /\ 1..Len(s) \subseteq 1..(Len(s) + 1)
  BY <1>1
<1>6. Range(Append(s, e)) \subseteq Range(s) \cup {e}
  <2> SUFFICES ASSUME NEW i \in 1..(Len(s) + 1) PROVE Append(s, e)[i] \in Range(s) \cup {e}
    BY <1>1, Zenon DEF Range
  <2>1. CASE i \in 1..Len(s)
    BY <2>1, <1>1, <1>2, Zenon DEF Range
  <2>2. CASE i = Len(s) + 1
    BY <2>2, <1>3
  <2> QED BY <2>1, <2>2, <1>4
<1>7. e \in Range(Append(s, e))
  BY <1>1, <1>3, <1>5, Zenon DEF Range
<1>8. Range(s) \subseteq Range(Append(s, e))
  <2> SUFFICES ASSUME NEW i \in 1..Len(s) PROVE s[i] \in Range(Append(s, e))
    BY <1>1, Zenon DEF Range
  <2> QED BY <1>1, <1>2, <1>5, Zenon DEF Range
<1> QED BY <1>6, <1>7, <1>8

\* BootInfo with one more block, and with the addresses of the two frames.
LEMMA InfoRecord ==
    ASSUME NEW Q, NEW A \in Q, NEW n \in Nat,
           NEW b \in [untyped_infos : Q, firtst_empty_idx : Nat, ipc_buffer_addr : Nat, addr : Nat]
    PROVE  [b EXCEPT !.untyped_infos = A, !.firtst_empty_idx = n] \in
            [untyped_infos : Q, firtst_empty_idx : Nat, ipc_buffer_addr : Nat, addr : Nat]
BY Zenon

\* Finish writes the addresses of the two frames into BootInfo.
LEMMA AddressRecord ==
    ASSUME NEW Q, NEW m \in Nat, NEW n \in Nat,
           NEW b \in [untyped_infos : Q, firtst_empty_idx : Nat, ipc_buffer_addr : Nat, addr : Nat]
    PROVE  [b EXCEPT !.ipc_buffer_addr = m, !.addr = n] \in
            [untyped_infos : Q, firtst_empty_idx : Nat, ipc_buffer_addr : Nat, addr : Nat]
BY Zenon

\* The number of pages of a segment.
LEMMA PageNumNat ==
    ASSUME NEW m \in Nat, NEW s, s.memsz = m
    PROVE  PageNum(s) \in Nat
<1>1. m + PageSize - 1 \in Nat /\ PageSize \in Nat \ {0}
  BY BootAssumption
<1>2. (m + PageSize - 1) \div PageSize \in Nat
  BY <1>1, DivNat
<1> DEFINE q == (m + PageSize - 1) \div PageSize
<1> HIDE DEF q
<1>3. q * PageSize \in Nat
  BY <1>2, <1>1 DEF q
<1>4. (q * PageSize) \div PageSize \in Nat
  BY <1>3, <1>1, DivNat
<1> QED BY <1>4 DEF q, PageNum, align_up

\* The smallest block of UntypedCapGenerator is one page.
LEMMA PowerZero ==
    2^0 = 1
<1>1. IsFiniteSet({}) /\ Cardinality({}) = 0
  BY FS_EmptySet
<1>2. Cardinality(SUBSET {}) = 2^0
  BY <1>1, FS_SUBSET, Zenon
<1>3. SUBSET {} = {{}}
  OBVIOUS
<1>4. Cardinality({{}}) = 1
  BY Zenon, FS_Singleton
<1> QED BY <1>2, <1>3, <1>4

\* Every size is below some power of two: ilog2 of a size exists.
LEMMA BelowPower ==
    ASSUME NEW n \in Nat
    PROVE  n < 2^n
<1> DEFINE S == {k \in Nat : k < 2^k}
<1>1. 0 \in S
  BY PowerZero
<1>2. ASSUME NEW k \in Nat, k \in S PROVE k + 1 \in S
  <2>1. k < 2^k
    BY <1>2
  <2>2. 2^k \in Nat /\ 2^(k + 1) = 2 * 2^k
    BY PowerOfTwo, PowerSucc
  <2>3. k + 1 < 2^(k + 1)
    BY <2>1, <2>2
  <2> QED BY <2>3
<1> HIDE DEF S
<1>3. Nat \subseteq S
  BY <1>1, <1>2, SetInduction
<1> QED BY <1>3 DEF S

\* UntypedCapGenerator: a block is not larger than the memory that is left, and not empty.
LEMMA BlockFits ==
    ASSUME NEW n \in Nat \ {0}
    PROVE  2^ilog2(n) \in Nat \ {0} /\ 2^ilog2(n) <= n
<1> DEFINE T == {c \in Nat : n < 2^c}
<1>1. n \in T
  BY BelowPower
<1>2. PICK c \in T : \A d \in T : c <= d
  <2> HIDE DEF T
  <2>1. T \subseteq Nat
    BY DEF T
  <2> QED BY Zenon, <1>1, <2>1, LeastNumber
<1>3. c \in Nat /\ n < 2^c /\ c <= n
  BY <1>1, <1>2
<1>4. c # 0
  <2> SUFFICES ASSUME c = 0 PROVE FALSE
    OBVIOUS
  <2>1. 2^c = 1
    BY PowerZero
  <2> QED BY <2>1, <1>3
<1>5. c - 1 \in 0..n /\ (c - 1) + 1 = c
  BY <1>3, <1>4
<1>6. c - 1 \notin T
  BY <1>2, <1>5
<1>7. 2^(c - 1) \in Nat
  BY <1>5, PowerOfTwo
<1>8. 2^(c - 1) <= n
  BY <1>5, <1>6, <1>7
<1>9. \E b \in 0..n : 2^b <= n /\ n < 2^(b + 1)
  BY <1>3, <1>5, <1>8
<1>10. ilog2(n) \in 0..n /\ 2^ilog2(n) <= n
  BY <1>9 DEF ilog2
<1>11. 2^ilog2(n) \in Nat \ {0}
  BY <1>10, PowerOfTwo
<1> QED BY <1>10, <1>11

\* An element of a list, of segments or of BootInfo entries.
LEMMA ElementOf ==
    ASSUME NEW R, NEW s \in Seq(R), NEW i \in 1..Len(s)
    PROVE  s[i] \in R
OBVIOUS

\* The sizes of the image that boots.
LEMMA ImageFacts ==
    ASSUME MachineOK
    PROVE  /\ Len(image) \in Nat \ {0} /\ DOMAIN image = 1..Len(image)
           /\ \A s \in 1..Len(image) :
                /\ image[s].vaddr \in Nat /\ image[s].filesz \in Nat
                /\ PageNum(image[s]) \in Nat
           /\ PageSize \in Nat \ {0} /\ CNodePages \in Nat \ {0}
<1>1. image \in Seq([vaddr : Nat, memsz : Nat, filesz : Nat]) /\ Len(image) > 0
  BY BootAssumption, Zenon DEF MachineOK
<1>2. \A s \in 1..Len(image) : image[s] \in [vaddr : Nat, memsz : Nat, filesz : Nat]
  BY Zenon, <1>1, ElementOf
<1>3. \A s \in 1..Len(image) : PageNum(image[s]) \in Nat
  <2> TAKE s \in 1..Len(image)
  <2>1. image[s].memsz \in Nat
    BY <1>2
  <2> QED BY <2>1, PageNumNat
<1> QED BY <1>1, <1>2, <1>3, BootAssumption

-----------------------------------------------------------------------------
(***************************************************************************)
(* What the helpers of the boot code keep.                                 *)
(***************************************************************************)

\* allocate_pages takes memory that was free.
LEMMA Allocates ==
    ASSUME MemoryOK, MachineOK, NEW use, NEW n \in Nat, EnoughPages(n), allocate_pages(use, n),
           ram' = ram, pc \notin {"objects", "panic"}, pc' # "objects"
    PROVE  MemoryOK'
<1>1. start_addr' = start_addr + n /\ start_addr \in Nat /\ start_addr' \in Nat /\ start_addr' <= ram'
  BY DEF MemoryOK, MachineOK, EnoughPages, allocate_pages
<1>2. regions' = regions \cup {Region(use, start_addr, n)}
  BY DEF allocate_pages
<1> DEFINE new == Region(use, start_addr, n)
<1>3. new.start = start_addr /\ new.pages = n
  BY DEF Region
<1> HIDE DEF new
<1>4. ASSUME NEW r \in regions
      PROVE  /\ r.start \in Nat /\ r.pages \in Nat /\ r.start + r.pages <= start_addr
  BY <1>4 DEF MemoryOK
<1>5. ASSUME NEW r \in regions'
      PROVE  r.start \in Nat /\ r.pages \in Nat /\ r.start + r.pages <= start_addr'
  <2>1. CASE r \in regions
    BY <2>1, <1>1, <1>4
  <2>2. CASE r = new
    BY <2>2, <1>1, <1>3
  <2> QED BY <2>1, <2>2, <1>2 DEF new
<1>6. ASSUME NEW r \in regions', NEW q \in regions', r # q
      PROVE  r.start + r.pages <= q.start \/ q.start + q.pages <= r.start
  <2>1. CASE r \in regions /\ q \in regions
    BY <2>1, <1>6 DEF MemoryOK
  <2>2. CASE r \in regions /\ q = new
    BY <2>2, <1>4, <1>3
  <2>3. CASE r = new /\ q \in regions
    BY <2>3, <1>4, <1>3
  <2> QED BY <2>1, <2>2, <2>3, <1>2, <1>6 DEF new
<1>7. start_addr' >= CNodePages + 4
  BY <1>1, BootAssumption DEF MemoryOK
<1> QED BY <1>1, <1>5, <1>6, <1>7 DEF MemoryOK

\* A slot with a fixed index is none of those that are given out in order.
LEMMA WritesFixed ==
    ASSUME SlotsOK, MachineOK, NEW cap, NEW i \in 0..ROOT_BOOT_INFO_PAGE, write_slot(cap, i),
           cnode_start_idx' = cnode_start_idx, capacity' = capacity
    PROVE  SlotsOK'
<1>1. slots = [k \in 0..(capacity - 1) |-> slots[k]] /\ slots' = [slots EXCEPT ![i] = cap]
  BY DEF SlotsOK, write_slot
<1>2. slots' = [k \in 0..(capacity - 1) |-> slots'[k]]
  BY Zenon, <1>1
<1>3. \A k \in 0..(capacity - 1) : k # i => slots'[k] = slots[k]
  BY <1>1
<1>4. ASSUME NEW k \in 0..(capacity - 1), k >= cnode_start_idx PROVE slots'[k] = None
  <2>1. k # i /\ slots[k] = None
    BY <1>4 DEF SlotsOK, ROOT_BOOT_INFO_PAGE, MachineOK
  <2> QED BY <2>1, <1>3
<1> QED BY <1>2, <1>4 DEF SlotsOK

\* alloc_cnode_idx and write_slot: the next slot is filled and the ones after it stay empty.
LEMMA WritesNext ==
    ASSUME SlotsOK, MachineOK, NEW cap, write_slot(cap, cnode_start_idx), EnoughSlots,
           cnode_start_idx' = cnode_start_idx + 1, capacity' = capacity
    PROVE  /\ SlotsOK' /\ slots'[cnode_start_idx] = cap
           /\ \A k \in 0..(cnode_start_idx - 1) : slots'[k] = slots[k]
<1>1. slots = [k \in 0..(capacity - 1) |-> slots[k]] /\ slots' = [slots EXCEPT ![cnode_start_idx] = cap]
  BY DEF SlotsOK, write_slot
<1>2. slots' = [k \in 0..(capacity - 1) |-> slots'[k]]
  BY Zenon, <1>1
<1>3. \A k \in 0..(capacity - 1) : k # cnode_start_idx => slots'[k] = slots[k]
  BY <1>1
<1>4. cnode_start_idx \in 0..(capacity - 1) /\ cnode_start_idx \in Nat /\ capacity \in Nat
  BY DEF SlotsOK, EnoughSlots, MachineOK
<1>5. slots'[cnode_start_idx] = cap
  BY <1>1, <1>4
<1>6. \A k \in 0..(cnode_start_idx - 1) : slots'[k] = slots[k]
  BY <1>3, <1>4
<1>7. ASSUME NEW k \in 0..(capacity - 1), k >= cnode_start_idx + 1 PROVE slots'[k] = None
  <2>1. k # cnode_start_idx /\ slots[k] = None
    BY <1>7, <1>4 DEF SlotsOK
  <2> QED BY <2>1, <1>3
<1>8. cnode_start_idx' \in Nat /\ cnode_start_idx' > ROOT_BOOT_INFO_PAGE
  BY <1>4 DEF SlotsOK, ROOT_BOOT_INFO_PAGE
<1>9. SlotsOK'
  BY <1>2, <1>7, <1>8 DEF SlotsOK
<1> QED BY <1>5, <1>6, <1>9

\* Before the untyped blocks are made there are none and BootInfo lists none.
LEMMA NoInfos ==
    ASSUME InfosOK, pc \notin {"untyped", "done", "panic"}
    PROVE  boot_info.untyped_infos = <<>> /\ UntypedBlocks = {}
<1>1. boot_info.untyped_infos = <<>>
  BY DEF InfosOK
<1>2. Range(<<>>) = {}
  BY DEF Range
<1>3. ListedBlocks = {}
  BY <1>1, <1>2 DEF ListedBlocks
<1> QED BY <1>1, <1>3 DEF InfosOK

\* Steps before that allocate nothing untyped.
LEMMA InfosKept ==
    ASSUME InfosOK, pc \notin {"untyped", "done", "panic"}, boot_info' = boot_info,
           \A r \in regions' : r \in regions \/ r.use # "untyped"
    PROVE  InfosOK'
<1>1. boot_info'.untyped_infos = <<>> /\ UntypedBlocks = {}
  BY NoInfos
<1>2. UntypedBlocks' = {}
  BY <1>1 DEF UntypedBlocks
<1>3. Range(<<>>) = {}
  BY DEF Range
<1>4. ListedBlocks' = {}
  BY <1>1, <1>3 DEF ListedBlocks
<1> QED BY <1>1, <1>2, <1>3, <1>4 DEF InfosOK

\* Pages stay in place when nothing is mapped.
LEMMA ImageKept ==
    ASSUME ImageOK, image' = image, seg' = seg, idx' = idx, file_sz_rem' = file_sz_rem,
           mapping' = mapping, content' = content, regions \subseteq regions'
    PROVE  ImageOK'
<1>1. ASSUME NEW s, NEW i, InPlace(s, i) PROVE InPlace(s, i)'
  BY <1>1 DEF InPlace, Rest
<1> QED BY <1>1 DEF ImageOK, Rest

\* Steps that map nothing and leave the page being mapped alone.
LEMMA PageKept ==
    ASSUME PageOK, MemoryOK, page' = page, max_vaddr' = max_vaddr, mapping' = mapping, content' = content,
           start_addr' \in Nat, start_addr <= start_addr', regions \subseteq regions',
           image' = image, seg' = seg, idx' = idx, pc' # "map" \/ pc = "map"
    PROVE  PageOK'
<1>1. start_addr \in Nat
  BY DEF MemoryOK
<1>2. \A v \in DOMAIN mapping' : mapping'[v] \in Nat /\ mapping'[v] < start_addr'
  BY <1>1 DEF PageOK
<1>3. \A f \in DOMAIN content' : f \in Nat /\ f < start_addr'
  BY <1>1 DEF PageOK
<1>4. page \in [use : {"elf", "ipc", "info"}, frame : Nat, vaddr : Nat]
  BY DEF PageOK
<1>5. page.frame \in Nat
  BY <1>4
<1>6. page.frame < start_addr => page.frame < start_addr'
  BY <1>1, <1>5
<1> QED BY <1>2, <1>3, <1>4, <1>6 DEF PageOK

\* A page that is in place stays there when another address is mapped to a frame that
\* was not in use, and that frame is filled.
LEMMA InPlaceStays ==
    ASSUME NEW s, NEW i, InPlace(s, i), NEW v, NEW f, NEW x,
           v \notin DOMAIN mapping, mapping' = With(mapping, v, f),
           \/ content' = content
           \/ content' = With(content, f, x) /\ \A w \in DOMAIN mapping : mapping[w] # f,
           image' = image, regions' = regions
    PROVE  InPlace(s, i)'
<1> DEFINE w == image[s].vaddr + i
<1>1. w \in DOMAIN mapping /\ w # v
  BY DEF InPlace
<1>2. w \in DOMAIN mapping' /\ mapping'[w] = mapping[w]
  BY <1>1 DEF With
<1> DEFINE frame == mapping[w]
<1>3. /\ frame \in DOMAIN content' <=> frame \in DOMAIN content
      /\ frame \in DOMAIN content => content'[frame] = content[frame]
  <2>1. CASE content' = content
    BY <2>1
  <2>2. CASE content' = With(content, f, x) /\ \A u \in DOMAIN mapping : mapping[u] # f
    <3>1. frame # f
      BY <2>2, <1>1
    <3> QED BY <2>2, <3>1 DEF With
  <2> QED BY <2>1, <2>2
<1>4. Rest(s, i)' = Rest(s, i)
  BY DEF Rest
<1>5. Region("page", frame, 1) \in regions'
  BY DEF InPlace
<1>6. Rest(s, i) <= 0 => frame \notin DOMAIN content'
  BY <1>3 DEF InPlace
<1>7. ~(Rest(s, i) <= 0) =>
        frame \in DOMAIN content' /\ content'[frame] = <<s, i, Min({PageSize, Rest(s, i)})>>
  BY <1>3 DEF InPlace
<1> HIDE DEF frame
<1>8. image'[s].vaddr + i = w /\ mapping'[w] = frame
  BY <1>2 DEF frame
<1> HIDE DEF w
<1> QED BY <1>2, <1>4, <1>5, <1>6, <1>7, <1>8 DEF InPlace

-----------------------------------------------------------------------------
(***************************************************************************)
(* Every step keeps the invariant.                                         *)
(***************************************************************************)

\* A panic leaves everything as it is.
LEMMA PanicKeeps ==
    ASSUME IInv, NEW reason, Panics(reason)
    PROVE  IInv'
<1> USE DEF Panics, machine, memory, cnode, space, elf
<1>1. MachineOK'
  BY DEF IInv, MachineOK
<1>2. MemoryOK'
  BY DEF IInv, MemoryOK
<1>3. SlotsOK'
  BY DEF IInv, SlotsOK
<1>4. InfosOK'
  <2>1. ListedBlocks' = ListedBlocks /\ UntypedBlocks' = UntypedBlocks
    BY DEF ListedBlocks, UntypedBlocks
  <2> QED BY <2>1 DEF IInv, InfosOK
<1>5. ImageOK'
  BY ImageKept DEF IInv
<1>6. PageOK'
  <2>1. start_addr' \in Nat /\ start_addr <= start_addr'
    BY DEF IInv, MemoryOK
  <2> QED BY <2>1, PageKept DEF IInv
<1>7. FramesOK'
  BY DEF IInv, FramesOK
<1> QED BY <1>1, <1>2, <1>3, <1>4, <1>5, <1>6, <1>7 DEF IInv

\* init_with_uninit: the five objects lie side by side at the start of the memory.
LEMMA ObjectsKeep ==
    ASSUME IInv, init_with_uninit
    PROVE  IInv'
<1>1. CASE ~EnoughPages(CNodePages + 4)
  BY <1>1, PanicKeeps DEF init_with_uninit
<1>2. CASE EnoughPages(CNodePages + 4)
  <2> DEFINE root == Region("CNode", 0, CNodePages)
             frames == {Vspace, Tcb, IpcBuf, BootFrame}
  <2>1. /\ regions' = {root} \cup {Region("object", f, 1) : f \in frames}
        /\ start_addr' = CNodePages + 4 /\ pc = "objects" /\ pc' = "cnode"
        /\ UNCHANGED <<machine, cnode, space, elf, page, boot_info, panic>>
    BY <1>2 DEF init_with_uninit
  <2>2. start_addr = 0 /\ regions = {} /\ CNodePages \in Nat \ {0} /\ ram \in Nat
    BY <2>1, BootAssumption DEF IInv, MemoryOK, MachineOK
  <2>3. MachineOK'
    BY <2>1 DEF IInv, MachineOK, machine
  <2>4. MemoryOK'
    <3>1. start_addr' \in Nat /\ start_addr' <= ram'
      BY <1>2, <2>1, <2>2 DEF EnoughPages, machine
    <3>2. root.start = 0 /\ root.pages = CNodePages
      BY DEF Region
    <3>3. \A f : Region("object", f, 1).start = f /\ Region("object", f, 1).pages = 1
      BY DEF Region
    <3>4. \A f \in frames : f \in Nat /\ f >= CNodePages /\ f + 1 <= CNodePages + 4
      BY <2>2 DEF Vspace, Tcb, IpcBuf, BootFrame
    <3>5. ASSUME NEW r \in regions' PROVE r = root \/ \E f \in frames : r = Region("object", f, 1)
      BY <2>1
    <3> HIDE DEF root, frames
    <3>6. ASSUME NEW r \in regions'
          PROVE  r.start \in Nat /\ r.pages \in Nat /\ r.start + r.pages <= start_addr'
      BY <2>1, <2>2, <3>2, <3>3, <3>4, <3>5
    <3>7. ASSUME NEW r \in regions', NEW q \in regions', r # q
          PROVE  r.start + r.pages <= q.start \/ q.start + q.pages <= r.start
      <4>1. CASE r = root
        <5>1. PICK f \in frames : q = Region("object", f, 1)
          BY <4>1, <3>5, <3>7
        <5> QED BY <4>1, <5>1, <3>2, <3>3, <3>4, <2>2
      <4>2. CASE q = root
        <5>1. PICK f \in frames : r = Region("object", f, 1)
          BY <4>2, <3>5, <3>7
        <5> QED BY <4>2, <5>1, <3>2, <3>3, <3>4, <2>2
      <4>3. CASE r # root /\ q # root
        <5>1. PICK f \in frames : r = Region("object", f, 1)
          BY <4>3, <3>5
        <5>2. PICK g \in frames : q = Region("object", g, 1)
          BY <4>3, <3>5
        <5>3. f # g /\ f \in Nat /\ g \in Nat
          BY <5>1, <5>2, <3>7, <3>4
        <5> QED BY <5>1, <5>2, <5>3, <3>3
      <4> QED BY <4>1, <4>2, <4>3
    <3> QED BY <2>1, <2>2, <3>1, <3>6, <3>7 DEF MemoryOK
  <2>5. SlotsOK'
    BY <2>1 DEF IInv, SlotsOK, cnode, machine
  <2>6. InfosOK'
    <3>1. \A r \in regions' : r.use # "untyped"
      BY <2>1 DEF Region
    <3> QED BY <2>1, <3>1, InfosKept DEF IInv
  <2>7. ImageOK'
    BY <2>1, <2>2, ImageKept DEF IInv, machine, elf, space
  <2>8. PageOK'
    BY <2>1, <2>2, PageKept DEF IInv, machine, elf, space
  <2>9. FramesOK'
    BY <2>1 DEF IInv, FramesOK, machine, elf, space
  <2> QED BY <2>3, <2>4, <2>5, <2>6, <2>7, <2>8, <2>9 DEF IInv
<1> QED BY <1>1, <1>2

\* create_root_cnode fills a fixed slot.
LEMMA RootCNodeKeeps ==
    ASSUME IInv, create_root_cnode
    PROVE  IInv'
<1>1. /\ pc = "cnode" /\ pc' = "vspace"
      /\ UNCHANGED <<machine, memory, cnode_start_idx, space, elf, page, boot_info, panic>>
  BY DEF create_root_cnode
<1> USE DEF machine, memory, space, elf
<1>2. MachineOK'
  BY <1>1 DEF IInv, MachineOK
<1>3. MemoryOK'
  BY <1>1 DEF IInv, MemoryOK
<1>4. SlotsOK'
  <2>1. ROOT_CNODE_IDX \in 0..ROOT_BOOT_INFO_PAGE
    BY DEF ROOT_CNODE_IDX, ROOT_BOOT_INFO_PAGE
  <2>2. write_slot(Cap("CNode", 0, FALSE), ROOT_CNODE_IDX)
    BY Zenon DEF create_root_cnode
  <2> QED BY Zenon, <1>1, <2>1, <2>2, WritesFixed DEF IInv
<1>5. InfosOK'
  BY <1>1, InfosKept DEF IInv
<1>6. ImageOK'
  BY <1>1, ImageKept DEF IInv
<1>7. PageOK'
  <2>1. start_addr' \in Nat /\ start_addr <= start_addr'
    BY <1>1 DEF IInv, MemoryOK
  <2> QED BY <1>1, <2>1, PageKept DEF IInv
<1>8. FramesOK'
  BY <1>1 DEF IInv, FramesOK
<1> QED BY <1>2, <1>3, <1>4, <1>5, <1>6, <1>7, <1>8 DEF IInv

\* create_address_space fills a fixed slot.
LEMMA AddressSpaceKeeps ==
    ASSUME IInv, create_address_space
    PROVE  IInv'
<1>1. /\ pc = "vspace" /\ pc' = "next"
      /\ UNCHANGED <<machine, memory, cnode_start_idx, space, elf, page, boot_info, panic>>
  BY DEF create_address_space
<1> USE DEF machine, memory, space, elf
<1>2. MachineOK'
  BY <1>1 DEF IInv, MachineOK
<1>3. MemoryOK'
  BY <1>1 DEF IInv, MemoryOK
<1>4. SlotsOK'
  <2>1. ROOT_VSPACE_IDX \in 0..ROOT_BOOT_INFO_PAGE
    BY DEF ROOT_VSPACE_IDX, ROOT_BOOT_INFO_PAGE
  <2>2. write_slot(Cap("PageTable", Vspace, TRUE), ROOT_VSPACE_IDX)
    BY Zenon DEF create_address_space
  <2> QED BY Zenon, <1>1, <2>1, <2>2, WritesFixed DEF IInv
<1>5. InfosOK'
  BY <1>1, InfosKept DEF IInv
<1>6. ImageOK'
  BY <1>1, ImageKept DEF IInv
<1>7. PageOK'
  <2>1. start_addr' \in Nat /\ start_addr <= start_addr'
    BY <1>1 DEF IInv, MemoryOK
  <2> QED BY <1>1, <2>1, PageKept DEF IInv
<1>8. FramesOK'
  BY <1>1 DEF IInv, FramesOK
<1> QED BY <1>2, <1>3, <1>4, <1>5, <1>6, <1>7, <1>8 DEF IInv

\* map_program: the new frame is none that is mapped or filled.
LEMMA MapProgramKeeps ==
    ASSUME IInv, MapProgram
    PROVE  IInv'
<1>1. CASE ~EnoughPages(1)
  BY <1>1, PanicKeeps DEF MapProgram
<1>2. CASE EnoughPages(1)
  <2>1. /\ pc = "next" /\ pc' = "map" /\ idx < PageNum(image[seg])
        /\ allocate_pages("page", 1)
        /\ page' = [use |-> "elf", frame |-> start_addr, vaddr |-> image[seg].vaddr + idx]
        /\ max_vaddr' = MaxVaddr(image[seg].vaddr + idx)
        /\ UNCHANGED <<machine, cnode, space, seg, idx, file_sz_rem, boot_info, panic>>
    BY <1>2 DEF MapProgram
  <2> USE DEF machine, cnode, space
  <2>2. /\ regions' = regions \cup {Region("page", start_addr, 1)} /\ start_addr' = start_addr + 1
        /\ start_addr \in Nat
    BY <2>1 DEF allocate_pages, IInv, MemoryOK
  <2>3. MachineOK'
    BY <2>1 DEF IInv, MachineOK
  <2>4. MemoryOK'
    BY <1>2, <2>1, Allocates DEF IInv
  <2>5. SlotsOK'
    BY <2>1 DEF IInv, SlotsOK
  <2>6. InfosOK'
    <3>1. \A r \in regions' : r \in regions \/ r.use # "untyped"
      BY <2>2 DEF Region
    <3> QED BY <2>1, <3>1, InfosKept DEF IInv
  <2>7. ImageOK'
    BY ZenonT(20), <2>1, <2>2, ImageKept DEF IInv
  <2>8. PageOK'
    <3>1. seg \in 1..Len(image) /\ idx \in Nat /\ image[seg].vaddr \in Nat
      <4>1. seg \in 1..Len(image) /\ idx \in 0..PageNum(image[seg])
        BY DEF IInv, ImageOK
      <4> QED BY <4>1, ImageFacts DEF IInv
    <3> DEFINE vaddr == image[seg].vaddr + idx
    <3>2. vaddr \in Nat
      BY <3>1
    <3> HIDE DEF vaddr
    <3>3. page' = [use |-> "elf", frame |-> start_addr, vaddr |-> vaddr] /\ max_vaddr' = MaxVaddr(vaddr)
      BY <2>1 DEF vaddr
    <3>4. max_vaddr' \in Nat
      BY <3>2, <3>3 DEF MaxVaddr, IInv, PageOK
    <3>5. page' \in [use : {"elf", "ipc", "info"}, frame : Nat, vaddr : Nat]
      BY <2>2, <3>2, <3>3
    <3>6. /\ \A v \in DOMAIN mapping : mapping[v] \in Nat /\ mapping[v] < start_addr
          /\ \A f \in DOMAIN content : f \in Nat /\ f < start_addr
      BY DEF IInv, PageOK
    <3>7. start_addr \notin DOMAIN content /\ \A v \in DOMAIN mapping : mapping[v] # start_addr
      BY <2>2, <3>6
    <3>8. page'.frame = start_addr /\ page'.vaddr = vaddr
      BY <3>3
    <3>9. /\ \A v \in DOMAIN mapping' : mapping'[v] \in Nat /\ mapping'[v] < start_addr'
          /\ \A f \in DOMAIN content' : f \in Nat /\ f < start_addr'
      BY <2>1, <2>2, <3>6
    <3>10. Region("page", page'.frame, 1) \in regions' /\ page'.frame < start_addr'
      BY <2>2, <3>8
    <3>11. /\ idx' < PageNum(image'[seg']) /\ page'.vaddr = image'[seg'].vaddr + idx'
           /\ page'.frame \notin DOMAIN content'
           /\ \A v \in DOMAIN mapping' : mapping'[v] # page'.frame
      BY <2>1, <3>7, <3>8 DEF vaddr
    <3> QED BY <3>4, <3>5, <3>9, <3>10, <3>11 DEF PageOK
  <2>9. FramesOK'
    <3>1. page'.use = "elf"
      BY <2>1
    <3> QED BY <2>1, <3>1 DEF FramesOK
  <2> QED BY <2>3, <2>4, <2>5, <2>6, <2>7, <2>8, <2>9 DEF IInv
<1> QED BY <1>1, <1>2

\* map_self: the segment is complete, and the next one begins with its whole file.
LEMMA NextSegmentKeeps ==
    ASSUME IInv, NextSegment
    PROVE  IInv'
<1>1. /\ pc = "next" /\ idx = PageNum(image[seg]) /\ seg < Len(image)
      /\ seg' = seg + 1 /\ idx' = 0 /\ file_sz_rem' = image[seg + 1].filesz
      /\ UNCHANGED <<machine, memory, cnode, space, max_vaddr, pc, page, boot_info, panic>>
  BY DEF NextSegment
<1> USE DEF machine, memory, cnode, space
<1>2. /\ seg \in 1..Len(image) /\ Len(image) \in Nat /\ PageSize \in Nat
      /\ \A s \in 1..Len(image) : image[s].filesz \in Nat /\ PageNum(image[s]) \in Nat
  BY ZenonT(20), ImageFacts DEF IInv, ImageOK
<1>3. seg + 1 \in 1..Len(image) /\ seg \in Nat
  BY <1>1, <1>2
<1>4. MachineOK'
  BY <1>1 DEF IInv, MachineOK
<1>5. MemoryOK'
  BY <1>1 DEF IInv, MemoryOK
<1>6. SlotsOK'
  BY <1>1 DEF IInv, SlotsOK
<1>7. InfosOK'
  BY <1>1, InfosKept DEF IInv
<1>8. ImageOK'
  <2>1. seg' \in 1..Len(image') /\ idx' \in 0..PageNum(image'[seg'])
    <3>1. PageNum(image[seg + 1]) \in Nat
      BY <1>2, <1>3
    <3> QED BY <1>1, <1>3, <3>1
  <2>2. file_sz_rem' = (IF Rest(seg, idx)' <= 0 THEN 0 ELSE Rest(seg, idx)')
    <3>1. Rest(seg, idx)' = image[seg + 1].filesz - PageSize * 0
      BY <1>1 DEF Rest
    <3>2. image[seg + 1].filesz \in Nat /\ PageSize * 0 = 0
      BY <1>2, <1>3
    <3> QED BY <1>1, <3>1, <3>2
  <2>3. ASSUME NEW s \in 1..Len(image), NEW i \in 0..(PageNum(image[s]) - 1),
               s < seg' \/ (s = seg' /\ i < idx')
        PROVE  InPlace(s, i)'
    <3>1. s < seg \/ (s = seg /\ i < idx)
      <4>1. s \in Nat /\ i \in Nat /\ (s < seg + 1 \/ (s = seg + 1 /\ i < 0))
        BY <1>1, <1>2, <1>3, <2>3
      <4>2. s < seg \/ s = seg
        BY <1>3, <4>1
      <4>3. s = seg => i < PageNum(image[seg])
        BY <1>2
      <4> QED BY <1>1, <4>2, <4>3
    <3>2. InPlace(s, i)
      BY <3>1 DEF IInv, ImageOK
    <3> QED BY Zenon, <1>1, <3>2 DEF InPlace, Rest
  <2> QED BY <1>1, <2>1, <2>2, <2>3 DEF ImageOK
<1>9. PageOK'
  BY <1>1 DEF IInv, PageOK
<1>10. FramesOK'
  <2>1. page.use = "elf"
    <3>1. page \in [use : {"elf", "ipc", "info"}, frame : Nat, vaddr : Nat]
      BY DEF IInv, PageOK
    <3> QED BY <1>1, <1>2, <3>1 DEF IInv, FramesOK
  <2> QED BY <1>1, <2>1 DEF FramesOK
<1> QED BY <1>4, <1>5, <1>6, <1>7, <1>8, <1>9, <1>10 DEF IInv

\* create_ipc_buf_frame and create_boot_info_frame come after the last page of the image.
LEMMA MapFramesKeeps ==
    ASSUME IInv, MapFrames
    PROVE  IInv'
<1>1. /\ pc = "next" /\ idx = PageNum(image[seg]) /\ seg = Len(image)
      /\ UNCHANGED <<machine, memory, cnode, space, elf, boot_info, panic>>
  BY DEF MapFrames
<1>2. \/ /\ page.use = "elf" /\ pc' = "map"
         /\ page' = [use |-> "ipc", frame |-> IpcBuf, vaddr |-> max_vaddr + 1]
      \/ /\ page.use = "ipc" /\ pc' = "map"
         /\ page' = [use |-> "info", frame |-> BootFrame, vaddr |-> max_vaddr + 2]
      \/ page.use = "info" /\ pc' = "tcb" /\ page' = page
  <2>1. page \in [use : {"elf", "ipc", "info"}, frame : Nat, vaddr : Nat]
    BY DEF IInv, PageOK
  <2> QED BY <2>1 DEF MapFrames
<1> USE DEF machine, memory, cnode, space, elf
<1>3. MachineOK'
  BY <1>1 DEF IInv, MachineOK
<1>4. MemoryOK'
  BY <1>1, <1>2 DEF IInv, MemoryOK
<1>5. SlotsOK'
  BY <1>1 DEF IInv, SlotsOK
<1>6. InfosOK'
  BY <1>1, InfosKept DEF IInv
<1>7. ImageOK'
  BY <1>1, ImageKept DEF IInv
<1>8. PageOK'
  <2>1. max_vaddr \in Nat /\ IpcBuf \in Nat /\ BootFrame \in Nat
    BY BootAssumption DEF IInv, PageOK, IpcBuf, BootFrame
  <2>2. page' \in [use : {"elf", "ipc", "info"}, frame : Nat, vaddr : Nat]
    BY <1>2, <2>1 DEF IInv, PageOK
  <2>3. pc' = "map" => page'.use # "elf"
    BY <1>2
  <2> QED BY <1>1, <2>1, <2>2, <2>3 DEF IInv, PageOK
<1>9. FramesOK'
  <2>1. CASE page.use = "elf"
    BY <1>1, <1>2, <2>1 DEF FramesOK
  <2>2. CASE page.use = "ipc"
    BY <1>1, <1>2, <2>2 DEF IInv, FramesOK
  <2>3. CASE page.use = "info"
    BY <1>1, <1>2, <2>3 DEF IInv, FramesOK
  <2> QED BY <1>2, <2>1, <2>2, <2>3
<1> QED BY <1>3, <1>4, <1>5, <1>6, <1>7, <1>8, <1>9 DEF IInv

\* map_page_tables: a new table takes a page and a slot.
LEMMA MapPageTableKeeps ==
    ASSUME IInv, MapPageTable
    PROVE  IInv'
<1>1. CASE ~EnoughPages(1) \/ ~EnoughSlots \/ ~CanWrite(cnode_start_idx)
  BY Zenon, <1>1, PanicKeeps DEF MapPageTable
<1>2. CASE EnoughPages(1) /\ EnoughSlots /\ CanWrite(cnode_start_idx)
  <2>1. /\ pc = "map" /\ allocate_pages("table", 1)
        /\ write_slot(Cap("PageTable", start_addr, FALSE), cnode_start_idx)
        /\ cnode_start_idx' = cnode_start_idx + 1
        /\ UNCHANGED <<machine, mapping, content, elf, pc, page, boot_info, panic>>
    BY Zenon, <1>2 DEF MapPageTable
  <2> USE DEF machine, elf
  <2>2. /\ regions' = regions \cup {Region("table", start_addr, 1)} /\ start_addr' = start_addr + 1
        /\ start_addr \in Nat
    BY <2>1 DEF allocate_pages, IInv, MemoryOK
  <2>3. MachineOK'
    BY <2>1 DEF IInv, MachineOK
  <2>4. MemoryOK'
    BY <1>2, <2>1, Allocates DEF IInv
  <2>5. SlotsOK'
    BY Zenon, <1>2, <2>1, WritesNext DEF IInv
  <2>6. InfosOK'
    <3>1. \A r \in regions' : r \in regions \/ r.use # "untyped"
      BY <2>2 DEF Region
    <3> QED BY <2>1, <3>1, InfosKept DEF IInv
  <2>7. ImageOK'
    BY <2>1, <2>2, ImageKept DEF IInv
  <2>8. PageOK'
    <3>1. start_addr' \in Nat /\ start_addr <= start_addr'
      BY <2>2
    <3> QED BY <2>1, <2>2, <3>1, PageKept DEF IInv
  <2>9. FramesOK'
    BY ZenonT(20), <2>1 DEF IInv, FramesOK
  <2> QED BY <2>3, <2>4, <2>5, <2>6, <2>7, <2>8, <2>9 DEF IInv
<1> QED BY <1>1, <1>2

\* map_page of a page of the image: the page is in place with its part of the file.
LEMMA ElfPageInPlace ==
    ASSUME IInv, pc = "map", page.use = "elf", page.vaddr \notin DOMAIN mapping,
           mapping' = With(mapping, page.vaddr, page.frame),
           content' = IF file_sz_rem = 0 THEN content
                      ELSE With(content, page.frame, <<seg, idx, Min({PageSize, file_sz_rem})>>),
           image' = image, seg' = seg, idx' = idx + 1, file_sz_rem' = RestOfFile, regions' = regions
    PROVE  ImageOK'
<1>1. /\ idx < PageNum(image[seg]) /\ page.vaddr = image[seg].vaddr + idx
      /\ Region("page", page.frame, 1) \in regions
      /\ page.frame \notin DOMAIN content /\ \A v \in DOMAIN mapping : mapping[v] # page.frame
  BY DEF IInv, PageOK
<1>2. /\ seg \in 1..Len(image) /\ idx \in 0..PageNum(image[seg])
      /\ file_sz_rem = (IF Rest(seg, idx) <= 0 THEN 0 ELSE Rest(seg, idx))
  BY DEF IInv, ImageOK
<1>3. /\ PageSize \in Nat \ {0} /\ image[seg].filesz \in Nat /\ PageNum(image[seg]) \in Nat
      /\ idx \in Nat
  BY <1>2, ImageFacts DEF IInv
<1>4. Rest(seg, idx) \in Int
  BY <1>3 DEF Rest
<1>5. idx' \in 0..PageNum(image'[seg'])
  BY <1>1, <1>3
<1>6. file_sz_rem' = (IF Rest(seg, idx)' <= 0 THEN 0 ELSE Rest(seg, idx)')
  <2>1. Rest(seg, idx)' = image[seg].filesz - PageSize * (idx + 1)
    BY DEF Rest
  <2>2. PageSize * (idx + 1) = PageSize * idx + PageSize
    BY <1>3
  <2>3. Rest(seg, idx)' = Rest(seg, idx) - PageSize
    BY <1>3, <2>1, <2>2 DEF Rest
  <2> QED BY <1>2, <1>3, <1>4, <2>3 DEF RestOfFile
<1>7. ASSUME NEW s, NEW i, s = seg, i = idx PROVE InPlace(s, i)'
  <2>1. page.vaddr \in DOMAIN mapping' /\ mapping'[page.vaddr] = page.frame
    BY DEF With
  <2>2. image'[s].vaddr + i = page.vaddr
    BY <1>1, <1>7
  <2>3. Rest(s, i)' = Rest(s, i) /\ Rest(s, i) = Rest(seg, idx)
    BY <1>7 DEF Rest
  <2>4. Rest(s, i) <= 0 => page.frame \notin DOMAIN content'
    BY <1>1, <1>2, <2>3
  <2>5. ASSUME ~(Rest(s, i) <= 0)
        PROVE  /\ page.frame \in DOMAIN content'
               /\ content'[page.frame] = <<s, i, Min({PageSize, Rest(s, i)})>>
    <3>1. file_sz_rem = Rest(s, i) /\ file_sz_rem # 0
      BY <1>2, <1>4, <2>3, <2>5
    <3>2. content' = With(content, page.frame, <<s, i, Min({PageSize, Rest(s, i)})>>)
      BY <1>7, <3>1, ZenonT(20)
    <3> QED BY <3>2 DEF With
  <2>6. Region("page", page.frame, 1) \in regions'
    BY <1>1
  <2> QED BY Zenon, <2>1, <2>2, <2>3, <2>4, <2>5, <2>6 DEF InPlace
<1>8. ASSUME NEW s \in 1..Len(image), NEW i \in 0..(PageNum(image[s]) - 1),
             s < seg \/ (s = seg /\ i < idx)
      PROVE  InPlace(s, i)'
  <2>1. InPlace(s, i)
    BY <1>8 DEF IInv, ImageOK
  <2> DEFINE x == <<seg, idx, Min({PageSize, file_sz_rem})>>
  <2>2. content' = content \/ content' = With(content, page.frame, x)
    OBVIOUS
  <2> HIDE DEF x
  <2> QED BY ZenonT(20), <1>1, <2>1, <2>2, InPlaceStays
<1>9. ASSUME NEW s \in 1..Len(image), NEW i \in 0..(PageNum(image[s]) - 1),
             s < seg' \/ (s = seg' /\ i < idx')
      PROVE  InPlace(s, i)'
  <2>1. CASE s = seg /\ i = idx
    BY <2>1, <1>7
  <2>2. CASE ~(s = seg /\ i = idx)
    <3>1. s < seg \/ (s = seg /\ i < idx)
      BY <1>2, <1>3, <1>9, <2>2
    <3> QED BY <3>1, <1>8
  <2> QED BY <2>1, <2>2
<1> QED BY ZenonT(20), <1>2, <1>5, <1>6, <1>9 DEF ImageOK

\* map_page of one of the two frames behind the image: the pages of the image stay.
LEMMA FramePageInPlace ==
    ASSUME IInv, NEW v, NEW f, v \notin DOMAIN mapping, mapping' = With(mapping, v, f),
           UNCHANGED <<content, image, seg, idx, file_sz_rem, regions>>
    PROVE  ImageOK'
<1>1. ASSUME NEW s, NEW i, InPlace(s, i) PROVE InPlace(s, i)'
  BY Zenon, <1>1, InPlaceStays
<1> QED BY <1>1 DEF IInv, ImageOK, Rest

\* create_mapped_page_cap: the page is mapped, its capability is stored and, for a page
\* of the image, its part of the file is copied.
LEMMA MapPageKeeps ==
    ASSUME IInv, MapPage
    PROVE  IInv'
<1>1. CASE \/ page.vaddr \in DOMAIN mapping \/ (page.use = "elf" /\ ~EnoughSlots)
           \/ ~CanWrite(SlotOf(page.use))
  BY Zenon, <1>1, PanicKeeps DEF MapPage
<1>2. CASE ~(\/ page.vaddr \in DOMAIN mapping \/ (page.use = "elf" /\ ~EnoughSlots)
             \/ ~CanWrite(SlotOf(page.use)))
  <2>1. /\ pc = "map" /\ pc' = "next" /\ mapping' = With(mapping, page.vaddr, page.frame)
        /\ write_slot(Cap("Page", page.frame, TRUE), SlotOf(page.use))
        /\ UNCHANGED <<machine, memory, tables, seg, max_vaddr, page, boot_info, panic>>
    BY Zenon, <1>2 DEF MapPage
  <2>2. page.use = "elf" =>
            /\ cnode_start_idx' = cnode_start_idx + 1 /\ idx' = idx + 1
            /\ file_sz_rem' = RestOfFile /\ EnoughSlots
            /\ content' = IF file_sz_rem = 0 THEN content
                          ELSE With(content, page.frame, <<seg, idx, Min({PageSize, file_sz_rem})>>)
    BY Zenon, <1>2 DEF MapPage
  <2>3. page.use # "elf" => UNCHANGED <<cnode_start_idx, idx, file_sz_rem, content>>
    BY ZenonT(20), <1>2 DEF MapPage
  <2>4. /\ page \in [use : {"elf", "ipc", "info"}, frame : Nat, vaddr : Nat] /\ max_vaddr \in Nat
        /\ start_addr \in Nat /\ start_addr >= CNodePages + 4 /\ CNodePages \in Nat
    BY ZenonT(20), <2>1, BootAssumption DEF IInv, PageOK, MemoryOK
  <2> USE DEF machine, memory
  <2>5. /\ DOMAIN mapping' = DOMAIN mapping \cup {page.vaddr} /\ mapping'[page.vaddr] = page.frame
        /\ \A v \in DOMAIN mapping : mapping'[v] = mapping[v]
    BY Zenon, <1>2, <2>1 DEF With
  <2>6. MachineOK'
    BY <2>1 DEF IInv, MachineOK
  <2>7. MemoryOK'
    BY <2>1 DEF IInv, MemoryOK
  <2>8. SlotsOK'
    <3>1. CASE page.use = "elf"
      <4>1. write_slot(Cap("Page", page.frame, TRUE), cnode_start_idx)
        BY Zenon, <2>1, <3>1 DEF SlotOf
      <4> QED BY Zenon, <2>1, <2>2, <3>1, <4>1, WritesNext DEF IInv
    <3>2. CASE page.use # "elf"
      <4>1. SlotOf(page.use) \in 0..ROOT_BOOT_INFO_PAGE
        BY <2>4, <3>2 DEF SlotOf, ROOT_IPC_BUFFER, ROOT_BOOT_INFO_PAGE
      <4> QED BY Zenon, <2>1, <2>3, <3>2, <4>1, WritesFixed DEF IInv
    <3> QED BY <3>1, <3>2
  <2>9. InfosOK'
    BY <2>1, InfosKept DEF IInv
  <2>10. ImageOK'
    <3>1. CASE page.use = "elf"
      BY ZenonT(20), <1>2, <2>1, <2>2, <3>1, ElfPageInPlace
    <3>2. CASE page.use # "elf"
      BY ZenonT(20), <1>2, <2>1, <2>3, <3>2, FramePageInPlace
    <3> QED BY <3>1, <3>2
  <2>11. PageOK'
    <3>1. page.frame \in Nat /\ page.frame < start_addr
      <4>1. page.frame \in Nat /\ page.use \in {"elf", "ipc", "info"}
        BY <2>4
      <4>2. page.use = "elf" => page.frame < start_addr
        BY Zenon, <2>1 DEF IInv, PageOK
      <4>3. page.use = "ipc" => page.frame = CNodePages + 2
        BY DEF IInv, FramesOK, IpcBuf
      <4>4. page.use = "info" => page.frame = CNodePages + 3
        BY DEF IInv, FramesOK, BootFrame
      <4> QED BY <2>4, <4>1, <4>2, <4>3, <4>4
    <3>2. \A v \in DOMAIN mapping' : mapping'[v] \in Nat /\ mapping'[v] < start_addr'
      BY <2>1, <2>5, <3>1 DEF IInv, PageOK
    <3>3. DOMAIN content' \subseteq DOMAIN content \cup {page.frame}
      BY <2>2, <2>3 DEF With
    <3>4. \A f \in DOMAIN content' : f \in Nat /\ f < start_addr'
      BY Zenon, <2>1, <3>1, <3>3 DEF IInv, PageOK
    <3> QED BY Zenon, <2>1, <2>4, <3>2, <3>4 DEF PageOK
  <2>12. FramesOK'
    <3>1. CASE page.use = "elf"
      BY <2>1, <3>1 DEF FramesOK
    <3>2. CASE page.use = "ipc"
      BY Zenon, <2>1, <2>3, <2>5, <3>2 DEF IInv, FramesOK
    <3>3. CASE page.use = "info"
      BY Zenon, <2>1, <2>3, <2>5, <3>3 DEF IInv, FramesOK
    <3> QED BY <2>4, <3>1, <3>2, <3>3
  <2> QED BY <2>6, <2>7, <2>8, <2>9, <2>10, <2>11, <2>12 DEF IInv
<1> QED BY <1>1, <1>2

\* create_root_tcb fills a fixed slot.
LEMMA RootTcbKeeps ==
    ASSUME IInv, create_root_tcb
    PROVE  IInv'
<1>1. CASE None \in {slots[i] : i \in {ROOT_CNODE_IDX, ROOT_VSPACE_IDX, ROOT_IPC_BUFFER}}
  BY <1>1, PanicKeeps DEF create_root_tcb
<1>2. CASE None \notin {slots[i] : i \in {ROOT_CNODE_IDX, ROOT_VSPACE_IDX, ROOT_IPC_BUFFER}}
  <2>1. /\ pc = "tcb" /\ pc' = "untyped"
        /\ write_slot(Cap("Tcb", Tcb, FALSE), ROOT_TCB_IDX)
        /\ UNCHANGED <<machine, memory, cnode_start_idx, space, elf, page, boot_info, panic>>
    BY Zenon, <1>2 DEF create_root_tcb
  <2> USE DEF machine, memory, space, elf
  <2>2. MachineOK'
    BY <2>1 DEF IInv, MachineOK
  <2>3. MemoryOK'
    BY <2>1 DEF IInv, MemoryOK
  <2>4. SlotsOK'
    <3>1. ROOT_TCB_IDX \in 0..ROOT_BOOT_INFO_PAGE
      BY DEF ROOT_TCB_IDX, ROOT_BOOT_INFO_PAGE
    <3> QED BY Zenon, <2>1, <3>1, WritesFixed DEF IInv
  <2>5. InfosOK'
    BY <2>1, InfosKept DEF IInv
  <2>6. ImageOK'
    BY <2>1, ImageKept DEF IInv
  <2>7. PageOK'
    <3>1. start_addr' \in Nat /\ start_addr <= start_addr'
      BY <2>1 DEF IInv, MemoryOK
    <3> QED BY <2>1, <3>1, PageKept DEF IInv
  <2>8. FramesOK'
    BY Zenon, <2>1 DEF IInv, FramesOK
  <2> QED BY <2>2, <2>3, <2>4, <2>5, <2>6, <2>7, <2>8 DEF IInv
<1> QED BY <1>1, <1>2

\* UntypedCapGenerator and BootInfo: a block is made, and its entry names its slot and size.
LEMMA BlockListed ==
    ASSUME IInv, pc = "untyped", EnoughSlots, NEW n \in Nat,
           regions' = regions \cup {Region("untyped", start_addr, n)},
           slots'[cnode_start_idx] = Cap("Untyped", start_addr, FALSE),
           \A k \in 0..(cnode_start_idx - 1) : slots'[k] = slots[k],
           cnode_start_idx' = cnode_start_idx + 1, capacity' = capacity, pc' = pc,
           boot_info' = [boot_info EXCEPT
                    !.untyped_infos = Append(@, [bits |-> n, idx |-> cnode_start_idx]),
                    !.firtst_empty_idx = FirstEmpty]
    PROVE  InfosOK'
<1> DEFINE Info == [bits : Nat, idx : Nat]
           e == [bits |-> n, idx |-> cnode_start_idx]
           infos == boot_info.untyped_infos
           block == Region("untyped", start_addr, n)
<1>1. /\ boot_info \in [untyped_infos : Seq(Info), firtst_empty_idx : Nat,
                        ipc_buffer_addr : Nat, addr : Nat]
      /\ ListedBlocks = UntypedBlocks
      /\ \A i \in Range(infos) :
            i.idx > ROOT_BOOT_INFO_PAGE /\ i.idx < cnode_start_idx /\ i.idx < capacity
  BY DEF IInv, InfosOK
<1>2. /\ cnode_start_idx \in Nat /\ cnode_start_idx > ROOT_BOOT_INFO_PAGE /\ capacity \in Nat
      /\ cnode_start_idx < capacity
  BY DEF IInv, SlotsOK, MachineOK, EnoughSlots
<1>3. e \in Info /\ infos \in Seq(Info) /\ e.idx = cnode_start_idx /\ e.bits = n
  BY <1>1, <1>2
<1>4. boot_info'.untyped_infos = Append(infos, e) /\ boot_info'.firtst_empty_idx = cnode_start_idx + 1
  BY <1>1 DEF FirstEmpty
<1>5. Append(infos, e) \in Seq(Info)
  <2> HIDE DEF e, Info
  <2> QED BY <1>3
<1>6. boot_info' \in [untyped_infos : Seq(Info), firtst_empty_idx : Nat,
                      ipc_buffer_addr : Nat, addr : Nat]
  <2>1. cnode_start_idx + 1 \in Nat
    BY <1>2
  <2>2. [boot_info EXCEPT !.untyped_infos = Append(infos, e), !.firtst_empty_idx = cnode_start_idx + 1] \in
            [untyped_infos : Seq(Info), firtst_empty_idx : Nat, ipc_buffer_addr : Nat, addr : Nat]
    <3> HIDE DEF e, Info, infos
    <3> QED BY Zenon, <1>1, <1>5, <2>1, InfoRecord
  <2> QED BY Zenon, <2>2 DEF FirstEmpty
<1>7. Range(boot_info'.untyped_infos) = Range(infos) \cup {e}
  <2> HIDE DEF e, Info, infos
  <2>1. Range(Append(infos, e)) = Range(infos) \cup {e}
    BY <1>3, RangeAppend
  <2> QED BY Zenon, <1>4, <2>1
<1>8. \A i \in Range(infos) : i \in Info
  <2> HIDE DEF Info, infos
  <2> QED BY <1>3, ElementOf DEF Range
<1>9. \A i \in Range(infos) : slots'[i.idx] = slots[i.idx]
  <2> TAKE i \in Range(infos)
  <2>1. i.idx \in 0..(cnode_start_idx - 1)
    BY <1>1, <1>2, <1>8 DEF ROOT_BOOT_INFO_PAGE
  <2> QED BY <2>1
<1>10. slots'[e.idx].frame = start_addr
  BY <1>3 DEF Cap
<1>11. ListedBlocks' = ListedBlocks \cup {block}
  <2> DEFINE At(i) == Region("untyped", slots[i.idx].frame, i.bits)
             Later(i) == Region("untyped", slots'[i.idx].frame, i.bits)
  <2>1. ListedBlocks' = {Later(i) : i \in Range(infos) \cup {e}}
    BY <1>7 DEF ListedBlocks
  <2>2. \A i \in Range(infos) : Later(i) = At(i)
    BY <1>9
  <2>3. Later(e) = block
    BY <1>3, <1>10
  <2>4. ListedBlocks = {At(i) : i \in Range(infos)}
    BY DEF ListedBlocks
  <2> HIDE DEF At, Later, infos, e, block
  <2> QED BY <2>1, <2>2, <2>3, <2>4
<1>12. UntypedBlocks' = UntypedBlocks \cup {block}
  <2>1. block.use = "untyped"
    BY DEF Region
  <2> HIDE DEF block
  <2>2. regions' = regions \cup {block}
    BY DEF block
  <2> QED BY <2>1, <2>2 DEF UntypedBlocks
<1>13. \A i \in Range(infos) \cup {e} :
        i.idx > ROOT_BOOT_INFO_PAGE /\ i.idx < cnode_start_idx' /\ i.idx < capacity'
  <2>1. \A i \in Range(infos) : i.idx \in Nat
    BY <1>8
  <2> HIDE DEF e, infos
  <2> QED BY <1>1, <1>2, <1>3, <2>1 DEF ROOT_BOOT_INFO_PAGE
<1> HIDE DEF e, infos, block
<1> QED BY <1>1, <1>4, <1>6, <1>7, <1>11, <1>12, <1>13 DEF InfosOK

\* UntypedCapGenerator: a block takes pages that are free and a slot, and is listed.
LEMMA UntypedKeeps ==
    ASSUME IInv, Untyped
    PROVE  IInv'
<1>1. CASE \/ ~EnoughSlots \/ Len(boot_info.untyped_infos) >= MaxInfos
           \/ ~CanWrite(cnode_start_idx)
  BY ZenonT(20), <1>1, PanicKeeps DEF Untyped
<1>2. CASE ~(\/ ~EnoughSlots \/ Len(boot_info.untyped_infos) >= MaxInfos
             \/ ~CanWrite(cnode_start_idx))
  <2>1. /\ pc = "untyped" /\ ~GeneratorEnds /\ EnoughSlots
        /\ allocate_pages("untyped", BlockSize)
        /\ write_slot(Cap("Untyped", start_addr, FALSE), cnode_start_idx)
        /\ cnode_start_idx' = cnode_start_idx + 1
        /\ boot_info' = [boot_info EXCEPT
                !.untyped_infos = Append(@, [bits |-> BlockSize, idx |-> cnode_start_idx]),
                !.firtst_empty_idx = FirstEmpty]
        /\ UNCHANGED <<machine, space, elf, pc, page, panic>>
    BY Zenon, <1>2 DEF Untyped
  <2>2. BlockSize \in Nat /\ EnoughPages(BlockSize)
    <3>1. start_addr \in Nat /\ ram \in Nat /\ ram - start_addr \in Nat \ {0}
      BY <2>1 DEF GeneratorEnds, IInv, MemoryOK, MachineOK
    <3>2. BlockSize \in Nat /\ BlockSize <= ram - start_addr
      BY <3>1, BlockFits DEF BlockSize
    <3> QED BY <3>1, <3>2 DEF EnoughPages
  <2> HIDE DEF BlockSize
  <2> USE DEF machine, space, elf
  <2>3. /\ regions' = regions \cup {Region("untyped", start_addr, BlockSize)}
        /\ start_addr' = start_addr + BlockSize /\ start_addr \in Nat
    BY <2>1 DEF allocate_pages, IInv, MemoryOK
  <2>4. MachineOK'
    BY <2>1 DEF IInv, MachineOK
  <2>5. MemoryOK'
    BY <2>1, <2>2, Allocates DEF IInv
  <2>6. /\ SlotsOK' /\ slots'[cnode_start_idx] = Cap("Untyped", start_addr, FALSE)
        /\ \A k \in 0..(cnode_start_idx - 1) : slots'[k] = slots[k]
    BY Zenon, <2>1, WritesNext DEF IInv
  <2>7. InfosOK'
    BY Zenon, <2>1, <2>2, <2>3, <2>6, BlockListed
  <2>8. ImageOK'
    BY <2>1, <2>3, ImageKept DEF IInv
  <2>9. PageOK'
    <3>1. start_addr' \in Nat /\ start_addr <= start_addr'
      BY <2>2, <2>3
    <3> QED BY <2>1, <2>3, <3>1, PageKept DEF IInv
  <2>10. FramesOK'
    BY <2>1 DEF IInv, FramesOK
  <2> QED BY <2>4, <2>5, <2>6, <2>7, <2>8, <2>9, <2>10 DEF IInv
<1> QED BY <1>1, <1>2

\* The rest of create_initial_thread: BootInfo tells where the two frames are mapped.
LEMMA FinishKeeps ==
    ASSUME IInv, Finish
    PROVE  IInv'
<1>1. /\ pc = "untyped" /\ pc' = "done"
      /\ boot_info' = [boot_info EXCEPT !.ipc_buffer_addr = max_vaddr + 1, !.addr = max_vaddr + 2]
      /\ UNCHANGED <<machine, memory, cnode, space, elf, page, panic>>
  BY DEF Finish
<1> USE DEF machine, memory, cnode, space, elf
<1>2. boot_info \in [untyped_infos : Seq([bits : Nat, idx : Nat]), firtst_empty_idx : Nat,
                     ipc_buffer_addr : Nat, addr : Nat]
  BY DEF IInv, InfosOK
<1>3. /\ boot_info'.untyped_infos = boot_info.untyped_infos
      /\ boot_info'.firtst_empty_idx = boot_info.firtst_empty_idx
      /\ boot_info'.ipc_buffer_addr = max_vaddr + 1 /\ boot_info'.addr = max_vaddr + 2
  BY <1>1, <1>2
<1>4. MachineOK'
  BY <1>1 DEF IInv, MachineOK
<1>5. MemoryOK'
  BY <1>1 DEF IInv, MemoryOK
<1>6. SlotsOK'
  BY <1>1 DEF IInv, SlotsOK
<1>7. InfosOK'
  <2>1. boot_info' \in [untyped_infos : Seq([bits : Nat, idx : Nat]), firtst_empty_idx : Nat,
                        ipc_buffer_addr : Nat, addr : Nat]
    <3>1. max_vaddr + 1 \in Nat /\ max_vaddr + 2 \in Nat
      BY DEF IInv, PageOK
    <3>2. [boot_info EXCEPT !.ipc_buffer_addr = max_vaddr + 1, !.addr = max_vaddr + 2] \in
            [untyped_infos : Seq([bits : Nat, idx : Nat]), firtst_empty_idx : Nat,
             ipc_buffer_addr : Nat, addr : Nat]
      BY Zenon, <1>2, <3>1, AddressRecord
    <3> QED BY Zenon, <1>1, <3>2
  <2>2. ListedBlocks' = ListedBlocks /\ UntypedBlocks' = UntypedBlocks
    BY <1>1, <1>3 DEF ListedBlocks, UntypedBlocks
  <2> QED BY <1>1, <1>3, <2>1, <2>2 DEF IInv, InfosOK
<1>8. ImageOK'
  BY <1>1, ImageKept DEF IInv
<1>9. PageOK'
  <2>1. start_addr' \in Nat /\ start_addr <= start_addr'
    BY <1>1 DEF IInv, MemoryOK
  <2> QED BY <1>1, <2>1, PageKept DEF IInv
<1>10. FramesOK'
  BY <1>1, <1>3 DEF IInv, FramesOK
<1> QED BY <1>4, <1>5, <1>6, <1>7, <1>8, <1>9, <1>10 DEF IInv

-----------------------------------------------------------------------------
(***************************************************************************)
(* The theorems.                                                           *)
(***************************************************************************)

\* The boot starts with no memory used and no slot filled.
LEMMA InitInvariant ==
    Init => IInv
<1> SUFFICES ASSUME Init PROVE IInv
  OBVIOUS
<1>1. MachineOK
  BY ZenonT(20), BootAssumption DEF Init, MachineOK
<1>2. MemoryOK
  BY <1>1 DEF Init, MemoryOK, MachineOK
<1>3. SlotsOK
  BY DEF Init, SlotsOK, ROOT_BOOT_INFO_PAGE
<1>4. InfosOK
  <2>1. Range(<<>>) = {}
    BY DEF Range
  <2>2. boot_info.untyped_infos = <<>> /\ regions = {}
    BY DEF Init
  <2>3. ListedBlocks = {} /\ UntypedBlocks = {}
    BY <2>1, <2>2 DEF ListedBlocks, UntypedBlocks
  <2>4. boot_info \in [untyped_infos : Seq([bits : Nat, idx : Nat]), firtst_empty_idx : Nat,
                       ipc_buffer_addr : Nat, addr : Nat]
    <3>1. <<>> \in Seq([bits : Nat, idx : Nat])
      OBVIOUS
    <3>2. boot_info = [untyped_infos |-> <<>>, firtst_empty_idx |-> 0, ipc_buffer_addr |-> 0, addr |-> 0]
      BY Zenon DEF Init
    <3> DEFINE Q == Seq([bits : Nat, idx : Nat])
    <3> HIDE DEF Q
    <3>3. <<>> \in Q
      BY <3>1 DEF Q
    <3>4. boot_info \in [untyped_infos : Q, firtst_empty_idx : Nat, ipc_buffer_addr : Nat, addr : Nat]
      BY <3>2, <3>3
    <3> QED BY <3>4 DEF Q
  <2> QED BY <2>1, <2>2, <2>3, <2>4 DEF InfosOK
<1>5. ImageOK
  <2>1. seg = 1 /\ idx = 0 /\ file_sz_rem = image[1].filesz
    BY DEF Init
  <2>2. /\ 1 \in 1..Len(image) /\ image[1].filesz \in Nat /\ PageNum(image[1]) \in Nat
        /\ PageSize \in Nat
    BY <1>1, ImageFacts
  <2>3. Rest(seg, idx) = image[1].filesz
    BY <2>1, <2>2 DEF Rest
  <2> QED BY <2>1, <2>2, <2>3 DEF ImageOK
<1>6. PageOK
  <2>1. DOMAIN mapping = {} /\ DOMAIN content = {} /\ max_vaddr = 0 /\ pc = "objects"
    BY DEF Init
  <2>2. page \in [use : {"elf", "ipc", "info"}, frame : Nat, vaddr : Nat]
    BY DEF Init
  <2> QED BY <2>1, <2>2 DEF PageOK
<1>7. FramesOK
  BY DEF Init, FramesOK
<1> QED BY <1>1, <1>2, <1>3, <1>4, <1>5, <1>6, <1>7 DEF IInv

\* Every step of the boot code keeps the invariant.
LEMMA NextInvariant ==
    IInv /\ [Next]_vars => IInv'
<1> SUFFICES ASSUME IInv, [Next]_vars PROVE IInv'
  OBVIOUS
<1>1. CASE UNCHANGED vars
  <2> USE <1>1 DEF vars, machine, memory, cnode, space, elf
  <2>1. MachineOK' /\ MemoryOK' /\ SlotsOK'
    BY DEF IInv, MachineOK, MemoryOK, SlotsOK
  <2>2. InfosOK'
    <3>1. ListedBlocks' = ListedBlocks /\ UntypedBlocks' = UntypedBlocks
      BY Zenon DEF ListedBlocks, UntypedBlocks
    <3> QED BY ZenonT(20), <3>1 DEF IInv, InfosOK
  <2>3. ImageOK'
    BY ImageKept DEF IInv
  <2>4. PageOK' /\ FramesOK'
    BY Zenon DEF IInv, PageOK, FramesOK
  <2> QED BY <2>1, <2>2, <2>3, <2>4 DEF IInv
<1>2. CASE Boots
  BY <1>2, ObjectsKeep, RootCNodeKeeps, AddressSpaceKeeps, MapProgramKeeps, NextSegmentKeeps,
     MapFramesKeeps, MapPageTableKeeps, MapPageKeeps, RootTcbKeeps, UntypedKeeps, FinishKeeps
     DEF Boots
<1> QED BY <1>1, <1>2 DEF Next, Over

\* The invariant holds throughout the boot.
LEMMA Invariant ==
    Spec => []IInv
BY InitInvariant, NextInvariant, PTL DEF Spec

\* BumpAllocator: no page of memory has two uses, and every page that is used is in the
\* free memory, at any moment of the boot.
THEOREM MemoryUsedOnceCorrect ==
    Spec => []MemoryUsedOnce
<1>1. IInv => MemoryUsedOnce
  <2> SUFFICES ASSUME IInv PROVE MemoryUsedOnce
    OBVIOUS
  <2>1. \A r \in regions : r.start + r.pages <= ram
    BY DEF IInv, MemoryOK, MachineOK
  <2> QED BY <2>1 DEF IInv, MemoryOK, MemoryUsedOnce
<1> QED BY <1>1, Invariant, PTL

\* BootInfo: when the boot ends, its entries name the slots and the sizes of all untyped
\* blocks and of nothing else, and the slots from firtst_empty_idx on are empty.
THEOREM BootInfoCorrect ==
    Spec => []BootInfoTrue
<1>1. IInv => BootInfoTrue
  <2> SUFFICES ASSUME IInv PROVE BootInfoTrue
    OBVIOUS
  <2>1. ListedBlocks = UntypedBlocks
    BY DEF IInv, InfosOK
  <2>2. ASSUME Range(boot_info.untyped_infos) # {}, NEW i \in DOMAIN slots,
               i >= boot_info.firtst_empty_idx
        PROVE  slots[i] = None
    <3>1. boot_info.untyped_infos # <<>>
      BY <2>2 DEF Range
    <3>2. boot_info.firtst_empty_idx = cnode_start_idx
      BY <3>1 DEF IInv, InfosOK
    <3>3. DOMAIN slots = 0..(capacity - 1)
      BY DEF IInv, SlotsOK
    <3> QED BY <2>2, <3>2, <3>3 DEF IInv, SlotsOK
  <2> QED BY <2>1, <2>2 DEF BootInfoTrue, ListedBlocks, UntypedBlocks
<1> QED BY <1>1, Invariant, PTL

\* map_self: when the boot ends, every page of the image is mapped to a page of its own
\* with its part of the file, and the IPC buffer and BootInfo are mapped where BootInfo says.
THEOREM ImageInPlaceCorrect ==
    Spec => []ImageInPlace
<1>1. IInv => ImageInPlace
  <2> SUFFICES ASSUME IInv, pc = "done" PROVE ImageInPlace
    BY Zenon DEF ImageInPlace
  <2>1. page.use = "info" /\ seg = Len(image) /\ idx = PageNum(image[seg])
    BY DEF IInv, FramesOK
  <2>2. /\ mapping[boot_info.ipc_buffer_addr] = IpcBuf
        /\ mapping[boot_info.addr] = BootFrame
    BY <2>1 DEF IInv, FramesOK
  <2>3. ASSUME NEW s \in DOMAIN image, NEW i \in 0..(PageNum(image[s]) - 1) PROVE InPlace(s, i)
    <3>1. s \in 1..Len(image) /\ Len(image) \in Nat /\ PageNum(image[s]) \in Nat
      BY ImageFacts DEF IInv
    <3>2. s < seg \/ (s = seg /\ i < idx)
      BY <2>1, <3>1
    <3> QED BY <3>1, <3>2 DEF IInv, ImageOK
  <2> QED BY Zenon, <2>2, <2>3 DEF ImageInPlace, InPlace, Rest
<1> QED BY <1>1, Invariant, PTL

-----------------------------------------------------------------------------
(***************************************************************************)
(* Arithmetic.                                                             *)
(***************************************************************************)

\* align_up yields the least multiple of align that is not below value.
LEMMA AlignUpLeast ==
    ASSUME NEW v \in Nat, NEW a \in Nat \ {0}
    PROVE  /\ AlignUp(v, a) \in Nat
           /\ AlignUp(v, a) >= v
           /\ AlignUp(v, a) % a = 0
           /\ \A e \in Nat : e >= v /\ e % a = 0 => AlignUp(v, a) <= e
<1> DEFINE n == v + a - 1
           q == n \div a
<1>1. n = q * a + (n % a) /\ 0 <= n % a /\ n % a < a /\ q \in Int
  BY DivMod
<1>2. AlignUp(v, a) = q * a /\ q * a \in Int
  BY <1>1 DEF AlignUp
<1>3. q * a >= v
  BY <1>1, <1>2
<1>4. (q * a) % a = 0
  BY <1>1, MultipleMod
<1>5. ASSUME NEW e \in Nat, e >= v, e % a = 0
      PROVE  q * a <= e
  <2> DEFINE k == e \div a
  <2>1. e = k * a /\ k \in Int
    BY DivMod, <1>5
  <2>2. k >= q
    <3> SUFFICES ASSUME q - k - 1 >= 0 PROVE FALSE
      BY <2>1, <1>1
    <3>1. (q - k - 1) * a >= 0
      BY <2>1, <1>1
    <3>2. q * a - e - a >= 0
      BY <3>1, <2>1, <1>1
    <3> QED BY <3>2, <1>1, <1>2, <1>5
  <2>3. (k - q) * a >= 0
    BY <2>1, <2>2, <1>1
  <2> QED BY <2>1, <2>3, <1>1
<1> QED BY <1>2, <1>3, <1>4, <1>5

\* align_up keeps word alignment, also when the alignment is 1.
LEMMA AlignUpKeepsWord ==
    ASSUME NEW v \in Nat, NEW a \in Nat \ {0}, NEW w \in Nat \ {0},
           v % w = 0, a = 1 \/ a % w = 0
    PROVE  AlignUp(v, a) % w = 0
<1>1. CASE a = 1
  <2> DEFINE q == v \div 1
  <2>1. v = q * 1 + (v % 1) /\ 0 <= v % 1 /\ v % 1 < 1 /\ q \in Int /\ v % 1 \in Int
    BY DivMod
  <2>2. (v + 1 - 1) \div 1 = q
    OBVIOUS
  <2>3. AlignUp(v, 1) = v
    BY <2>1, <2>2 DEF AlignUp
  <2> QED BY <2>3, <1>1
<1>2. CASE a % w = 0
  <2> DEFINE q == (v + a - 1) \div a
  <2>1. q \in Int /\ a \in Int
    BY DivMod
  <2>2. AlignUp(v, a) = q * a
    BY DEF AlignUp
  <2>3. (q * a) % w = 0
    BY <1>2, <2>1, ProductMod, Zenon
  <2> QED BY <2>2, <2>3
<1> QED BY <1>1, <1>2

-----------------------------------------------------------------------------
(***************************************************************************)
(* The inductive invariant.                                                *)
(***************************************************************************)

\* Objects end below the free index, which is why a new one overlaps none.
BelowFreeIndex ==
    \A o \in objects : Start <= o.addr /\ o.addr + o.size <= free_idx

UntypedInv ==
    /\ TypeOK
    /\ free_idx >= Start
    /\ free_idx % WordAlign = 0
    /\ BelowFreeIndex
    /\ ObjectsDisjoint
    /\ ObjectsAligned

\* The size of one object is positive and a multiple of its alignment.
LEMMA ObjectSizeOK ==
    ASSUME NEW type \in RetypeTypes, NEW us \in UserSizes
    PROVE  /\ ObjectSize(type, us) \in Nat \ {0}
           /\ ObjectSize(type, us) % AlignOf[type] = 0
           /\ ObjectSize(type, us) % WordAlign = 0
<1> USE UntypedAssumption, LayoutAssumption
<1>1. SizeOf[type] \in Nat \ {0} /\ AlignOf[type] \in Nat \ {0} /\ 2^us \in Nat \ {0}
  OBVIOUS
<1>2. SizeOf[type] % AlignOf[type] = 0 /\ SizeOf[type] % WordAlign = 0
  OBVIOUS
<1>3. 2^us * SizeOf[type] \in Nat \ {0}
  BY <1>1
<1>4. (2^us * SizeOf[type]) % AlignOf[type] = 0 /\ (2^us * SizeOf[type]) % WordAlign = 0
  <2>1. 2^us \in Int /\ SizeOf[type] \in Int /\ WordAlign \in Nat \ {0}
    BY <1>1
  <2> QED BY <1>1, <1>2, <2>1, ProductMod, Zenon
<1> QED BY <1>1, <1>2, <1>3, <1>4 DEF ObjectSize

\* With overflow checks, a retype that succeeds computed what it meant to: the
\* sizes are exact, and the objects together fit between free index and end.
LEMMA SucceedsExactly ==
    ASSUME UntypedInv, OverflowChecks,
           NEW type \in RetypeTypes, NEW us \in UserSizes, NEW num \in Nums,
           RetypeSucceeds(type, us, num)
    PROVE  LET size  == ObjectSize(type, us)
               first == AlignUp(free_idx, AlignOf[type])
           IN  /\ num \in Nat
               /\ size \in Nat \ {0}
               /\ num * size <= End - free_idx
               /\ objects' = objects \cup Generated(type, us, num, first, num * size)
               /\ free_idx' = first + (num * size) * num
               /\ first \in Nat /\ first >= free_idx
               /\ panicked' = panicked
<1> DEFINE size  == ObjectSize(type, us)
           first == AlignUp(free_idx, AlignOf[type])
           total == num * size
           max   == 2^WordBits
<1>1. num \in Nat /\ max \in Nat \ {0} /\ Start \in Nat /\ UntypedSize \in Nat
      /\ AlignOf[type] \in Nat \ {0} /\ free_idx \in Nat
  BY UntypedAssumption DEF UntypedInv, TypeOK
<1>2. size \in Nat \ {0}
  BY ObjectSizeOK
<1>3. total \in Nat /\ total * num \in Nat
  BY <1>1, <1>2
<1>4. ~Overflows(type, us, num)
  BY DEF RetypeSucceeds
<1>5. total < max /\ free_idx <= End
  BY <1>1, <1>2, <1>3, <1>4 DEF Overflows, End
<1>6. TotalSize(type, us, num) = total
  BY <1>1, <1>3, <1>5, ModBound DEF TotalSize, Word
<1>7. EnoughMemory(total)
  BY <1>6 DEF RetypeSucceeds
<1>8. total <= End - free_idx
  <2>1. End - free_idx \in Nat
    BY <1>1, <1>5 DEF End
  <2>2. (End - free_idx) % max <= End - free_idx /\ (End - free_idx) % max \in Int
    BY <1>1, <2>1, ModBound, DivMod
  <2> QED BY <1>3, <1>7, <2>1, <2>2 DEF EnoughMemory, Word
<1>9. total * num < max
  BY <1>1, <1>3, <1>4, <1>6, <1>7 DEF Overflows
<1>10. EndAddress(num, first, total) = first + total * num
  BY <1>1, <1>3, <1>9, ModBound DEF EndAddress, Word
<1>11. first \in Nat /\ first >= free_idx
  BY Zenon, <1>1, AlignUpLeast
<1> HIDE DEF size, first, total
<1> QED BY <1>1, <1>2, <1>6, <1>8, <1>10, <1>11 DEF RetypeSucceeds, size, first, total

-----------------------------------------------------------------------------
\* A retype that succeeds preserves the invariant, for any number of objects.
LEMMA SucceedsInv ==
    ASSUME UntypedInv, OverflowChecks,
           NEW type \in RetypeTypes, NEW us \in UserSizes, NEW num \in Nums,
           RetypeSucceeds(type, us, num)
    PROVE  UntypedInv' /\ free_idx' >= free_idx
<1> DEFINE size  == ObjectSize(type, us)
           first == AlignUp(free_idx, AlignOf[type])
           total == num * size
           new   == Generated(type, us, num, first, total)
<1>1. /\ num \in Nat /\ size \in Nat \ {0} /\ first \in Nat
      /\ first >= free_idx /\ free_idx' = first + total * num
      /\ objects' = objects \cup new /\ panicked' = panicked
  BY SucceedsExactly
<1>2. /\ free_idx \in Nat /\ Start \in Nat /\ WordAlign \in Nat \ {0}
      /\ AlignOf[type] \in Nat \ {0} /\ free_idx >= Start
  BY UntypedAssumption DEF UntypedInv, TypeOK
<1>3. /\ size % AlignOf[type] = 0 /\ size % WordAlign = 0
      /\ first % AlignOf[type] = 0 /\ first % WordAlign = 0
  BY ZenonT(20), <1>2, ObjectSizeOK, AlignUpLeast, AlignUpKeepsWord, LayoutAssumption DEF UntypedInv
<1> HIDE DEF size, first
<1>4. total \in Nat /\ total * num \in Nat
  BY <1>1
<1>5. /\ total % AlignOf[type] = 0 /\ total % WordAlign = 0
      /\ (total * num) % WordAlign = 0
  <2>1. num \in Int /\ size \in Int /\ total \in Int
    BY <1>1, <1>4
  <2>2. total % AlignOf[type] = 0 /\ total % WordAlign = 0
    BY <1>2, <1>3, <2>1, ProductMod, Zenon
  <2>3. (num * total) % WordAlign = 0
    BY <1>2, <2>1, <2>2, ProductMod, Zenon
  <2>4. num * total = total * num
    BY <1>1, <1>4
  <2> QED BY <2>2, <2>3, <2>4
<1>6. ASSUME NEW i \in 0..(num - 1)
      PROVE  /\ i * total \in Nat
             /\ first + i * total + size <= free_idx'
             /\ (first + i * total) % AlignOf[type] = 0
             /\ (first + i * total) % WordAlign = 0
  <2>1. i \in Nat /\ num - 1 - i \in Nat /\ num >= 1
    BY <1>1
  <2>2. i * total \in Nat
    BY <1>4, <2>1
  <2>3. size <= total
    <3>1. (num - 1) * size >= 0
      BY <1>1, <2>1
    <3> QED BY <1>1, <2>1, <3>1
  <2>4. (num - 1 - i) * total >= 0
    BY <1>4, <2>1
  <2>5. total * num - i * total - total >= 0
    BY <1>1, <1>4, <2>1, <2>4
  <2>6. i \in Int /\ total \in Int /\ first \in Int /\ i * total \in Int
    BY <1>1, <1>4, <2>1, <2>2
  <2>7. (i * total) % AlignOf[type] = 0 /\ (i * total) % WordAlign = 0
    BY <1>2, <1>5, <2>6, ProductMod, Zenon
  <2>8. (first + i * total) % AlignOf[type] = 0 /\ (first + i * total) % WordAlign = 0
    BY <1>2, <1>3, <2>6, <2>7, SumMod, Zenon
  <2> HIDE DEF total
  <2>9. first + i * total + size <= free_idx'
    BY <1>1, <1>4, <2>2, <2>3, <2>5
  <2> QED BY <2>2, <2>8, <2>9
<1>7. ASSUME NEW i \in 0..(num - 1), NEW j \in 0..(num - 1), i < j
      PROVE  first + i * total + size <= first + j * total
  <2>1. i \in Nat /\ j \in Nat /\ j - i - 1 \in Nat /\ num - 1 \in Nat
    BY <1>1, <1>7
  <2>2. (j - i - 1) * total >= 0 /\ (num - 1) * size >= 0
    BY <1>1, <1>4, <2>1
  <2>3. size <= total
    BY <1>1, <2>1, <2>2
  <2>4. j * total - i * total - total >= 0 /\ j * total \in Nat /\ i * total \in Nat
    BY <1>4, <2>1, <2>2
  <2> HIDE DEF total
  <2> QED BY <1>1, <1>4, <2>3, <2>4
<1> HIDE DEF total
<1>8. \A o \in new : \E i \in 0..(num - 1) :
          o.type = type /\ o.addr = first + i * total /\ o.size = size
  BY DEF Generated, size
<1>9. TypeOK'
  <2>1. new \subseteq Object
    <3> SUFFICES ASSUME NEW i \in 0..(num - 1)
                 PROVE  [type |-> type, addr |-> first + i * total, size |-> size] \in Object
      BY DEF Generated, size
    <3>1. first + i * total \in Nat
      BY <1>1, <1>6
    <3> QED BY <1>1, <3>1 DEF Object
  <2>2. free_idx' \in Nat
    BY <1>1, <1>4
  <2> HIDE DEF new
  <2> QED BY <1>1, <2>1, <2>2 DEF TypeOK, UntypedInv
<1>10. free_idx' >= free_idx /\ free_idx' \in Nat
  BY <1>1, <1>2, <1>4
<1>11. free_idx' % WordAlign = 0
  <2>1. first \in Int /\ total * num \in Int
    BY <1>1, <1>4
  <2>2. (first + total * num) % WordAlign = 0
    BY <1>2, <1>3, <1>5, <2>1, SumMod, Zenon
  <2> QED BY <1>1, <2>2
<1>12. \A o \in objects : /\ o.addr \in Nat /\ o.size \in Nat /\ o.type \in RetypeTypes
                          /\ Start <= o.addr /\ o.addr + o.size <= free_idx
  BY DEF UntypedInv, TypeOK, Object, BelowFreeIndex
<1>13. \A o \in new : Start <= o.addr /\ free_idx <= o.addr /\ o.addr + o.size <= free_idx'
  <2> SUFFICES ASSUME NEW o \in new
               PROVE  Start <= o.addr /\ free_idx <= o.addr /\ o.addr + o.size <= free_idx'
    OBVIOUS
  <2>1. PICK i \in 0..(num - 1) : o.addr = first + i * total /\ o.size = size
    BY <1>8
  <2> QED BY <1>1, <1>2, <1>6, <2>1
<1> HIDE DEF new
<1>14. BelowFreeIndex'
  BY <1>1, <1>2, <1>10, <1>12, <1>13 DEF BelowFreeIndex
<1>15. ObjectsDisjoint'
  <2>1. ASSUME NEW o \in objects, NEW p \in new
        PROVE  o.addr + o.size <= p.addr
    <3>1. PICK i \in 0..(num - 1) : p.addr = first + i * total
      BY <1>8, <2>1
    <3> QED BY <1>1, <1>2, <1>6, <1>12, <3>1
  <2>2. ASSUME NEW o \in new, NEW p \in new, o # p
        PROVE  o.addr + o.size <= p.addr \/ p.addr + p.size <= o.addr
    <3>1. PICK i \in 0..(num - 1) :
              o = [type |-> type, addr |-> first + i * total, size |-> size]
      BY DEF new, Generated, size
    <3>2. PICK j \in 0..(num - 1) :
              p = [type |-> type, addr |-> first + j * total, size |-> size]
      BY DEF new, Generated, size
    <3>3. i < j \/ j < i
      BY <1>1, <2>2, <3>1, <3>2
    <3> QED BY <1>7, <3>1, <3>2, <3>3
  <2>3. \A o, p \in objects :
            o # p => o.addr + o.size <= p.addr \/ p.addr + p.size <= o.addr
    BY DEF UntypedInv, ObjectsDisjoint
  <2> QED BY <1>1, <2>1, <2>2, <2>3 DEF ObjectsDisjoint
<1>16. ObjectsAligned'
  <2>1. ASSUME NEW o \in new
        PROVE  o.addr % AlignOf[o.type] = 0 /\ o.addr % WordAlign = 0
    BY <1>6, <1>8, <2>1
  <2> QED BY <1>1, <2>1 DEF UntypedInv, ObjectsAligned
<1>17. free_idx' >= Start
  BY <1>2, <1>10
<1> QED BY <1>9, <1>10, <1>11, <1>14, <1>15, <1>16, <1>17 DEF UntypedInv

\* One object at a time: aligning the free index after the memory check cannot
\* push the object over the end, because end and size are multiples of the
\* alignment.
LEMMA OneFits ==
    ASSUME UntypedInv, OverflowChecks, Nums = {1},
           NEW type \in RetypeTypes, NEW us \in UserSizes, NEW num \in Nums,
           RetypeSucceeds(type, us, num)
    PROVE  free_idx' <= End
<1> DEFINE size  == ObjectSize(type, us)
           first == AlignUp(free_idx, AlignOf[type])
<1>1. num = 1
  OBVIOUS
<1>2. /\ size \in Nat \ {0} /\ num * size <= End - free_idx
      /\ free_idx' = first + (num * size) * num /\ first \in Nat
  BY SucceedsExactly
<1>3. /\ free_idx \in Nat /\ AlignOf[type] \in Nat \ {0} /\ End \in Nat
      /\ End % AlignOf[type] = 0
  BY UntypedAssumption, LayoutAssumption DEF UntypedInv, TypeOK, End
<1>4. size % AlignOf[type] = 0
  BY ObjectSizeOK
<1> HIDE DEF size
<1>5. End - size \in Nat /\ End - size >= free_idx /\ free_idx' = first + size
  BY <1>1, <1>2, <1>3
<1>6. (End - size) % AlignOf[type] = 0
  BY <1>2, <1>3, <1>4, SumMod
<1>7. first <= End - size
  BY <1>3, <1>5, <1>6, AlignUpLeast
<1> HIDE DEF first
<1> QED BY <1>2, <1>3, <1>5, <1>7

-----------------------------------------------------------------------------
\* The invariant holds initially and every step keeps it.
LEMMA InitInv ==
    UntypedInit => UntypedInv
<1> SUFFICES ASSUME UntypedInit PROVE UntypedInv
  OBVIOUS
<1>1. Start \in Nat /\ Start % WordAlign = 0
  BY UntypedAssumption, LayoutAssumption
<1>2. free_idx = Start /\ objects = {} /\ panicked = FALSE
  BY DEF UntypedInit
<1>3. TypeOK
  BY Zenon, <1>1, <1>2 DEF TypeOK
<1>4. BelowFreeIndex /\ ObjectsDisjoint /\ ObjectsAligned
  BY <1>2 DEF BelowFreeIndex, ObjectsDisjoint, ObjectsAligned
<1>5. free_idx >= Start /\ free_idx % WordAlign = 0
  BY <1>1, <1>2
<1> QED BY <1>3, <1>4, <1>5 DEF UntypedInv

\* A step is a retype that succeeds, or leaves free index and objects alone.
LEMMA StepInv ==
    ASSUME OverflowChecks, UntypedInv, [UntypedNext]_untyped_vars
    PROVE  /\ UntypedInv'
           /\ free_idx' >= free_idx /\ objects \subseteq objects'
           /\ Nums = {1} /\ free_idx <= End => free_idx' <= End
<1>1. ASSUME UNCHANGED <<free_idx, objects>>, panicked' \in BOOLEAN
      PROVE  UntypedInv' /\ free_idx' >= free_idx
  BY <1>1 DEF UntypedInv, TypeOK, BelowFreeIndex, ObjectsDisjoint, ObjectsAligned
<1>2. CASE UNCHANGED untyped_vars
  BY <1>1, <1>2 DEF untyped_vars, UntypedInv, TypeOK
<1>3. CASE UntypedNext
  <2>1. PICK type \in RetypeTypes, us \in UserSizes, num \in Nums : Retype(type, us, num)
    BY <1>3 DEF UntypedNext
  <2>2. CASE RetypePanics(type, us, num)
    BY <1>1, <2>2 DEF RetypePanics
  <2>3. CASE RetypeNoMemory(type, us, num)
    BY <1>2, <2>3 DEF RetypeNoMemory
  <2>4. CASE RetypeSucceeds(type, us, num)
    <3>1. UntypedInv' /\ free_idx' >= free_idx
      BY <2>4, SucceedsInv
    <3>2. Nums = {1} => free_idx' <= End
      BY <2>4, OneFits
    <3>3. objects \subseteq objects'
      BY <2>4 DEF RetypeSucceeds
    <3> QED BY <3>1, <3>2, <3>3
  <2> QED BY <2>1, <2>2, <2>3, <2>4 DEF Retype
<1> QED BY <1>2, <1>3

\* No two objects made by retype share memory, however many are made at once.
THEOREM DisjointCorrect ==
    ASSUME OverflowChecks
    PROVE  UntypedSpec => []ObjectsDisjoint
<1>1. UntypedInv /\ [UntypedNext]_untyped_vars => UntypedInv'
  BY StepInv
<1>2. UntypedInv => ObjectsDisjoint
  BY DEF UntypedInv
<1> QED BY InitInv, <1>1, <1>2, PTL DEF UntypedSpec

\* Every object, and every word in it, is aligned, however many are made at once.
THEOREM AlignedCorrect ==
    ASSUME OverflowChecks
    PROVE  UntypedSpec => []ObjectsAligned
<1>1. UntypedInv /\ [UntypedNext]_untyped_vars => UntypedInv'
  BY StepInv
<1>2. UntypedInv => ObjectsAligned
  BY DEF UntypedInv
<1> QED BY InitInv, <1>1, <1>2, PTL DEF UntypedSpec

\* Retyping one object at a time never leaves the block.
THEOREM InBlockCorrect ==
    ASSUME OverflowChecks, Nums = {1}
    PROVE  UntypedSpec => []ObjectsInBlock
<1> DEFINE Inv == UntypedInv /\ free_idx <= End
<1>1. UntypedInit => Inv
  <2>1. Start <= End
    BY UntypedAssumption DEF End
  <2> QED BY InitInv, <2>1 DEF UntypedInit
<1>2. Inv /\ [UntypedNext]_untyped_vars => Inv'
  <2>1. End' = End
    BY DEF End, UntypedSize
  <2> QED BY StepInv, <2>1
<1>3. Inv => ObjectsInBlock
  <2> SUFFICES ASSUME Inv, NEW o \in objects
               PROVE  Start <= o.addr /\ o.addr + o.size <= End
    BY DEF ObjectsInBlock
  <2>1. o.addr \in Nat /\ o.size \in Nat /\ free_idx \in Nat /\ End \in Nat
    BY UntypedAssumption DEF UntypedInv, TypeOK, Object, End
  <2> QED BY <2>1 DEF UntypedInv, BelowFreeIndex
<1> HIDE DEF Inv
<1> QED BY <1>1, <1>2, <1>3, PTL DEF UntypedSpec

\* The free index never moves backwards and no object is forgotten.
THEOREM FreeIndexCorrect ==
    ASSUME OverflowChecks
    PROVE  UntypedSpec => FreeIndexNeverReturns
<1>1. UntypedInv /\ [UntypedNext]_untyped_vars => UntypedInv'
  BY StepInv
<1>2. UntypedInv /\ [UntypedNext]_untyped_vars => [free_idx' >= free_idx /\ objects \subseteq objects']_untyped_vars
  BY StepInv
<1> QED BY InitInv, <1>1, <1>2, PTL DEF UntypedSpec, FreeIndexNeverReturns

=============================================================================
