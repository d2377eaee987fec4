-------------------------------- MODULE Boot --------------------------------
(***************************************************************************)
(* The boot code: it allocates the root server's objects, loads its image, *)
(* fills its root CNode, turns the rest of the memory into untyped blocks  *)
(* and tells the root server about them in BootInfo.  Every step can end   *)
(* in a panic: the code asserts and unwraps.                               *)
(*                                                                         *)
(* Memory and virtual addresses are counted in pages, sizes of segments in *)
(* units of which a page has PageSize.                                     *)
(*                                                                         *)
(* Sources: kernel/src/init.rs, init/{root_server,pm}.rs,                  *)
(* capability/cnode.rs (write_slot), shared/src/elf.rs, types.rs.          *)
(***************************************************************************)
EXTENDS Naturals, Sequences, FiniteSetsExt

CONSTANTS
    Images,         \* root servers: sequences of Load segments
    RamPages,       \* sizes of the free memory
    Capacities,     \* numbers of slots of the root CNode
    CNodePages,     \* pages of the root CNode
    PageSize,
    Fan, Top,       \* entries of a page table, and the level of the root table
    MaxInfos,       \* length of BootInfo::untyped_infos
    None

align_up(size) == ((size + PageSize - 1) \div PageSize) * PageSize
PageNum(segment) == align_up(segment.memsz) \div PageSize

\* An image has Load segments, which start at page boundaries and share no page.
ASSUME BootAssumption ==
    /\ CNodePages \in Nat \ {0} /\ PageSize \in Nat \ {0} /\ Top \in Nat \ {0}
    /\ RamPages \subseteq Nat /\ Capacities \subseteq Nat
    /\ \A image \in Images :
        /\ Len(image) > 0
        /\ image \in Seq([vaddr : Nat, memsz : Nat, filesz : Nat])
    /\ \A image \in Images : \A s, r \in DOMAIN image : s # r =>
        \/ image[s].vaddr + PageNum(image[s]) <= image[r].vaddr
        \/ image[r].vaddr + PageNum(image[r]) <= image[s].vaddr

VARIABLES
    image, ram, capacity,   \* the machine that boots
    start_addr,             \* of BumpAllocator
    regions,                \* what the memory is used for
    slots,                  \* the root CNode
    cnode_start_idx,        \* the next slot of RootServerResourceManager
    mapping, tables,        \* the root server's address space: pages and tables
    max_vaddr,
    content,                \* what was copied to a page
    pc, seg, idx, file_sz_rem,
    page,                   \* the page being mapped: its use, frame and address
    boot_info, panic

machine == <<image, ram, capacity>>
memory == <<start_addr, regions>>
cnode == <<slots, cnode_start_idx>>
space == <<mapping, tables, content>>
elf == <<seg, idx, file_sz_rem, max_vaddr>>
vars == <<machine, memory, cnode, space, elf, pc, page, boot_info, panic>>

ROOT_TCB_IDX == 1
ROOT_CNODE_IDX == 2
ROOT_VSPACE_IDX == 3
ROOT_IPC_BUFFER == 4
ROOT_BOOT_INFO_PAGE == 5

\* The objects of init_with_uninit in the order of their allocation.
Vspace == CNodePages
Tcb == CNodePages + 1
IpcBuf == CNodePages + 2
BootFrame == CNodePages + 3

Region(use, start, pages) == [use |-> use, start |-> start, pages |-> pages]

\* f with f[x] = y.
With(f, x, y) == [k \in DOMAIN f \cup {x} |-> IF k = x THEN y ELSE f[k]]

Panics(reason) ==
    /\ panic' = reason /\ pc' = "panic"
    /\ UNCHANGED <<machine, memory, cnode, space, elf, page, boot_info>>

----------------------------------------------------------------------------
(* The resources: pages and slots *)

\* Mutant: the memory is checked before it is taken.
EnoughPagesBefore(n) == start_addr <= ram

\* The assertion of allocate_pages.
EnoughPages(n) == start_addr + n <= ram

allocate_pages(use, n) ==
    /\ regions' = regions \cup {Region(use, start_addr, n)}
    /\ start_addr' = start_addr + n

\* The assertion of alloc_cnode_idx.
EnoughSlots == cnode_start_idx <= capacity - 1

\* write_slot: refuses an index out of range and a slot in use.
CanWrite(i) == i < capacity /\ slots[i] = None

write_slot(cap, i) == slots' = [slots EXCEPT ![i] = cap]

Cap(type, frame, mapped) == [type |-> type, frame |-> frame, mapped |-> mapped]

----------------------------------------------------------------------------
(* The root server's objects *)

init_with_uninit ==
    /\ pc = "objects"
    /\ IF EnoughPages(CNodePages + 4)
       THEN /\ regions' = {Region("CNode", 0, CNodePages)} \cup
                          {Region("object", f, 1) : f \in {Vspace, Tcb, IpcBuf, BootFrame}}
            /\ start_addr' = CNodePages + 4
            /\ pc' = "cnode"
            /\ UNCHANGED <<machine, cnode, space, elf, page, boot_info, panic>>
       ELSE Panics("memory")

create_root_cnode ==
    /\ pc = "cnode" /\ pc' = "vspace"
    /\ write_slot(Cap("CNode", 0, FALSE), ROOT_CNODE_IDX)
    /\ UNCHANGED <<machine, memory, cnode_start_idx, space, elf, page, boot_info, panic>>

\* The beginning of create_address_space: an empty root table.
create_address_space ==
    /\ pc = "vspace" /\ pc' = "next"
    /\ write_slot(Cap("PageTable", Vspace, TRUE), ROOT_VSPACE_IDX)
    /\ UNCHANGED <<machine, memory, cnode_start_idx, space, elf, page, boot_info, panic>>

----------------------------------------------------------------------------
(* The loops of map_self and map_program *)

\* Mutant: the highest address is that of the last segment.
MaxVaddrLast(vaddr) == vaddr

MaxVaddr(vaddr) == IF max_vaddr < vaddr THEN vaddr ELSE max_vaddr

\* The next page of the segment gets a frame.
MapProgram ==
    /\ pc = "next" /\ idx < PageNum(image[seg])
    /\ IF EnoughPages(1)
       THEN /\ allocate_pages("page", 1)
            /\ page' = [use |-> "elf", frame |-> start_addr, vaddr |-> image[seg].vaddr + idx]
            /\ max_vaddr' = MaxVaddr(image[seg].vaddr + idx)
            /\ pc' = "map"
            /\ UNCHANGED <<machine, cnode, space, seg, idx, file_sz_rem, boot_info, panic>>
       ELSE Panics("memory")

NextSegment ==
    /\ pc = "next" /\ idx = PageNum(image[seg]) /\ seg < Len(image)
    /\ seg' = seg + 1 /\ idx' = 0 /\ file_sz_rem' = image[seg + 1].filesz
    /\ UNCHANGED <<machine, memory, cnode, space, max_vaddr, pc, page, boot_info, panic>>

\* create_ipc_buf_frame and create_boot_info_frame: the two pages behind the image.
MapFrames ==
    /\ pc = "next" /\ idx = PageNum(image[seg]) /\ seg = Len(image)
    /\ page' = CASE page.use = "elf" -> [use |-> "ipc", frame |-> IpcBuf, vaddr |-> max_vaddr + 1]
                 [] page.use = "ipc" -> [use |-> "info", frame |-> BootFrame, vaddr |-> max_vaddr + 2]
                 [] page.use = "info" -> page
    /\ pc' = IF page.use = "info" THEN "tcb" ELSE "map"
    /\ UNCHANGED <<machine, memory, cnode, space, elf, boot_info, panic>>

----------------------------------------------------------------------------
(* create_mapped_page_cap *)

\* The tables that an address needs: at each level below the root, the one with
\* this number.  The walk stops at the highest that is missing.
Needed(vaddr) == {<<level, vaddr \div Fan^(level + 1)>> : level \in 0..(Top - 1)}
Missing == Needed(page.vaddr) \ tables
Highest == CHOOSE t \in Missing : \A u \in Missing : u[1] <= t[1]

\* One round of map_page_tables: the capability is put into its slot before the
\* table is mapped, so the copy in the slot says that it is not.
MapPageTable ==
    /\ pc = "map" /\ Missing # {}
    /\ IF ~EnoughPages(1) THEN Panics("memory")
       ELSE IF ~EnoughSlots THEN Panics("slots")
       ELSE IF ~CanWrite(cnode_start_idx) THEN Panics("write_slot")
       ELSE /\ allocate_pages("table", 1)
            /\ write_slot(Cap("PageTable", start_addr, FALSE), cnode_start_idx)
            /\ cnode_start_idx' = cnode_start_idx + 1
            /\ tables' = tables \cup {Highest}
            /\ UNCHANGED <<machine, mapping, content, elf, pc, page, boot_info, panic>>

\* The slot of a page: a new one for the image, a fixed one for the frames.
SlotOf(use) ==
    CASE use = "elf" -> cnode_start_idx
      [] use = "ipc" -> ROOT_IPC_BUFFER
      [] use = "info" -> ROOT_BOOT_INFO_PAGE

\* Mutant: the size of the whole segment is used for every page.
RestOfFileAll == file_sz_rem

\* saturating_sub
RestOfFile == IF file_sz_rem > PageSize THEN file_sz_rem - PageSize ELSE 0

MapPage ==
    /\ pc = "map" /\ Missing = {}
    /\ IF page.vaddr \in DOMAIN mapping THEN Panics("already mapped")
       ELSE IF page.use = "elf" /\ ~EnoughSlots THEN Panics("slots")
       ELSE IF ~CanWrite(SlotOf(page.use)) THEN Panics("write_slot")
       ELSE /\ mapping' = With(mapping, page.vaddr, page.frame)
            /\ write_slot(Cap("Page", page.frame, TRUE), SlotOf(page.use))
            /\ pc' = "next"
            /\ IF page.use = "elf"
               THEN /\ cnode_start_idx' = cnode_start_idx + 1
                    /\ idx' = idx + 1
                    /\ file_sz_rem' = RestOfFile
                    /\ content' = IF file_sz_rem = 0 THEN content
                                  ELSE With(content, page.frame, <<seg, idx, Min({PageSize, file_sz_rem})>>)
               ELSE UNCHANGED <<cnode_start_idx, idx, file_sz_rem, content>>
            /\ UNCHANGED <<machine, memory, tables, seg, max_vaddr, page, boot_info, panic>>

----------------------------------------------------------------------------
(* The root thread, the untyped blocks, and BootInfo *)

\* The thread gets copies of the capabilities in three slots: unwrap.
create_root_tcb ==
    /\ pc = "tcb"
    /\ IF None \in {slots[i] : i \in {ROOT_CNODE_IDX, ROOT_VSPACE_IDX, ROOT_IPC_BUFFER}}
       THEN Panics("unwrap")
       ELSE /\ write_slot(Cap("Tcb", Tcb, FALSE), ROOT_TCB_IDX)
            /\ pc' = "untyped"
            /\ UNCHANGED <<machine, memory, cnode_start_idx, space, elf, page, boot_info, panic>>

\* The largest power of two that is not above n: UntypedCap::create_cap_dep_val
\* keeps the logarithm of a block's size only.
ilog2(n) == CHOOSE b \in 0..n : 2^b <= n /\ n < 2^(b + 1)

BlockSize == 2^ilog2(ram - start_addr)

\* UntypedCapGenerator stops when one page or less is left.
GeneratorEnds == start_addr + 1 >= ram

\* Mutant: the index of the last block.
FirstEmptyLast == cnode_start_idx

FirstEmpty == cnode_start_idx + 1

Untyped ==
    /\ pc = "untyped" /\ ~GeneratorEnds
    /\ IF ~EnoughSlots THEN Panics("slots")
       ELSE IF Len(boot_info.untyped_infos) >= MaxInfos THEN Panics("infos")
       ELSE IF ~CanWrite(cnode_start_idx) THEN Panics("write_slot")
       ELSE /\ allocate_pages("untyped", BlockSize)
            /\ write_slot(Cap("Untyped", start_addr, FALSE), cnode_start_idx)
            /\ cnode_start_idx' = cnode_start_idx + 1
            /\ boot_info' = [boot_info EXCEPT
                    !.untyped_infos = Append(@, [bits |-> BlockSize, idx |-> cnode_start_idx]),
                    !.firtst_empty_idx = FirstEmpty]
            /\ UNCHANGED <<machine, space, elf, pc, page, panic>>

\* The rest of create_initial_thread.
Finish ==
    /\ pc = "untyped" /\ GeneratorEnds
    /\ pc' = "done"
    /\ boot_info' = [boot_info EXCEPT !.ipc_buffer_addr = max_vaddr + 1, !.addr = max_vaddr + 2]
    /\ UNCHANGED <<machine, memory, cnode, space, elf, page, panic>>

----------------------------------------------------------------------------
(* The specification *)

Init ==
    /\ image \in Images /\ ram \in RamPages /\ capacity \in Capacities
    /\ start_addr = 0 /\ regions = {}
    /\ slots = [i \in 0..(capacity - 1) |-> None]
    /\ cnode_start_idx = ROOT_BOOT_INFO_PAGE + 1
    /\ mapping = <<>> /\ tables = {} /\ content = <<>>
    /\ max_vaddr = 0 /\ seg = 1 /\ idx = 0 /\ file_sz_rem = image[1].filesz
    /\ page = [use |-> "elf", frame |-> 0, vaddr |-> 0]
    /\ boot_info = [untyped_infos |-> <<>>, firtst_empty_idx |-> 0, ipc_buffer_addr |-> 0, addr |-> 0]
    /\ pc = "objects" /\ panic = None

Boots ==
    \/ init_with_uninit \/ create_root_cnode \/ create_address_space
    \/ MapProgram \/ NextSegment \/ MapFrames \/ MapPageTable \/ MapPage
    \/ create_root_tcb \/ Untyped \/ Finish

\* The boot is over, or the panic handler loops.
Over == pc \in {"done", "panic"} /\ UNCHANGED vars

Next == Boots \/ Over

\* The boot code runs alone and without interruption.
Spec == Init /\ [][Next]_vars /\ WF_vars(Boots)

----------------------------------------------------------------------------
(* Properties *)

\* No page of memory has two uses, and all are in the free memory: an untyped
\* block holds nothing of the root server or of the kernel.
MemoryUsedOnce ==
    /\ \A r \in regions : r.start + r.pages <= ram
    /\ \A r, q \in regions :
        r # q => r.start + r.pages <= q.start \/ q.start + q.pages <= r.start

\* BootInfo tells the truth: its entries name the slots of all untyped blocks with
\* the sizes of the blocks, and from firtst_empty_idx on all slots are empty.
BootInfoTrue ==
    pc = "done" =>
        LET infos == Range(boot_info.untyped_infos)
        IN  /\ {Region("untyped", slots[i.idx].frame, i.bits) : i \in infos} =
               {r \in regions : r.use = "untyped"}
            /\ infos # {} =>
                \A i \in DOMAIN slots : i >= boot_info.firtst_empty_idx => slots[i] = None

\* The root server finds its image, its IPC buffer and BootInfo where it expects
\* them: every page of a segment is mapped to a page of its own with the part of
\* the file that belongs to it.
ImageInPlace ==
    pc = "done" =>
        /\ \A s \in DOMAIN image : \A i \in 0..(PageNum(image[s]) - 1) :
            LET frame == mapping[image[s].vaddr + i]
                rest == image[s].filesz - PageSize * i
            IN  /\ Region("page", frame, 1) \in regions
                /\ IF rest <= 0 THEN frame \notin DOMAIN content
                   ELSE content[frame] = <<s, i, Min({PageSize, rest})>>
        /\ mapping[boot_info.ipc_buffer_addr] = IpcBuf
        /\ mapping[boot_info.addr] = BootFrame

ImagePages == UNION {image[s].vaddr..(image[s].vaddr + PageNum(image[s]) - 1) : s \in DOMAIN image}
LastFrame == Max(ImagePages) + 2
RequiredTables == UNION {Needed(v) : v \in ImagePages \cup {LastFrame - 1, LastFrame}}

\* What an image needs: its pages and the tables for them and for the two frames, and
\* a slot for each of these and for every block.
Enough ==
    /\ ram >= CNodePages + 4 + Cardinality(ImagePages) + Cardinality(RequiredTables)
    /\ capacity >= ROOT_BOOT_INFO_PAGE + 1 + Cardinality(ImagePages) + Cardinality(RequiredTables)
                    + MaxInfos

\* A machine with just enough memory and slots boots: the loops over pages, tables and
\* blocks end, and allocate no page and no slot more than that.
BootSucceeds == Enough => <>(pc = "done")

=============================================================================
