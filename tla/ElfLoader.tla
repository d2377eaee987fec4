----------------------------- MODULE ElfLoader ------------------------------
(***************************************************************************)
(* The root server loads a program into a new address space: it maps new   *)
(* pages there, making the page tables they need, and fills each page      *)
(* through a temporary mapping in its own address space.  Every step makes *)
(* one call to the kernel, an invocation of VSpace, or writes one page;    *)
(* between the steps the processor caches translations, and other threads  *)
(* run.  Sizes are in units of which a page has PageSize.                  *)
(*                                                                         *)
(* Sources: rootserver/src/elf.rs, shared/src/elf.rs, address.rs.          *)
(***************************************************************************)
EXTENDS VSpace, Sequences

CONSTANTS
    PageSize,
    VpnBits,        \* 9 in Sv48
    Segments,       \* the Load segments: vaddr, memsz and filesz
    FreeAddress,    \* where the root server maps a page to fill it
    Zero            \* the content of a new page

\* The linker script starts every segment at a page, and the kernel rejects addresses
\* that are not aligned.
ASSUME LoaderAssumption ==
    /\ PageSize \in Nat \ {0} /\ VpnBits \in Nat /\ Vpns = 0..(2^VpnBits - 1)
    /\ FreeAddress \in Nat /\ FreeAddress % PageSize = 0
    /\ Segments \in Seq([vaddr : Nat, memsz : Nat, filesz : Nat]) /\ Segments # <<>>
    /\ \A s \in 1..Len(Segments) : Segments[s].vaddr % PageSize = 0

VARIABLES
    target,         \* target_root_vspace, the new root table
    pc,             \* the next step of the mapper
    seg, idx,       \* the segment and the page of it
    file_sz_rem,    \* what is left of the segment's file content
    page_cap, tmp_page_cap,
    content         \* of each page: the segment, page and size copied to it

lvars == <<target, pc, seg, idx, file_sz_rem, page_cap, tmp_page_cap, content>>

align_up(size) == ((size + PageSize - 1) \div PageSize) * PageSize
Min(a, b) == IF a < b THEN a ELSE b

\* get_vpn for every level.
get_vpn(vaddr) ==
    [level \in 0..Top |-> (vaddr \div (PageSize * 2^(VpnBits * level))) % 2^VpnBits]

Free == get_vpn(FreeAddress)

\* What retype makes next, as long as there is memory for it.
NewTables == {t \in Tables : ~tableCap[t].mapped}
NewPages == {p \in Pages : \A c \in DOMAIN pageCap : pageCap[c].page # p}
NewTable == CHOOSE t \in NewTables : TRUE
NewPage == CHOOSE p \in NewPages : TRUE
NewCap == CHOOSE c \in PageCaps : c \notin DOMAIN pageCap

VAddr(s, i) == get_vpn(Segments[s].vaddr + PageSize * i)
PageNum(s) == align_up(Segments[s].memsz) \div PageSize

Goto(label) == pc' = label /\ UNCHANGED <<seg, idx, file_sz_rem, page_cap, tmp_page_cap, content>>

\* What retype and get_slot can always answer: no memory, no slot.
Shortage == Goto("failed") /\ UNCHANGED vars

----------------------------------------------------------------------------
(* map_self and map_program: the loops over segments and pages *)

NextPage ==
    /\ pc = "next"
    /\ UNCHANGED <<page_cap, tmp_page_cap, content>>
    /\ UNCHANGED vars
    /\ \/ /\ idx < PageNum(seg)
          /\ pc' = "page"
          /\ UNCHANGED <<seg, idx, file_sz_rem>>
       \/ /\ idx = PageNum(seg) /\ seg < Len(Segments)
          /\ seg' = seg + 1
          /\ idx' = 0
          /\ file_sz_rem' = Segments[seg + 1].filesz
          /\ UNCHANGED pc
       \/ /\ idx = PageNum(seg) /\ seg = Len(Segments)
          /\ pc' = "done"
          /\ UNCHANGED <<seg, idx, file_sz_rem>>

----------------------------------------------------------------------------
(* map_page_with_tables: a new page, and the tables that its address lacks *)

RetypePage ==
    /\ pc = "page"
    /\ \/ Shortage
       \/ /\ NewPages # {}
          /\ PageRetype(NewPage, NewCap)
          /\ page_cap' = NewCap
          /\ pc' = "map"
          /\ UNCHANGED <<seg, idx, file_sz_rem, tmp_page_cap, content>>

MapPage ==
    /\ pc = "map"
    /\ IF CanMap(page_cap, target, VAddr(seg, idx))
       THEN PageMap(page_cap, target, VAddr(seg, idx)) /\ Goto("copy")
       ELSE /\ Goto(IF walk(target, VAddr(seg, idx)).level # 0    \* PageTableNotMappedYet
                    THEN "tables" ELSE "error")
            /\ UNCHANGED vars

\* Mutant: one table is taken to be enough.
LoopEndsEarly(level) == TRUE

\* The loop ends when the kernel reports that the last table is mapped.
LoopEnds(level) == level = 0

MapTable ==
    /\ pc = "tables"
    /\ \/ Shortage
       \/ LET level == walk(target, VAddr(seg, idx)).level
          IN  IF level # 0
              THEN /\ NewTables # {}
                   /\ PageTableMap(NewTable, target, VAddr(seg, idx))
                   /\ Goto(IF LoopEnds(level - 1) THEN "again" ELSE "tables")
              ELSE Goto("tables") /\ UNCHANGED vars       \* an error starts the next round

MapPageAgain ==
    /\ pc = "again"
    /\ IF CanMap(page_cap, target, VAddr(seg, idx))
       THEN PageMap(page_cap, target, VAddr(seg, idx)) /\ Goto("copy")
       ELSE Goto("error") /\ UNCHANGED vars

----------------------------------------------------------------------------
(* map_page: the content of the page, through a temporary mapping *)

CopyCap ==
    /\ pc = "copy"
    /\ \/ /\ file_sz_rem = 0
          /\ idx' = idx + 1
          /\ pc' = "next"
          /\ UNCHANGED <<seg, file_sz_rem, page_cap, tmp_page_cap, content>>
          /\ UNCHANGED vars
       \/ file_sz_rem # 0 /\ Shortage
       \/ /\ file_sz_rem # 0
          /\ PageCopy(page_cap, NewCap)
          /\ tmp_page_cap' = NewCap
          /\ pc' = "mapTmp"
          /\ UNCHANGED <<seg, idx, file_sz_rem, page_cap, content>>

MapTmp ==
    /\ pc = "mapTmp"
    /\ IF CanMap(tmp_page_cap, BootRoot, Free)
       THEN PageMap(tmp_page_cap, BootRoot, Free) /\ Goto("write")
       ELSE Goto("error") /\ UNCHANGED vars

\* The store instructions of ptr::copy go where a cached translation says, or
\* else the tables.
Written == {e[2] : e \in {f \in tlb : f[1] = Free}} \cup {Translation(BootRoot, Free)}

WritePage ==
    /\ pc = "write"
    /\ \E page \in Written :
        content' = [content EXCEPT ![page] =
                     [seg |-> seg, idx |-> idx, size |-> Min(PageSize, file_sz_rem)]]
    /\ file_sz_rem' = IF file_sz_rem > PageSize THEN file_sz_rem - PageSize ELSE 0
    /\ pc' = "unmap"
    /\ UNCHANGED <<seg, idx, page_cap, tmp_page_cap>>
    /\ UNCHANGED vars

\* CNodeCapability::delete, which follows, does nothing.
UnmapTmp ==
    /\ pc = "unmap"
    /\ PageUnMap(tmp_page_cap, BootRoot)
    /\ idx' = idx + 1
    /\ pc' = "next"
    /\ UNCHANGED <<seg, file_sz_rem, page_cap, tmp_page_cap, content>>

----------------------------------------------------------------------------
(* The specification *)

\* The tables for FreeAddress: those above the last come from the boot code, the
\* last one is the page_table that try_main maps.
MapFreeTable ==
    /\ pc = "setup"
    /\ \/ /\ walk(BootRoot, Free).level # 0 /\ NewTables # {}
          /\ PageTableMap(NewTable, BootRoot, Free) /\ Goto("setup")
       \/ walk(BootRoot, Free).level = 0 /\ Goto("root") /\ UNCHANGED vars
    /\ UNCHANGED target

\* ElfProgramMapper::try_new.
TryNew ==
    /\ pc = "root"
    /\ NewTables # {}
    /\ make_as_root(NewTable)
    /\ target' = NewTable
    /\ Goto("next")

LoaderInit ==
    /\ Init
    /\ target = BootRoot
    /\ pc = "setup" /\ seg = 1 /\ idx = 0
    /\ file_sz_rem = Segments[1].filesz
    /\ page_cap = NewCap /\ tmp_page_cap = NewCap
    /\ content = [p \in Pages |-> Zero]

\* The steps of the loader, while its address space is the active one.
Loader ==
    /\ active = BootRoot
    /\ \/ MapFreeTable
       \/ TryNew
       \/ /\ \/ NextPage \/ RetypePage \/ MapPage \/ MapTable \/ MapPageAgain
             \/ CopyCap \/ MapTmp \/ WritePage \/ UnmapTmp
          /\ UNCHANGED target

\* Other threads and the processor.
Switch == \E r \in {BootRoot, Kernel} : Activate(r) /\ UNCHANGED lvars
Cache == \E a \in Addresses : CacheTranslation(a) /\ UNCHANGED lvars

LoaderNext == Loader \/ Switch \/ Cache

\* The scheduler lets the root server run again and again.
LoaderSpec ==
    /\ LoaderInit /\ [][LoaderNext]_<<vars, lvars>>
    /\ SF_<<vars, lvars>>(Loader)
    /\ WF_<<vars, lvars>>(active = Kernel /\ Switch)

----------------------------------------------------------------------------
(* Properties *)

\* What a page of the program must contain: the part of the file that the segment
\* has for it, and zeros behind it.
Expected(s, i) ==
    LET rest == Segments[s].filesz - PageSize * i
    IN  IF rest <= 0 THEN Zero ELSE [seg |-> s, idx |-> i, size |-> Min(PageSize, rest)]

\* When the loader is done, every page of every segment is mapped in the new
\* address space and has its content, and nothing is left of the temporary
\* mapping: a stale cached translation of FreeAddress would fill a wrong page.
ImageLoaded ==
    pc = "done" =>
        /\ \A s \in 1..Len(Segments) : \A i \in 0..(PageNum(s) - 1) :
            /\ Translation(target, VAddr(s, i)) # Unmapped
            /\ content[Translation(target, VAddr(s, i))] = Expected(s, i)
        /\ Translation(BootRoot, Free) = Unmapped

\* The loader comes to an end, and only a shortage of memory or slots stops it early:
\* the loop of map_page_tables adds one level of tables in every round, the map that
\* follows it succeeds, and FreeAddress is free for every page.
LoaderEnds == <>(pc \in {"done", "failed"})

=============================================================================
