------------------------------- MODULE VSpace -------------------------------
(***************************************************************************)
(* Address spaces: page tables, the page and page-table capabilities that  *)
(* map them, and the translations that the processor caches.               *)
(*                                                                         *)
(* A page capability can be copied, and each copy is mapped on its own.    *)
(* The kernel also copies the capability of a page table that is not       *)
(* mapped, and takes any page table for root_table: Copied and AnyRoot say *)
(* whether callers do that.  The root server does neither (Disciplined),   *)
(* and the properties below are about callers like it: once a page is      *)
(* taken for a table, or a table for a page, this module says no more.     *)
(* Addresses are those of the user half.  Whether a slot holds a           *)
(* capability is the subject of CSpace.                                    *)
(*                                                                         *)
(* Sources: kernel/src/object/page_table.rs, capability/page_table.rs,     *)
(* syscall.rs, address.rs, init/vm.rs.                                     *)
(***************************************************************************)
EXTENDS Integers, FiniteSets

CONSTANTS
    Top,            \* the level of a root table: 3 in Sv48
    Vpns,           \* the entries of a table for user addresses
    KernelVpn,      \* the entry of a root table for kernel addresses
    Tables,         \* the page tables
    BootRoot,       \* the root server's root table
    Pages,          \* the pages
    PageCaps,       \* bound: the page capabilities that ever exist
    Copied,         \* the tables of which a caller keeps a copy that is not mapped
    AnyRoot,        \* whether a caller names tables that are no roots as root_table
    Kernel,         \* KERNEL_VM_ROOT, and what its entry points to
    Unmapped        \* in a page capability without is_mapped

ASSUME VSpaceAssumption ==
    /\ Top \in Nat \ {0}
    /\ KernelVpn \notin Vpns
    /\ BootRoot \in Tables /\ Kernel \notin Tables
    /\ Copied \subseteq Tables /\ AnyRoot \in BOOLEAN
    /\ Tables \cap Pages = {}
    /\ Unmapped \notin Pages /\ Unmapped \notin [0..Top -> Vpns]
    /\ IsFiniteSet(Tables) /\ IsFiniteSet(PageCaps)

VARIABLES
    entries,        \* the valid entries of each table, by vpn
    tableCap,       \* the is_mapped and is_root bits set in a capability to each table
    pageCap,        \* the page capabilities: page, and mapped_address if is_mapped
    active,         \* the root table in satp, or Kernel for KERNEL_VM_ROOT
    tlb             \* the translations of the active table that the processor caches

vars == <<entries, tableCap, pageCap, active, tlb>>

\* A virtual address is its vpns, from level 0 to the level of the root.
Addresses == [0..Top -> Vpns]

Roots == {t \in Tables : tableCap[t].root}

\* The tables that callers name as root_table.
RootArguments == IF AnyRoot THEN Tables ELSE Roots

\* The calls of the root server: libzoea has no copy of a PageTable, and every
\* root_table is a root.
Disciplined == Copied = {} /\ ~AnyRoot

\* The content of KERNEL_VM_ROOT, and of a new table.
KernelRoot == [i \in {KernelVpn} |-> Kernel]
Empty == [i \in {} |-> Kernel]

----------------------------------------------------------------------------
(* Walking and writing tables *)

\* Pte::is_valid; a page that is taken for a table has no valid entry.
IsValid(table, vpn) == table \in Tables /\ vpn \in DOMAIN entries[table]

\* PageTable::walk: the level it stops at and the table whose entry it returns.
walk(root, addr) ==
    LET down[level \in 0..Top] ==
          [table \in Tables \cup Pages |->
              IF level = 0 \/ ~IsValid(table, addr[level]) THEN [level |-> level, table |-> table]
              ELSE down[level - 1][entries[table][addr[level]]]]
    IN  down[Top][root]

\* Pte::write and Pte::clear.
Write(table, vpn, to) ==
    [entries EXCEPT ![table] = [i \in DOMAIN @ \cup {vpn} |-> IF i = vpn THEN to ELSE @[i]]]
Clear(table, vpn) ==
    [entries EXCEPT ![table] = [i \in DOMAIN @ \ {vpn} |-> @[i]]]

\* What the tables under a root translate an address to.
Translation(root, addr) ==
    LET w == walk(root, addr)
    IN  IF w.level = 0 /\ IsValid(w.table, addr[0]) THEN entries[w.table][addr[0]] ELSE Unmapped

----------------------------------------------------------------------------
(* Invocations *)

\* Mutant: an entry that is valid can be the last one of the walk.
TableFitsAnyLevel(w) == TRUE

\* A table goes where the walk stopped above level 0; its last table is complete.
TableFits(w) == w.level > 0

\* A capability without is_mapped to the table: the only one, or a copy.
HasUnmapped(table) == tableCap[table].mapped => table \in Copied

\* PageTableCap::map.  There is no sfence: only an invalid entry is written.
PageTableMap(table, root, addr) ==
    LET w == walk(root, addr)
    IN  /\ HasUnmapped(table)
        /\ TableFits(w)
        /\ entries' = Write(w.table, addr[w.level], table)
        /\ tableCap' = [tableCap EXCEPT ![table].mapped = TRUE]
        /\ UNCHANGED <<pageCap, active, tlb>>

\* The whole table is overwritten by the kernel's root.
copy_global_mapping(table) == KernelRoot

\* Mutant: a table that is mapped already is made a root.
MakeRootAllowedAny(table) == TRUE

MakeRootAllowed(table) == HasUnmapped(table)

make_as_root(table) ==
    /\ MakeRootAllowed(table)
    /\ entries' = [entries EXCEPT ![table] = copy_global_mapping(table)]
    /\ tableCap' = [tableCap EXCEPT ![table] = [mapped |-> TRUE, root |-> TRUE]]
    /\ UNCHANGED <<pageCap, active, tlb>>

\* Mutant: the new mapping is not flushed.
sfenceNot(cached) == cached

\* sfence.vma x0, x0: every cached translation is dropped.
sfence(cached) == {}

\* PageCap::map: into an entry of level 0 that is not valid.
CanMap(cap, root, addr) ==
    /\ pageCap[cap].at = Unmapped
    /\ walk(root, addr).level = 0
    /\ ~IsValid(walk(root, addr).table, addr[0])

PageMap(cap, root, addr) ==
    /\ CanMap(cap, root, addr)
    /\ entries' = Write(walk(root, addr).table, addr[0], pageCap[cap].page)
    /\ pageCap' = [pageCap EXCEPT ![cap].at = addr]
    /\ tlb' = sfence(tlb)
    /\ UNCHANGED <<tableCap, active>>

\* Mutant: the page in the entry is not compared with the capability's.
IsPageAny(cap, table, vpn) == TRUE

\* Page::unmap clears an entry only if it points to this page.
IsPage(cap, table, vpn) == entries[table][vpn] = pageCap[cap].page

\* PageCap::unmap: at the address of the capability, in the root that the caller
\* names.  There is no sfence.
PageUnMap(cap, root) ==
    LET addr == pageCap[cap].at
        w == walk(root, addr)
    IN  /\ addr # Unmapped
        /\ w.level = 0
        /\ IsValid(w.table, addr[0])
        /\ IsPage(cap, w.table, addr[0])
        /\ entries' = Clear(w.table, addr[0])
        /\ pageCap' = [pageCap EXCEPT ![cap].at = Unmapped]
        /\ UNCHANGED <<tableCap, active, tlb>>

\* PageCap::derive: the copy of a mapped page is not mapped.
derive(cap) == [page |-> pageCap[cap].page, at |-> Unmapped]

PageCopy(cap, new) ==
    /\ pageCap[cap].at # Unmapped
    /\ new \in PageCaps \ DOMAIN pageCap
    /\ pageCap' = [c \in DOMAIN pageCap \cup {new} |->
                     IF c = new THEN derive(cap) ELSE pageCap[c]]
    /\ UNCHANGED <<entries, tableCap, active, tlb>>

\* CNodeMove: the capability in the new slot is derived, too, and is not mapped.  The
\* entry stays.
PageMove(cap) ==
    /\ pageCap[cap].at # Unmapped
    /\ pageCap' = [pageCap EXCEPT ![cap] = derive(cap)]
    /\ UNCHANGED <<entries, tableCap, active, tlb>>

\* Retype: a page that no capability names gets its first one.
PageRetype(page, new) ==
    /\ \A c \in DOMAIN pageCap : pageCap[c].page # page
    /\ new \in PageCaps \ DOMAIN pageCap
    /\ pageCap' = [c \in DOMAIN pageCap \cup {new} |->
                     IF c = new THEN [page |-> page, at |-> Unmapped] ELSE pageCap[c]]
    /\ UNCHANGED <<entries, tableCap, active, tlb>>

\* PageTable::activate, when the scheduler switches to a thread of that address
\* space, or to the kernel's table for a thread without one.
Activate(root) ==
    /\ active' = root
    /\ tlb' = sfence(tlb)
    /\ UNCHANGED <<entries, tableCap, pageCap>>

\* The processor may cache any translation of the active table at any time.
CacheTranslation(addr) ==
    /\ active # Kernel
    /\ Translation(active, addr) # Unmapped
    /\ tlb' = tlb \cup {<<addr, Translation(active, addr)>>}
    /\ UNCHANGED <<entries, tableCap, pageCap, active>>

----------------------------------------------------------------------------
(* The specification *)

\* The root server runs; the tables and pages of its own program are left out.
Init ==
    /\ entries = [t \in Tables |-> IF t = BootRoot THEN KernelRoot ELSE Empty]
    /\ tableCap = [t \in Tables |-> [mapped |-> t = BootRoot, root |-> t = BootRoot]]
    /\ pageCap = Empty
    /\ active = BootRoot
    /\ tlb = {}

Next ==
    \/ \E t \in Tables, r \in RootArguments, a \in Addresses : PageTableMap(t, r, a)
    \/ \E t \in Tables : make_as_root(t)
    \/ \E c \in DOMAIN pageCap, r \in RootArguments, a \in Addresses : PageMap(c, r, a)
    \/ \E c \in DOMAIN pageCap, r \in RootArguments : PageUnMap(c, r)
    \/ \E c \in DOMAIN pageCap : PageMove(c)
    \/ \E c \in DOMAIN pageCap, d \in PageCaps : PageCopy(c, d)
    \/ \E p \in Pages, d \in PageCaps : PageRetype(p, d)
    \/ \E r \in Roots \cup {Kernel} : Activate(r)
    \/ \E a \in Addresses : CacheTranslation(a)

Spec == Init /\ [][Next]_vars

----------------------------------------------------------------------------
(* Properties *)

\* A walk from a root meets tables only above level 0 and pages only at level 0,
\* and no table is met by two different walks: as_page_table never takes a page
\* for a table, and no two addresses or address spaces share a table.
TablesFormTrees ==
    /\ \A r \in Roots, a \in Addresses : Translation(r, a) \in Pages \cup {Unmapped}
    /\ \A t \in Tables :
        Cardinality({e \in Tables \X Vpns : IsValid(e[1], e[2]) /\ entries[e[1]][e[2]] = t})
            = IF tableCap[t].mapped /\ ~tableCap[t].root THEN 1 ELSE 0

\* Each capability to a page that says it is mapped at an address has an entry of its
\* own that maps the page there, so that its unmap succeeds in some address space:
\* unmap through a root that the caller chooses may clear another capability's entry,
\* but leaves its own to that one.  (A move leaves entries that no capability says.)
MappingsCounted ==
    \A p \in Pages, a \in Addresses :
        Cardinality({c \in DOMAIN pageCap : pageCap[c] = [page |-> p, at |-> a]})
            <= Cardinality({r \in Roots : Translation(r, a) = p})

\* An access to a mapped address reaches the page that the tables say: a cached
\* translation that unmap left behind is gone before the address is mapped again.
CachedAgrees ==
    active # Kernel => \A e \in tlb : Translation(active, e[1]) \in {e[2], Unmapped}

\* At most one address in one address space is translated in a new way.
OneTranslationChanges ==
    \A r \in Roots, a \in Addresses :
        Translation(r, a)' # Translation(r, a) =>
            \A s \in Roots, b \in Addresses :
                Translation(s, b)' # Translation(s, b) => r = s /\ a = b

\* A call changes the translation of at most one address in one address space.
OneTranslationPerCall == [][OneTranslationChanges]_vars

=============================================================================
