-------------------------- MODULE ElfLoaderProofs ---------------------------
(***************************************************************************)
(* Proofs about ElfLoader, for every program, every size of a page and     *)
(* tables of any depth and width.                                          *)
(*                                                                         *)
(* Every call of the loader is a step of VSpace, so the invariant IInv of  *)
(* VSpaceProofs holds: two roots share no table, and a cached translation  *)
(* agrees with the tables or is of an address that they no longer map.     *)
(* LInv adds where the loader is: the pages that it has gone through are   *)
(* mapped and filled, the page that it works on is none of them, a page    *)
(* that no capability names is still zero, and FreeAddress is mapped only  *)
(* from MapTmp to UnmapTmp, to the page that is worked on.                 *)
(***************************************************************************)
EXTENDS ElfLoader, VSpaceProofs

\* The backends of a leaf that names none, in the order they are tried.
USE SMTT(20), ZenonT(10), SMTT(30), SMTT(40), SMTT(50)

\* What is left of the file content of a segment from a page on.
Rest(s, i) == IF Segments[s].filesz > PageSize * i THEN Segments[s].filesz - PageSize * i ELSE 0

\* The pages that the mapper has gone through, and what must hold for each.
IsPageOf(s, i) == s \in 1..Len(Segments) /\ i \in 0..(PageNum(s) - 1)
Earlier(s, i) == IsPageOf(s, i) /\ (s < seg \/ (s = seg /\ i < idx))
PageOf(s, i) == Translation(target, VAddr(s, i))
InPlace(s, i) == PageOf(s, i) # Unmapped /\ content[PageOf(s, i)] = Expected(s, i)

\* The page that is being mapped and filled.
Current == pageCap[page_cap].page

Setup == {"setup", "root"}
Ended == {"done", "failed", "error"}
WithPage == {"map", "tables", "again", "copy", "mapTmp", "write", "unmap"}
Mapped == {"copy", "mapTmp", "write", "unmap"}
WithCopy == {"mapTmp", "write", "unmap"}
Filling == {"write", "unmap"}

Position ==
    /\ pc \in Setup \cup Ended \cup WithPage \cup {"next", "page"}
    /\ seg \in 1..Len(Segments) /\ idx \in 0..PageNum(seg)
    /\ pc \in Setup => seg = 1 /\ idx = 0
    /\ pc \in WithPage \cup {"page"} => idx < PageNum(seg)
    /\ pc = "done" => seg = Len(Segments) /\ idx = PageNum(seg)
    /\ pc \notin Ended => file_sz_rem = Rest(seg, IF pc = "unmap" THEN idx + 1 ELSE idx)
    /\ pc \in {"mapTmp", "write"} => file_sz_rem # 0

Targets ==
    /\ BootRoot \in Roots
    /\ pc \notin Setup => target \in Roots \ {BootRoot}

\* A page that no capability names has no content yet.
NewPagesZero == DOMAIN content = Pages /\ \A p \in NewPages : content[p] = Zero

EarlierInPlace == pc \notin Setup => \A s, i : Earlier(s, i) => InPlace(s, i)

CurrentPage ==
    /\ pc \in WithPage =>
        /\ page_cap \in DOMAIN pageCap
        /\ \A s, i : Earlier(s, i) => PageOf(s, i) # Current
        /\ content[Current] = IF pc = "unmap" THEN Expected(seg, idx) ELSE Zero
    /\ pc \in Mapped => PageOf(seg, idx) = Current
    /\ pc \in WithCopy => tmp_page_cap \in DOMAIN pageCap /\ pageCap[tmp_page_cap].page = Current

FreeMapped ==
    IF pc \in Filling
    THEN Translation(BootRoot, Free) = Current /\ pageCap[tmp_page_cap].at = Free
    ELSE Translation(BootRoot, Free) = Unmapped

LInv == Position /\ Targets /\ NewPagesZero /\ EarlierInPlace /\ CurrentPage /\ FreeMapped

-----------------------------------------------------------------------------
(***************************************************************************)
(* Addresses, pages and what is left of the file.                          *)
(***************************************************************************)

\* get_vpn splits every address into entries of tables.
LEMMA VpnAddress ==
    ASSUME NEW v \in Nat
    PROVE  get_vpn(v) \in Addresses
<1>1. ASSUME NEW level \in 0..Top
      PROVE  (v \div (PageSize * 2^(VpnBits * level))) % 2^VpnBits \in Vpns
  <2>1. Top \in Nat /\ VpnBits \in Nat /\ PageSize \in Nat \ {0} /\ Vpns = 0..(2^VpnBits - 1)
    BY VSpaceAssumption, LoaderAssumption
  <2>2. VpnBits * level \in Nat
    BY <2>1
  <2>. DEFINE power == 2^(VpnBits * level)
              width == 2^VpnBits
  <2>3. power \in Nat \ {0} /\ width \in Nat \ {0}
    BY <2>1, <2>2, PowerOfTwo
  <2>. HIDE DEF power, width
  <2>4. PageSize * power \in Nat \ {0}
    BY <2>1, <2>3
  <2>5. v \div (PageSize * power) \in Nat
    BY <2>4, DivNat
  <2>6. (v \div (PageSize * power)) % width \in 0..(width - 1)
    BY <2>3, <2>5
  <2>. QED  BY <2>1, <2>6 DEF power, width
<1>. QED  BY <1>1 DEF get_vpn, Addresses

\* The addresses that the mapper uses, and the number of pages of a segment.
LEMMA Sizes ==
    ASSUME NEW s \in 1..Len(Segments)
    PROVE  /\ Segments[s].vaddr \in Nat /\ Segments[s].memsz \in Nat /\ Segments[s].filesz \in Nat
           /\ PageNum(s) \in Nat
           /\ \A i \in Nat : VAddr(s, i) \in Addresses
<1>1. Segments[s].vaddr \in Nat /\ Segments[s].memsz \in Nat /\ Segments[s].filesz \in Nat
  <2>. DEFINE Segment == [vaddr : Nat, memsz : Nat, filesz : Nat]
  <2>1. Segments \in Seq(Segment)
    BY LoaderAssumption
  <2>2. Segments[s] \in Segment
    <3>. HIDE DEF Segment
    <3>. QED  BY <2>1
  <2>. QED  BY <2>2
<1>2. PageSize \in Nat \ {0}
  BY LoaderAssumption
<1>3. PageNum(s) \in Nat
  <2>. DEFINE n == (Segments[s].memsz + PageSize - 1) \div PageSize
  <2>1. Segments[s].memsz + PageSize - 1 \in Nat
    BY <1>1, <1>2
  <2>2. n \in Nat
    BY <1>2, <2>1, DivNat
  <2>. HIDE DEF n
  <2>3. n * PageSize \in Nat
    BY <1>2, <2>2
  <2>4. (n * PageSize) \div PageSize \in Nat
    BY <1>2, <2>3, DivNat
  <2>. QED  BY <2>4 DEF PageNum, align_up, n
<1>4. ASSUME NEW i \in Nat PROVE VAddr(s, i) \in Addresses
  <2>1. Segments[s].vaddr + PageSize * i \in Nat
    BY <1>1, <1>2
  <2>. QED  BY <2>1, VpnAddress DEF VAddr
<1>. QED  BY <1>1, <1>3, <1>4

\* The address at which the root server fills pages.
LEMMA FreeIsAddress == Free \in Addresses
BY LoaderAssumption, VpnAddress DEF Free

\* file_sz_rem counts down page by page, and says what a page must contain.
LEMMA RestFacts ==
    ASSUME NEW s \in 1..Len(Segments), NEW i \in Nat
    PROVE  /\ Rest(s, i) \in Nat
           /\ Expected(s, i) = IF Rest(s, i) = 0 THEN Zero
                               ELSE [seg |-> s, idx |-> i, size |-> Min(PageSize, Rest(s, i))]
           /\ Rest(s, 0) = Segments[s].filesz
           /\ Rest(s, i + 1) = IF Rest(s, i) > PageSize THEN Rest(s, i) - PageSize ELSE 0
<1>1. Segments[s].filesz \in Nat /\ PageSize \in Nat \ {0}
  BY Sizes, LoaderAssumption
<1>2. PageSize * i \in Nat /\ PageSize * (i + 1) = PageSize * i + PageSize /\ PageSize * 0 = 0
  BY <1>1
<1>. DEFINE used == PageSize * i
            size == Segments[s].filesz
<1>. HIDE DEF used, size
<1>3. Rest(s, i) = IF size > used THEN size - used ELSE 0
  BY DEF Rest, used, size
<1>4. Rest(s, i + 1) = IF size > used + PageSize THEN size - (used + PageSize) ELSE 0
  BY <1>2 DEF Rest, used, size
<1>5. used \in Nat /\ size \in Nat
  BY <1>1, <1>2 DEF used, size
<1>6. Expected(s, i) = IF size - used <= 0 THEN Zero
                       ELSE [seg |-> s, idx |-> i, size |-> Min(PageSize, size - used)]
  BY DEF Expected, used, size
<1>7. Rest(s, 0) = Segments[s].filesz
  BY <1>1, <1>2 DEF Rest
<1>8. Expected(s, i) = IF Rest(s, i) = 0 THEN Zero
                       ELSE [seg |-> s, idx |-> i, size |-> Min(PageSize, Rest(s, i))]
  <2>1. CASE size > used
    BY <1>3, <1>5, <1>6, <2>1
  <2>2. CASE ~(size > used)
    BY <1>3, <1>5, <1>6, <2>2
  <2>. QED  BY <2>1, <2>2
<1>. QED  BY <1>1, <1>3, <1>4, <1>5, <1>7, <1>8

\* A page that a root translates an address to has a capability: no new page is mapped.
LEMMA MappedNotNew ==
    ASSUME IInv, NEW r \in Roots, NEW a \in Addresses, Translation(r, a) # Unmapped
    PROVE  Translation(r, a) \in Pages /\ Translation(r, a) \notin NewPages
<1>. DEFINE p == Translation(r, a)
<1>1. PICK lvl : TreeOK(lvl, entries, tableCap)
  BY DEF IInv
<1>2. p \in Pages
  BY <1>1, TranslatesToPage
<1>3. PICK c \in DOMAIN pageCap : pageCap[c].page = p
  BY <1>2 DEF IInv, MappedNamed
<1>4. p \notin NewPages
  BY <1>3 DEF NewPages
<1>. QED  BY <1>2, <1>4 DEF p

\* What retype makes exists and is new.
LEMMA Retyped ==
    /\ NewTables # {} => NewTable \in Tables /\ ~tableCap[NewTable].mapped
    /\ NewPages # {} => NewPage \in NewPages /\ NewPage \in Pages
BY DEF NewTable, NewTables, NewPage, NewPages

-----------------------------------------------------------------------------
(***************************************************************************)
(* What every step of the mapper keeps.                                    *)
(***************************************************************************)

\* The types behind the invariant.
LEMMA LoaderFacts ==
    ASSUME IInv, LInv
    PROVE  /\ Free \in Addresses /\ VAddr(seg, idx) \in Addresses
           /\ BootRoot \in Roots /\ Unmapped \notin Pages
           /\ \A c \in DOMAIN pageCap : pageCap[c].page \in Pages /\ pageCap[c].page \notin NewPages
           /\ \A s, i : Earlier(s, i) => VAddr(s, i) \in Addresses
<1>1. VAddr(seg, idx) \in Addresses
  <2>1. seg \in 1..Len(Segments) /\ idx \in 0..PageNum(seg)
    BY DEF LInv, Position
  <2>2. PageNum(seg) \in Nat
    BY <2>1, Sizes
  <2>3. idx \in Nat
    BY <2>1, <2>2
  <2>. QED  BY <2>1, <2>3, Sizes
<1>2. ASSUME NEW s, NEW i, Earlier(s, i) PROVE VAddr(s, i) \in Addresses
  <2>1. s \in 1..Len(Segments) /\ i \in 0..(PageNum(s) - 1)
    BY <1>2 DEF Earlier, IsPageOf
  <2>2. PageNum(s) \in Nat
    BY <2>1, Sizes
  <2>3. i \in Nat
    BY <2>1, <2>2
  <2>. QED  BY <2>1, <2>3, Sizes
<1>3. \A c \in DOMAIN pageCap : pageCap[c].page \in Pages /\ pageCap[c].page \notin NewPages
  <2>1. \A c \in DOMAIN pageCap : pageCap[c].page \in Pages
    BY DEF IInv, PageCapsOK
  <2>. QED  BY <2>1 DEF NewPages
<1>4. BootRoot \in Roots /\ Unmapped \notin Pages
  BY VSpaceAssumption DEF LInv, Targets
<1>. QED  BY <1>1, <1>2, <1>3, <1>4, FreeIsAddress

\* A page that is in place stays where it is, as long as nothing is unmapped in the new
\* address space.
Stays(s, i) ==
    /\ Earlier(s, i) /\ PageOf(s, i)' = PageOf(s, i)
    /\ PageOf(s, i) \in Pages /\ PageOf(s, i) \notin NewPages
    /\ content[PageOf(s, i)] = Expected(s, i)

KeepsMapped(t) ==
    \A a \in Addresses : Translation(t, a) # Unmapped => Translation(t, a)' = Translation(t, a)

\* A call that takes no page out of the new address space leaves the earlier pages in place.
LEMMA EarlierStays ==
    ASSUME IInv, LInv, NEW t, t = target, target' = t, pc \notin Setup, UNCHANGED <<seg, idx>>,
           KeepsMapped(t), NEW s, NEW i, Earlier(s, i)'
    PROVE  Stays(s, i)
<1>1. Earlier(s, i)
  BY DEF Earlier, IsPageOf
<1>2. VAddr(s, i) \in Addresses /\ t \in Roots
  BY <1>1, LoaderFacts DEF LInv, Targets
<1>3. Translation(t, VAddr(s, i)) # Unmapped /\ content[Translation(t, VAddr(s, i))] = Expected(s, i)
  BY <1>1 DEF LInv, EarlierInPlace, InPlace, PageOf
<1>4. Translation(t, VAddr(s, i)) \in Pages /\ Translation(t, VAddr(s, i)) \notin NewPages
  BY <1>2, <1>3, MappedNotNew
<1>5. Translation(t, VAddr(s, i))' = Translation(t, VAddr(s, i))
  BY <1>2, <1>3 DEF KeepsMapped
<1>6. PageOf(s, i) = Translation(t, VAddr(s, i)) /\ PageOf(s, i)' = Translation(t, VAddr(s, i))'
  BY DEF PageOf
<1>. QED  BY <1>1, <1>3, <1>4, <1>5, <1>6 DEF Stays

\* So the pages that are done stay in place when their content is not touched.
LEMMA InPlaceKept ==
    ASSUME \A s, i : Earlier(s, i)' => Stays(s, i),
           \A s, i : Stays(s, i) => content'[PageOf(s, i)] = content[PageOf(s, i)]
    PROVE  EarlierInPlace'
<1>1. ASSUME NEW s, NEW i, Earlier(s, i)' PROVE InPlace(s, i)'
  <2>1. Stays(s, i)
    BY <1>1
  <2>2. PageOf(s, i)' = PageOf(s, i) /\ PageOf(s, i) # Unmapped
        /\ content[PageOf(s, i)] = Expected(s, i)
    BY <2>1, VSpaceAssumption DEF Stays
  <2>3. content'[PageOf(s, i)'] = Expected(s, i)
    BY <2>1, <2>2
  <2>. QED  BY <2>2, <2>3 DEF InPlace
<1>. QED  BY <1>1 DEF EarlierInPlace

\* A step that leaves the mapper at its page, and every capability at its page.
PagesKept ==
    /\ DOMAIN pageCap' = DOMAIN pageCap
    /\ \A c \in DOMAIN pageCap : pageCap'[c].page = pageCap[c].page

Quiet ==
    /\ pc \notin Setup /\ pc' \notin Setup
    /\ Roots' = Roots /\ PagesKept
    /\ UNCHANGED <<target, seg, idx, page_cap, tmp_page_cap, content>>

\* The capabilities of the page in work, and the pages done, which differ from it.
CurrentKept ==
    /\ page_cap' \in DOMAIN pageCap' /\ Current' = Current
    /\ content'[Current'] = content[Current]
    /\ \A s, i : Earlier(s, i)' => PageOf(s, i)' # Current'

Settled ==
    /\ Targets' /\ NewPagesZero' /\ EarlierInPlace'
    /\ pc \in WithPage => CurrentKept
    /\ pc \in WithCopy =>
        tmp_page_cap' \in DOMAIN pageCap' /\ pageCap'[tmp_page_cap'].page = Current'

\* A call that only adds mappings to the new address space keeps what is in place.
LEMMA QuietKeeps ==
    ASSUME IInv, LInv, NEW t, t = target, KeepsMapped(t), Quiet
    PROVE  Settled
<1>1. \A s, i : Earlier(s, i)' => Stays(s, i)
  BY EarlierStays DEF Quiet
<1>2. Targets'
  BY DEF LInv, Targets, Quiet
<1>3. NewPagesZero'
  <2>1. NewPages' = NewPages
    BY DEF NewPages, Quiet, PagesKept
  <2>. QED  BY <2>1 DEF LInv, NewPagesZero, Quiet
<1>4. EarlierInPlace'
  BY <1>1, InPlaceKept DEF Quiet
<1>5. ASSUME pc \in WithPage PROVE CurrentKept
  <2>1. page_cap \in DOMAIN pageCap /\ \A s, i : Earlier(s, i) => PageOf(s, i) # Current
    BY <1>5 DEF LInv, CurrentPage
  <2>2. page_cap' \in DOMAIN pageCap' /\ Current' = Current /\ content' = content
    BY <2>1 DEF Quiet, PagesKept, Current
  <2>3. ASSUME NEW s, NEW i, Earlier(s, i)' PROVE PageOf(s, i)' # Current'
    BY <1>1, <2>1, <2>2, <2>3 DEF Stays
  <2>. QED  BY <2>2, <2>3 DEF CurrentKept
<1>6. ASSUME pc \in WithCopy
      PROVE  tmp_page_cap' \in DOMAIN pageCap' /\ pageCap'[tmp_page_cap'].page = Current'
  <2>1. tmp_page_cap \in DOMAIN pageCap /\ pageCap[tmp_page_cap].page = Current
    BY <1>6 DEF LInv, CurrentPage
  <2>2. CurrentKept
    BY <1>5, <1>6 DEF WithPage, WithCopy
  <2>. QED  BY <2>1, <2>2 DEF Quiet, PagesKept, CurrentKept
<1>. QED  BY <1>2, <1>3, <1>4, <1>5, <1>6 DEF Settled

\* A call or a step of another thread that leaves the tables alone.
LEMMA SameSpace ==
    ASSUME UNCHANGED <<entries, tableCap>>
    PROVE  /\ Roots' = Roots
           /\ \A r : KeepsMapped(r)
           /\ \A r, a : Translation(r, a)' = Translation(r, a)
BY SameTables DEF KeepsMapped

\* A call that leaves the page capabilities alone.
LEMMA SamePages == ASSUME UNCHANGED pageCap PROVE PagesKept
BY DEF PagesKept

\* Stopping for a shortage or an error.
LEMMA StopStep ==
    ASSUME IInv, LInv, pc \notin Setup, pc \notin Filling, pc' \in {"failed", "error"},
           UNCHANGED vars, UNCHANGED <<target, seg, idx, file_sz_rem, page_cap, tmp_page_cap, content>>
    PROVE  LInv'
<1>. PICK t : t = target
  OBVIOUS
<1>1. UNCHANGED <<entries, tableCap, pageCap>>
  BY DEF vars
<1>2. Quiet
  BY <1>1, SameSpace, SamePages DEF Quiet, Setup
<1>3. Settled
  BY <1>1, <1>2, SameSpace, QuietKeeps
<1>4. Position'
  BY DEF LInv, Position, Setup, Ended, WithPage
<1>5. CurrentPage'
  BY DEF CurrentPage, WithPage, Mapped, WithCopy
<1>6. FreeMapped'
  <2>1. Translation(BootRoot, Free)' = Translation(BootRoot, Free)
    BY <1>1, SameSpace
  <2>. QED  BY <2>1 DEF LInv, FreeMapped, Filling
<1>. QED  BY <1>3, <1>4, <1>5, <1>6 DEF LInv, Settled

-----------------------------------------------------------------------------
(***************************************************************************)
(* The steps of the mapper, each with the call that it makes.              *)
(***************************************************************************)

\* The mapped address is all that PageCap::map and unmap change in a capability.
LEMMA AddressOnly ==
    ASSUME PageCapsOK, NEW c \in DOMAIN pageCap, NEW a, pageCap' = [pageCap EXCEPT ![c].at = a]
    PROVE  PagesKept /\ pageCap'[c].at = a
<1>1. pageCap = [d \in DOMAIN pageCap |-> pageCap[d]]
  BY DEF PageCapsOK
<1>2. PICK p, b : pageCap[c] = [page |-> p, at |-> b]
  <2>1. pageCap[c] \in [page : Pages, at : Addresses \cup {Unmapped}]
    BY DEF PageCapsOK
  <2>. QED  BY <2>1
<1>3. pageCap' = [pageCap EXCEPT ![c] = [page |-> p, at |-> a]]
  <2>1. [pageCap[c] EXCEPT !.at = a] = [page |-> p, at |-> a]
    BY <1>2
  <2>2. pageCap' = [pageCap EXCEPT ![c] = [pageCap[c] EXCEPT !.at = a]]
    OBVIOUS
  <2>. QED  BY Zenon, <2>1, <2>2
<1>4. DOMAIN pageCap' = DOMAIN pageCap /\ pageCap'[c] = [page |-> p, at |-> a]
      /\ \A d \in DOMAIN pageCap : d # c => pageCap'[d] = pageCap[d]
  BY Zenon, <1>1, <1>3
<1>5. \A d \in DOMAIN pageCap : pageCap'[d].page = pageCap[d].page
  BY <1>2, <1>4
<1>. QED  BY <1>4, <1>5 DEF PagesKept

\* The page is mapped at its address in the new address space.
LEMMA MapInTarget ==
    ASSUME IInv, LInv, pc \in {"map", "again"}, PageMap(page_cap, target, VAddr(seg, idx)),
           Goto("copy"), target' = target
    PROVE  LInv'
<1>1. PICK t, a, c : t = target /\ a = VAddr(seg, idx) /\ c = page_cap
  OBVIOUS
<1>2. /\ t \in Roots /\ t # BootRoot /\ BootRoot \in Roots /\ a \in Addresses /\ Free \in Addresses
      /\ c \in DOMAIN pageCap /\ PageMap(c, t, a) /\ pc \notin Setup /\ pc \in WithPage
  BY <1>1, LoaderFacts DEF LInv, Targets, CurrentPage, WithPage, Setup
<1>3. PICK lvl : TreeOK(lvl, entries, tableCap)
  BY DEF IInv
<1>4. PageCapsOK
  BY DEF IInv
<1>5. /\ Roots' = Roots
      /\ Translation(t, a) = Unmapped /\ Translation(t, a)' = pageCap[c].page
      /\ \A s \in Roots, b \in Addresses :
             ~(s = t /\ b = a) => Translation(s, b)' = Translation(s, b)
  BY <1>2, <1>3, <1>4, PageMapStep
<1>6. PagesKept
  BY Zenon, <1>2, <1>4, AddressOnly DEF PageMap
<1>7. Settled
  <2>1. KeepsMapped(t)
    BY <1>2, <1>5 DEF KeepsMapped
  <2>2. Quiet
    BY <1>2, <1>5, <1>6 DEF Quiet, Goto, Setup
  <2>. QED  BY <1>1, <2>1, <2>2, QuietKeeps
<1>8. Position'
  BY <1>2 DEF LInv, Position, Goto, Setup, Ended, WithPage
<1>9. CurrentPage'
  <2>1. CurrentKept /\ content[Current] = Zero /\ pc' = "copy"
    BY <1>2, <1>7 DEF Settled, LInv, CurrentPage, Goto
  <2>2. PageOf(seg, idx)' = Current'
    <3>1. PageOf(seg, idx)' = Translation(t, a)'
      BY <1>1 DEF PageOf, Goto
    <3>2. Current' = pageCap[c].page
      BY <1>1, <2>1 DEF CurrentKept, Current
    <3>. QED  BY <1>5, <3>1, <3>2
  <2>. QED  BY <2>1, <2>2 DEF CurrentPage, CurrentKept, WithCopy
<1>10. FreeMapped'
  <2>1. Translation(BootRoot, Free)' = Translation(BootRoot, Free)
    BY <1>2, <1>5
  <2>. QED  BY <2>1 DEF LInv, FreeMapped, Filling, Goto
<1>. QED  BY <1>7, <1>8, <1>9, <1>10 DEF LInv, Settled

\* Between the attempts to map the page its tables are made, which changes no translation.
LEMMA TablesStep ==
    ASSUME IInv, LInv, pc \in {"map", "tables"}, pc' \in {"tables", "again"},
           \/ UNCHANGED vars
           \/ NewTables # {} /\ PageTableMap(NewTable, target, VAddr(seg, idx)),
           UNCHANGED <<target, seg, idx, file_sz_rem, page_cap, tmp_page_cap, content>>
    PROVE  LInv'
<1>1. PICK t, a, x : t = target /\ a = VAddr(seg, idx) /\ x = NewTable
  OBVIOUS
<1>2. /\ t \in Roots /\ BootRoot \in Roots /\ a \in Addresses /\ Free \in Addresses
      /\ pc \notin Setup /\ pc \in WithPage
  BY <1>1, LoaderFacts DEF LInv, Targets, WithPage, Setup
<1>3. /\ Roots' = Roots /\ pageCap' = pageCap
      /\ \A s \in Roots, b \in Addresses : Translation(s, b)' = Translation(s, b)
  <2>1. CASE UNCHANGED vars
    BY <2>1, SameSpace DEF vars
  <2>2. CASE NewTables # {} /\ PageTableMap(x, t, a)
    <3>1. PICK lvl : TreeOK(lvl, entries, tableCap)
      BY DEF IInv
    <3>2. x \in Tables /\ ~tableCap[x].mapped
      BY <1>1, <2>2, Retyped
    <3>3. pageCap' = pageCap
      BY <2>2 DEF PageTableMap
    <3>. QED  BY <1>2, <2>2, <3>1, <3>2, <3>3, TableMapStep
  <2>. QED  BY <1>1, <2>1, <2>2
<1>4. Settled
  <2>1. KeepsMapped(t)
    BY <1>2, <1>3 DEF KeepsMapped
  <2>2. Quiet
    BY <1>2, <1>3, SamePages DEF Quiet, Setup
  <2>. QED  BY <1>1, <2>1, <2>2, QuietKeeps
<1>5. Position'
  BY <1>2 DEF LInv, Position, Setup, Ended, WithPage
<1>6. CurrentPage'
  <2>1. CurrentKept /\ content[Current] = Zero
    BY <1>2, <1>4 DEF Settled, LInv, CurrentPage
  <2>. QED  BY <2>1 DEF CurrentPage, CurrentKept, Mapped, WithCopy
<1>7. FreeMapped'
  <2>1. Translation(BootRoot, Free)' = Translation(BootRoot, Free)
    BY <1>2, <1>3
  <2>. QED  BY <2>1 DEF LInv, FreeMapped, Filling
<1>. QED  BY <1>4, <1>5, <1>6, <1>7 DEF LInv, Settled

\* The first attempt to map the page.
LEMMA MapPageStep ==
    ASSUME IInv, LInv, MapPage, target' = target
    PROVE  LInv'
<1>1. CASE CanMap(page_cap, target, VAddr(seg, idx))
  BY <1>1, MapInTarget DEF MapPage
<1>2. CASE ~CanMap(page_cap, target, VAddr(seg, idx)) /\ pc' = "error"
  BY <1>2, StopStep DEF MapPage, Goto, Setup, Filling
<1>3. CASE ~CanMap(page_cap, target, VAddr(seg, idx)) /\ pc' # "error"
  <2>1. pc = "map" /\ pc' = "tables" /\ UNCHANGED vars
        /\ UNCHANGED <<seg, idx, file_sz_rem, page_cap, tmp_page_cap, content>>
    BY <1>3 DEF MapPage, Goto
  <2>. QED  BY <2>1, TablesStep
<1>. QED  BY <1>1, <1>2, <1>3 DEF MapPage, Goto

\* The loop that maps the missing tables.
LEMMA MapTableStep ==
    ASSUME IInv, LInv, MapTable, target' = target
    PROVE  LInv'
<1>1. CASE pc' = "failed"
  BY <1>1, StopStep DEF MapTable, Shortage, Goto, Setup, Filling
<1>2. CASE pc' # "failed"
  <2>1. /\ pc = "tables" /\ pc' \in {"tables", "again"}
        /\ \/ UNCHANGED vars
           \/ NewTables # {} /\ PageTableMap(NewTable, target, VAddr(seg, idx))
        /\ UNCHANGED <<seg, idx, file_sz_rem, page_cap, tmp_page_cap, content>>
    BY <1>2 DEF MapTable, Shortage, Goto
  <2>. QED  BY <2>1, TablesStep
<1>. QED  BY <1>1, <1>2

\* The attempt after the tables are there.
LEMMA MapPageAgainStep ==
    ASSUME IInv, LInv, MapPageAgain, target' = target
    PROVE  LInv'
<1>1. CASE CanMap(page_cap, target, VAddr(seg, idx))
  BY <1>1, MapInTarget DEF MapPageAgain
<1>2. CASE ~CanMap(page_cap, target, VAddr(seg, idx))
  BY <1>2, StopStep DEF MapPageAgain, Goto, Setup, Filling
<1>. QED  BY <1>1, <1>2

\* The page is mapped a second time, at FreeAddress in the root server.
LEMMA MapTmpStep ==
    ASSUME IInv, LInv, MapTmp, target' = target
    PROVE  LInv'
<1>1. CASE ~CanMap(tmp_page_cap, BootRoot, Free)
  BY <1>1, StopStep DEF MapTmp, Goto, Setup, Filling
<1>2. CASE CanMap(tmp_page_cap, BootRoot, Free)
  <2>1. PICK t, c : t = target /\ c = tmp_page_cap
    OBVIOUS
  <2>2. /\ t \in Roots /\ t # BootRoot /\ BootRoot \in Roots /\ Free \in Addresses
        /\ pc = "mapTmp" /\ pc \notin Setup /\ pc \in WithPage /\ pc \in WithCopy /\ pc \in Mapped
        /\ c \in DOMAIN pageCap /\ PageMap(c, BootRoot, Free) /\ Goto("write")
    BY <1>2, <2>1, LoaderFacts
    DEF LInv, Targets, CurrentPage, WithPage, WithCopy, Mapped, Setup, MapTmp
  <2>3. PICK lvl : TreeOK(lvl, entries, tableCap)
    BY DEF IInv
  <2>4. PageCapsOK
    BY DEF IInv
  <2>5. /\ Roots' = Roots
        /\ Translation(BootRoot, Free)' = pageCap[c].page
        /\ \A s \in Roots, b \in Addresses :
               ~(s = BootRoot /\ b = Free) => Translation(s, b)' = Translation(s, b)
    BY <2>2, <2>3, <2>4, PageMapStep
  <2>6. PagesKept /\ pageCap'[c].at = Free
    BY Zenon, <2>2, <2>4, AddressOnly DEF PageMap
  <2>7. Settled
    <3>1. KeepsMapped(t)
      BY <2>2, <2>5 DEF KeepsMapped
    <3>2. Quiet
      BY <2>2, <2>5, <2>6 DEF Quiet, Goto, Setup
    <3>. QED  BY <2>1, <3>1, <3>2, QuietKeeps
  <2>8. Position'
    BY <2>2 DEF LInv, Position, Goto, Setup, Ended, WithPage
  <2>9. CurrentPage'
    <3>1. CurrentKept /\ content[Current] = Zero /\ pc' = "write" /\ PageOf(seg, idx) = Current
      BY <2>2, <2>7 DEF Settled, LInv, CurrentPage, Goto
    <3>2. PageOf(seg, idx)' = Current'
      <4>1. PICK a : a = VAddr(seg, idx)
        OBVIOUS
      <4>2. a \in Addresses
        BY <4>1, LoaderFacts
      <4>3. PageOf(seg, idx)' = Translation(t, a)' /\ PageOf(seg, idx) = Translation(t, a)
        BY <2>1, <2>2, <4>1 DEF PageOf, Goto
      <4>. QED  BY <2>2, <2>5, <3>1, <4>2, <4>3 DEF CurrentKept
    <3>. QED  BY <2>2, <2>7, <3>1, <3>2 DEF CurrentPage, CurrentKept, Settled
  <2>10. FreeMapped'
    <3>1. pageCap[c].page = Current /\ Current' = Current /\ pc' \in Filling /\ tmp_page_cap' = c
      BY <2>1, <2>2, <2>7 DEF LInv, CurrentPage, Settled, CurrentKept, Goto, Filling
    <3>. QED  BY <2>5, <2>6, <3>1 DEF FreeMapped
  <2>. QED  BY <2>7, <2>8, <2>9, <2>10 DEF LInv, Settled
<1>. QED  BY <1>1, <1>2

\* The stores to FreeAddress reach the page in work, whatever the processor has cached.
LEMMA WrittenIsCurrent ==
    ASSUME IInv, LInv, pc = "write", active = BootRoot, NEW page \in Written
    PROVE  page = Current
<1>1. Translation(BootRoot, Free) = Current
  BY DEF LInv, FreeMapped, Filling
<1>2. Current \in Pages /\ Unmapped \notin Pages
  BY LoaderFacts DEF LInv, CurrentPage, WithPage, Current
<1>3. ASSUME NEW e \in tlb, e[1] = Free PROVE e[2] = Current
  <2>1. active # Kernel
    BY VSpaceAssumption
  <2>2. Translation(active, e[1]) \in {e[2], Unmapped}
    BY <2>1 DEF IInv, CachedAgrees
  <2>3. Translation(BootRoot, Free) \in {e[2], Unmapped}
    BY <1>3, <2>2
  <2>. QED  BY <1>1, <1>2, <2>3
<1>. QED  BY <1>1, <1>3 DEF Written

\* The content goes to the page in work and to no other.
LEMMA WritePageStep ==
    ASSUME IInv, LInv, WritePage, active = BootRoot, target' = target
    PROVE  LInv'
<1>1. PICK t : t = target
  OBVIOUS
<1>2. /\ pc = "write" /\ pc' = "unmap" /\ pc \notin Setup /\ pc \in WithPage /\ pc \in Mapped
      /\ pc \in WithCopy /\ pc \in Filling
      /\ UNCHANGED <<entries, tableCap, pageCap, seg, idx, page_cap, tmp_page_cap>>
  BY DEF WritePage, vars, Setup, WithPage, Mapped, WithCopy, Filling
<1>3. /\ Current \in Pages /\ Current \notin NewPages /\ DOMAIN content = Pages
      /\ \A s, i : Earlier(s, i) => PageOf(s, i) # Current
  BY <1>2, LoaderFacts DEF LInv, CurrentPage, NewPagesZero, Current
<1>4. seg \in 1..Len(Segments) /\ idx \in Nat /\ file_sz_rem = Rest(seg, idx) /\ file_sz_rem # 0
  <2>1. seg \in 1..Len(Segments) /\ idx \in 0..PageNum(seg)
    BY DEF LInv, Position
  <2>2. PageNum(seg) \in Nat
    BY <2>1, Sizes
  <2>. QED  BY <1>2, <2>1, <2>2 DEF LInv, Position, Ended
<1>5. content' = [content EXCEPT ![Current] = Expected(seg, idx)]
  <2>1. Expected(seg, idx) = [seg |-> seg, idx |-> idx, size |-> Min(PageSize, file_sz_rem)]
    BY <1>4, RestFacts
  <2>2. PICK page \in Written : content' = [content EXCEPT ![page] =
                     [seg |-> seg, idx |-> idx, size |-> Min(PageSize, file_sz_rem)]]
    BY Zenon DEF WritePage
  <2>. QED  BY ZenonT(20), <1>2, <2>1, <2>2, WrittenIsCurrent
<1>6. /\ DOMAIN content' = Pages /\ content'[Current] = Expected(seg, idx)
      /\ \A p \in Pages : p # Current => content'[p] = content[p]
  BY <1>3, <1>5
<1>7. \A s, i : Earlier(s, i)' => Stays(s, i)
  BY <1>1, <1>2, SameSpace, EarlierStays
<1>8. EarlierInPlace'
  BY <1>3, <1>6, <1>7, InPlaceKept DEF Stays
<1>9. Targets' /\ NewPagesZero'
  <2>1. NewPages' = NewPages /\ Roots' = Roots
    BY <1>2, SameSpace DEF NewPages
  <2>2. \A p \in NewPages : p \in Pages /\ p # Current
    BY <1>3 DEF NewPages
  <2>. QED  BY <1>2, <1>6, <2>1, <2>2 DEF LInv, NewPagesZero, Targets, Setup
<1>10. Position'
  <2>1. file_sz_rem' = Rest(seg, idx + 1)
    BY <1>4, RestFacts DEF WritePage
  <2>. QED  BY <1>2, <2>1 DEF LInv, Position, Setup, Ended, WithPage
<1>11. CurrentPage'
  <2>1. page_cap \in DOMAIN pageCap /\ Current' = Current
    BY <1>2 DEF LInv, CurrentPage, Current
  <2>2. \A s, i : Earlier(s, i)' => PageOf(s, i)' # Current'
    BY <1>3, <1>7, <2>1 DEF Stays
  <2>3. content'[Current'] = Expected(seg, idx)'
    BY <1>2, <1>6, <2>1
  <2>4. PageOf(seg, idx)' = Current'
    <3>1. PICK a : a = VAddr(seg, idx)
      OBVIOUS
    <3>2. PageOf(seg, idx)' = Translation(t, a)' /\ PageOf(seg, idx) = Translation(t, a)
      BY <1>1, <1>2, <3>1 DEF PageOf
    <3>3. Translation(t, a)' = Translation(t, a)
      BY <1>2, SameSpace
    <3>. QED  BY <1>2, <2>1, <3>2, <3>3 DEF LInv, CurrentPage
  <2>5. tmp_page_cap' \in DOMAIN pageCap' /\ pageCap'[tmp_page_cap'].page = Current'
    BY <1>2, <2>1 DEF LInv, CurrentPage
  <2>. QED  BY <1>2, <2>1, <2>2, <2>3, <2>4, <2>5 DEF CurrentPage
<1>12. FreeMapped'
  <2>1. Translation(BootRoot, Free)' = Translation(BootRoot, Free)
    BY <1>2, SameSpace
  <2>. QED  BY <1>2, <2>1 DEF LInv, FreeMapped, Filling, Current
<1>. QED  BY <1>8, <1>9, <1>10, <1>11, <1>12 DEF LInv

\* With the current page in place, the mapper has one more page behind it.
LEMMA EarlierNext ==
    ASSUME NEW s, NEW i, seg' = seg, idx \in Nat, idx' = idx + 1, Earlier(s, i)'
    PROVE  Earlier(s, i) \/ (s = seg /\ i = idx)
<1>1. s \in 1..Len(Segments) /\ i \in 0..(PageNum(s) - 1)
  BY DEF Earlier, IsPageOf
<1>2. i \in Nat
  BY <1>1, Sizes
<1>. QED  BY <1>1, <1>2 DEF Earlier, IsPageOf

\* The mapper goes on to the next page.
Advances ==
    /\ pc \in {"copy", "unmap"} /\ pc' = "next" /\ idx' = idx + 1
    /\ UNCHANGED <<target, seg, file_sz_rem, page_cap, tmp_page_cap, content>>
    /\ content[Current] = Expected(seg, idx) /\ file_sz_rem = Rest(seg, idx + 1)
    /\ PagesKept /\ Roots' = Roots

\* The page that the mapper has filled, or need not fill, is one of the earlier ones now.
LEMMA AdvanceStep ==
    ASSUME IInv, LInv, Advances, NEW t, t = target,
           \A a \in Addresses : Translation(t, a)' = Translation(t, a),
           Translation(BootRoot, Free)' = Unmapped
    PROVE  LInv'
<1>1. /\ pc \notin Setup /\ pc \in WithPage /\ pc \in Mapped
      /\ pc' = "next" /\ idx' = idx + 1
      /\ UNCHANGED <<target, seg, file_sz_rem, page_cap, tmp_page_cap, content>>
  BY DEF Advances, Setup, WithPage, Mapped
<1>2. seg \in 1..Len(Segments) /\ idx \in Nat /\ idx < PageNum(seg) /\ PageNum(seg) \in Nat
  <2>1. seg \in 1..Len(Segments) /\ idx \in 0..PageNum(seg) /\ idx < PageNum(seg)
    BY <1>1 DEF LInv, Position
  <2>2. PageNum(seg) \in Nat
    BY <2>1, Sizes
  <2>. QED  BY <2>1, <2>2
<1>3. ASSUME NEW s, NEW i, Earlier(s, i)' PROVE InPlace(s, i)'
  <2>1. Earlier(s, i) \/ (s = seg /\ i = idx)
    BY <1>1, <1>2, <1>3, EarlierNext
  <2>2. VAddr(s, i) \in Addresses
    BY <2>1, LoaderFacts
  <2>3. InPlace(s, i)
    <3>1. CASE Earlier(s, i)
      BY <1>1, <3>1 DEF LInv, EarlierInPlace
    <3>2. CASE s = seg /\ i = idx
      <4>1. PageOf(seg, idx) = Current /\ content[Current] = Expected(seg, idx)
        BY <1>1 DEF LInv, CurrentPage, Advances
      <4>2. Current # Unmapped
        BY Zenon, <1>1, LoaderFacts DEF LInv, CurrentPage, Current
      <4>. QED  BY <3>2, <4>1, <4>2 DEF InPlace
    <3>. QED  BY <2>1, <3>1, <3>2
  <2>4. PageOf(s, i)' = PageOf(s, i)
    <3>1. PageOf(s, i)' = Translation(t, VAddr(s, i))' /\ PageOf(s, i) = Translation(t, VAddr(s, i))
      BY <1>1 DEF PageOf
    <3>. QED  BY <2>2, <3>1
  <2>. QED  BY <1>1, <2>3, <2>4 DEF InPlace
<1>4. EarlierInPlace'
  BY <1>3 DEF EarlierInPlace
<1>5. Position'
  BY <1>1, <1>2 DEF LInv, Position, Advances, Setup, Ended, WithPage
<1>6. Targets'
  BY <1>1 DEF LInv, Targets, Advances
<1>7. NewPagesZero'
  <2>1. NewPages' = NewPages
    BY DEF NewPages, Advances, PagesKept
  <2>. QED  BY <1>1, <2>1 DEF LInv, NewPagesZero
<1>8. CurrentPage'
  BY <1>1 DEF CurrentPage, WithPage, Mapped, WithCopy
<1>9. FreeMapped'
  BY <1>1 DEF FreeMapped, Filling
<1>. QED  BY <1>4, <1>5, <1>6, <1>7, <1>8, <1>9 DEF LInv

\* The temporary mapping is gone, and the page stays where it was mapped.
LEMMA UnmapTmpStep ==
    ASSUME IInv, LInv, UnmapTmp, target' = target
    PROVE  LInv'
<1>1. PICK t, c : t = target /\ c = tmp_page_cap
  OBVIOUS
<1>2. /\ t \in Roots /\ t # BootRoot /\ BootRoot \in Roots /\ Free \in Addresses
      /\ pc = "unmap" /\ pc \in WithPage /\ pc \in WithCopy /\ pc \in Filling
      /\ c \in DOMAIN pageCap /\ PageUnMap(c, BootRoot) /\ pageCap[c].at = Free
  BY Zenon, <1>1, LoaderFacts
  DEF LInv, Targets, CurrentPage, FreeMapped, WithPage, WithCopy, Filling, Setup, UnmapTmp
<1>3. PICK lvl : TreeOK(lvl, entries, tableCap)
  BY DEF IInv
<1>4. PageCapsOK
  BY DEF IInv
<1>5. /\ Roots' = Roots
      /\ Translation(BootRoot, Free)' = Unmapped
      /\ \A s \in Roots, b \in Addresses :
             ~(s = BootRoot /\ b = Free) => Translation(s, b)' = Translation(s, b)
  BY <1>2, <1>3, <1>4, PageUnMapStep
<1>6. PagesKept
  BY Zenon, <1>2, <1>4, AddressOnly DEF PageUnMap
<1>7. Advances
  <2>1. content[Current] = Expected(seg, idx) /\ file_sz_rem = Rest(seg, idx + 1)
    BY <1>2 DEF LInv, CurrentPage, Position, Ended
  <2>. QED  BY <1>5, <1>6, <2>1 DEF Advances, UnmapTmp
<1>. QED  BY <1>1, <1>2, <1>5, <1>7, AdvanceStep

\* A capability more, to a page, changes no translation and no other capability.
Adds(c, p) ==
    /\ DOMAIN pageCap' = DOMAIN pageCap \cup {c} /\ c \notin DOMAIN pageCap
    /\ pageCap'[c].page = p
    /\ \A d \in DOMAIN pageCap : pageCap'[d].page = pageCap[d].page

\* The copy of a capability whose page is mapped, or no copy for a page without content.
LEMMA CopyCapStep ==
    ASSUME IInv, LInv, CopyCap, target' = target
    PROVE  LInv'
<1>1. PICK t, c, d : t = target /\ c = page_cap /\ d = NewCap
  OBVIOUS
<1>2. /\ pc = "copy" /\ pc \in WithPage /\ pc \in Mapped /\ pc \notin Setup /\ pc \notin Filling
      /\ pc \notin Ended /\ c \in DOMAIN pageCap /\ content[Current] = Zero
      /\ PageOf(seg, idx) = Current /\ Translation(BootRoot, Free) = Unmapped
      /\ \A s, i : Earlier(s, i) => PageOf(s, i) # Current
  BY <1>1 DEF CopyCap, LInv, CurrentPage, FreeMapped, WithPage, Mapped, Setup, Filling, Ended
<1>3. seg \in 1..Len(Segments) /\ idx \in Nat /\ file_sz_rem = Rest(seg, idx)
  <2>1. seg \in 1..Len(Segments) /\ idx \in 0..PageNum(seg)
    BY DEF LInv, Position
  <2>2. PageNum(seg) \in Nat
    BY <2>1, Sizes
  <2>. QED  BY <1>2, <2>1, <2>2 DEF LInv, Position
<1>4. CASE pc' = "next"
  <2>1. /\ file_sz_rem = 0 /\ UNCHANGED <<entries, tableCap, pageCap>> /\ idx' = idx + 1
        /\ UNCHANGED <<seg, file_sz_rem, page_cap, tmp_page_cap, content>>
    BY <1>4 DEF CopyCap, vars, Shortage, Goto
  <2>2. Expected(seg, idx) = Zero /\ Rest(seg, idx + 1) = 0
    <3>1. Rest(seg, idx) = 0 /\ PageSize \in Nat
      BY <1>3, <2>1, LoaderAssumption
    <3>2. Expected(seg, idx) = IF Rest(seg, idx) = 0 THEN Zero
                               ELSE [seg |-> seg, idx |-> idx, size |-> Min(PageSize, Rest(seg, idx))]
      BY Zenon, <1>3, RestFacts
    <3>3. Rest(seg, idx + 1) = IF Rest(seg, idx) > PageSize THEN Rest(seg, idx) - PageSize ELSE 0
      BY Zenon, <1>3, RestFacts
    <3>. QED  BY <3>1, <3>2, <3>3
  <2>3. Advances
    BY <1>2, <1>4, <2>1, <2>2, SameSpace, SamePages DEF Advances
  <2>4. \A r, a : Translation(r, a)' = Translation(r, a)
    BY <2>1, SameSpace
  <2>. QED  BY <1>1, <1>2, <2>3, <2>4, AdvanceStep
<1>5. CASE pc' = "failed"
  BY <1>2, <1>5, StopStep DEF CopyCap, Shortage, Goto
<1>6. CASE pc' = "mapTmp"
  <2>1. /\ file_sz_rem # 0 /\ PageCopy(c, d) /\ tmp_page_cap' = d
        /\ UNCHANGED <<seg, idx, file_sz_rem, page_cap, content>>
    BY <1>1, <1>6 DEF CopyCap, Shortage, Goto
  <2>2. UNCHANGED <<entries, tableCap>> /\ Adds(d, pageCap[c].page)
    BY <2>1 DEF PageCopy, derive, Adds
  <2>3. \A s, i : Earlier(s, i)' => Stays(s, i)
    BY <1>1, <1>2, <2>1, <2>2, SameSpace, EarlierStays
  <2>4. EarlierInPlace'
    BY <2>1, <2>3, InPlaceKept
  <2>5. Targets' /\ NewPagesZero'
    <3>1. Roots' = Roots
      BY <2>2, SameSpace
    <3>2. NewPages' \subseteq NewPages
      BY <2>2 DEF Adds, NewPages
    <3>. QED  BY <1>2, <2>1, <3>1, <3>2 DEF LInv, Targets, NewPagesZero
  <2>6. Position'
    BY <1>2, <1>6, <2>1 DEF LInv, Position, Setup, Ended, WithPage
  <2>7. CurrentPage'
    <3>1. page_cap' \in DOMAIN pageCap' /\ Current' = Current /\ Current = pageCap[c].page
      BY ZenonT(40), <1>1, <1>2, <2>1, <2>2 DEF Adds, Current
    <3>2. \A s, i : Earlier(s, i)' => PageOf(s, i)' # Current'
      BY ZenonT(40), <1>2, <2>3, <3>1 DEF Stays
    <3>3. PageOf(seg, idx)' = Current'
      <4>1. PICK a : a = VAddr(seg, idx)
        OBVIOUS
      <4>2. PageOf(seg, idx)' = Translation(t, a)' /\ PageOf(seg, idx) = Translation(t, a)
        BY <1>1, <2>1, <4>1 DEF PageOf
      <4>3. Translation(t, a)' = Translation(t, a)
        BY <2>2, SameSpace
      <4>. QED  BY <1>2, <3>1, <4>2, <4>3
    <3>4. tmp_page_cap' \in DOMAIN pageCap' /\ pageCap'[tmp_page_cap'].page = Current'
      BY <2>1, <2>2, <3>1 DEF Adds
    <3>. QED  BY Zenon, <1>2, <1>6, <2>1, <3>1, <3>2, <3>3, <3>4 DEF CurrentPage
  <2>8. FreeMapped'
    <3>1. Translation(BootRoot, Free)' = Translation(BootRoot, Free)
      BY <2>2, SameSpace
    <3>. QED  BY <1>2, <1>6, <3>1 DEF FreeMapped, Filling
  <2>. QED  BY <2>4, <2>5, <2>6, <2>7, <2>8 DEF LInv
<1>. QED  BY <1>4, <1>5, <1>6 DEF CopyCap, Shortage, Goto

\* The new page is zero and not mapped anywhere.
LEMMA RetypePageStep ==
    ASSUME IInv, LInv, RetypePage, target' = target
    PROVE  LInv'
<1>1. PICK t, c, p : t = target /\ c = NewCap /\ p = NewPage
  OBVIOUS
<1>2. /\ pc = "page" /\ pc \notin Setup /\ pc \notin Filling /\ pc \notin Ended
      /\ Translation(BootRoot, Free) = Unmapped
  BY DEF RetypePage, LInv, FreeMapped, Setup, Filling, Ended
<1>3. CASE pc' = "failed"
  BY <1>2, <1>3, StopStep DEF RetypePage, Shortage, Goto
<1>4. CASE pc' = "map"
  <2>1. /\ NewPages # {} /\ PageRetype(p, c) /\ page_cap' = c
        /\ UNCHANGED <<seg, idx, file_sz_rem, tmp_page_cap, content>>
    BY <1>1, <1>4 DEF RetypePage, Shortage, Goto
  <2>2. p \in NewPages /\ p \in Pages
    BY <1>1, <2>1, Retyped
  <2>3. UNCHANGED <<entries, tableCap>> /\ Adds(c, p)
    BY <2>1 DEF PageRetype, Adds
  <2>4. \A s, i : Earlier(s, i)' => Stays(s, i)
    BY <1>1, <1>2, <2>1, <2>3, SameSpace, EarlierStays
  <2>5. EarlierInPlace'
    BY <2>1, <2>4, InPlaceKept
  <2>6. Targets' /\ NewPagesZero'
    <3>1. Roots' = Roots
      BY <2>3, SameSpace
    <3>2. NewPages' \subseteq NewPages
      BY <2>3 DEF Adds, NewPages
    <3>. QED  BY <1>2, <2>1, <3>1, <3>2 DEF LInv, Targets, NewPagesZero
  <2>7. Position'
    BY <1>2, <1>4, <2>1 DEF LInv, Position, Setup, Ended, WithPage
  <2>8. CurrentPage'
    <3>1. page_cap' \in DOMAIN pageCap' /\ Current' = p
      BY <2>1, <2>3 DEF Adds, Current
    <3>2. \A s, i : Earlier(s, i)' => PageOf(s, i)' # Current'
      BY <2>2, <2>4, <3>1 DEF Stays
    <3>3. content'[Current'] = Zero
      BY <2>1, <2>2, <3>1 DEF LInv, NewPagesZero
    <3>. QED  BY <1>4, <3>1, <3>2, <3>3 DEF CurrentPage, Mapped, WithCopy
  <2>9. FreeMapped'
    <3>1. Translation(BootRoot, Free)' = Translation(BootRoot, Free)
      BY <2>3, SameSpace
    <3>. QED  BY <1>2, <1>4, <3>1 DEF FreeMapped, Filling
  <2>. QED  BY <2>5, <2>6, <2>7, <2>8, <2>9 DEF LInv
<1>. QED  BY <1>3, <1>4 DEF RetypePage, Shortage, Goto

\* The loops over pages and segments: a segment that is complete makes place for the next.
LEMMA NextPageStep ==
    ASSUME IInv, LInv, NextPage, target' = target
    PROVE  LInv'
<1>1. PICK t : t = target
  OBVIOUS
<1>2. /\ pc = "next" /\ pc \notin Setup /\ pc \notin Filling /\ pc \notin Ended
      /\ UNCHANGED <<entries, tableCap, pageCap, page_cap, tmp_page_cap, content>>
      /\ Translation(BootRoot, Free) = Unmapped
  BY DEF NextPage, LInv, FreeMapped, Setup, Filling, Ended, vars
<1>3. /\ seg \in 1..Len(Segments) /\ idx \in Nat /\ PageNum(seg) \in Nat /\ Len(Segments) \in Nat
      /\ file_sz_rem = Rest(seg, idx)
  <2>1. seg \in 1..Len(Segments) /\ idx \in 0..PageNum(seg)
    BY DEF LInv, Position
  <2>2. PageNum(seg) \in Nat /\ Len(Segments) \in Nat
    BY <2>1, Sizes, LoaderAssumption
  <2>. QED  BY <1>2, <2>1, <2>2 DEF LInv, Position
<1>4. pc' \in {"page", "next", "done"} /\ \A s, i : Earlier(s, i)' => Earlier(s, i)
  <2>1. CASE seg' = seg /\ idx' = idx
    BY <2>1 DEF NextPage, Earlier, IsPageOf
  <2>2. CASE idx = PageNum(seg) /\ seg' = seg + 1 /\ idx' = 0 /\ UNCHANGED pc
    <3>1. ASSUME NEW s, NEW i, Earlier(s, i)' PROVE Earlier(s, i)
      <4>1. s \in 1..Len(Segments) /\ i \in 0..(PageNum(s) - 1) /\ PageNum(s) \in Nat
        BY <3>1, Sizes DEF Earlier, IsPageOf
      <4>2. s < seg + 1
        BY <2>2, <3>1, <4>1 DEF Earlier
      <4>. QED  BY <1>3, <2>2, <4>1, <4>2 DEF Earlier, IsPageOf
    <3>. QED  BY <1>2, <2>2, <3>1
  <2>. QED  BY <2>1, <2>2 DEF NextPage
<1>5. EarlierInPlace'
  <2>1. ASSUME NEW s, NEW i, Earlier(s, i)' PROVE InPlace(s, i)'
    <3>1. InPlace(s, i)
      BY <1>2, <1>4, <2>1 DEF LInv, EarlierInPlace
    <3>2. PageOf(s, i)' = Translation(t, VAddr(s, i))' /\ PageOf(s, i) = Translation(t, VAddr(s, i))
      BY <1>1 DEF PageOf
    <3>3. PageOf(s, i)' = PageOf(s, i)
      BY <1>2, <3>2, SameSpace
    <3>. QED  BY <1>2, <3>1, <3>3 DEF InPlace
  <2>. QED  BY <2>1 DEF EarlierInPlace
<1>6. Position'
  <2>1. CASE seg' = seg /\ idx' = idx
    BY <1>2, <1>3, <2>1 DEF NextPage, LInv, Position, Setup, Ended, WithPage
  <2>2. CASE idx = PageNum(seg) /\ seg < Len(Segments) /\ seg' = seg + 1 /\ idx' = 0
             /\ file_sz_rem' = Segments[seg + 1].filesz /\ UNCHANGED pc
    <3>1. seg + 1 \in 1..Len(Segments)
      BY <1>3, <2>2
    <3>2. PageNum(seg + 1) \in Nat /\ file_sz_rem' = Rest(seg + 1, 0)
      BY ZenonT(20), <2>2, <3>1, Sizes, RestFacts
    <3>. QED  BY <1>2, <2>2, <3>1, <3>2 DEF Position, Setup, Ended, WithPage
  <2>. QED  BY <2>1, <2>2 DEF NextPage
<1>7. Targets' /\ NewPagesZero'
  <2>1. Roots' = Roots /\ NewPages' = NewPages
    BY <1>2, SameSpace DEF NewPages
  <2>. QED  BY <1>2, <2>1 DEF LInv, Targets, NewPagesZero
<1>8. CurrentPage'
  BY <1>4 DEF CurrentPage, WithPage, Mapped, WithCopy
<1>9. FreeMapped'
  <2>1. Translation(BootRoot, Free)' = Translation(BootRoot, Free)
    BY <1>2, SameSpace
  <2>. QED  BY <1>2, <1>4, <2>1 DEF FreeMapped, Filling
<1>. QED  BY <1>5, <1>6, <1>7, <1>8, <1>9 DEF LInv

\* The tables for FreeAddress, before the mapper starts.
LEMMA MapFreeTableStep ==
    ASSUME IInv, LInv, MapFreeTable
    PROVE  LInv'
<1>1. PICK x : x = NewTable
  OBVIOUS
<1>2. /\ pc = "setup" /\ pc' \in Setup /\ Free \in Addresses /\ BootRoot \in Roots
      /\ UNCHANGED <<target, seg, idx, file_sz_rem, page_cap, tmp_page_cap, content>>
  BY LoaderFacts DEF MapFreeTable, Goto, Setup
<1>3. /\ Roots' = Roots /\ pageCap' = pageCap
      /\ Translation(BootRoot, Free)' = Translation(BootRoot, Free)
  <2>1. CASE UNCHANGED vars
    BY <2>1, SameSpace DEF vars
  <2>2. CASE NewTables # {} /\ PageTableMap(x, BootRoot, Free)
    <3>1. PICK lvl : TreeOK(lvl, entries, tableCap)
      BY DEF IInv
    <3>2. x \in Tables /\ ~tableCap[x].mapped
      BY <1>1, <2>2, Retyped
    <3>3. pageCap' = pageCap
      BY <2>2 DEF PageTableMap
    <3>. QED  BY <1>2, <2>2, <3>1, <3>2, <3>3, TableMapStep
  <2>. QED  BY <1>1, <2>1, <2>2 DEF MapFreeTable
<1>4. Position'
  BY <1>2 DEF LInv, Position, Setup, Ended, WithPage
<1>5. Targets' /\ NewPagesZero' /\ EarlierInPlace'
  <2>1. NewPages' = NewPages
    BY <1>3 DEF NewPages
  <2>. QED  BY <1>2, <1>3, <2>1 DEF LInv, Targets, NewPagesZero, EarlierInPlace
<1>6. CurrentPage'
  BY <1>2 DEF CurrentPage, Setup, WithPage, Mapped, WithCopy
<1>7. FreeMapped'
  BY <1>2, <1>3 DEF LInv, FreeMapped, Filling, Setup
<1>. QED  BY <1>4, <1>5, <1>6, <1>7 DEF LInv

\* The new root table is not the root server's, and no page is done yet.
LEMMA TryNewStep ==
    ASSUME IInv, LInv, TryNew
    PROVE  LInv'
<1>1. PICK x : x = NewTable
  OBVIOUS
<1>2. /\ pc = "root" /\ pc \in Setup /\ pc \notin Filling /\ pc \notin Ended
      /\ pc' = "next" /\ Free \in Addresses /\ BootRoot \in Roots
      /\ NewTables # {} /\ make_as_root(x) /\ target' = x
      /\ UNCHANGED <<seg, idx, file_sz_rem, page_cap, tmp_page_cap, content>>
  BY <1>1, LoaderFacts DEF TryNew, Goto, Setup, Filling, Ended
<1>3. PICK lvl : TreeOK(lvl, entries, tableCap)
  BY DEF IInv
<1>4. x \in Tables /\ ~tableCap[x].mapped
  BY <1>1, <1>2, Retyped
<1>5. x # BootRoot
  BY <1>2, <1>3, <1>4 DEF Roots, TreeOK, CapsOK
<1>6. /\ Roots' = Roots \cup {x}
      /\ Translation(BootRoot, Free)' = Translation(BootRoot, Free)
  BY <1>2, <1>3, <1>4, MakeRootStep
<1>7. pageCap' = pageCap
  BY <1>2 DEF make_as_root
<1>8. seg = 1 /\ idx = 0
  BY <1>2 DEF LInv, Position
<1>9. EarlierInPlace'
  <2>1. ASSUME NEW s, NEW i, Earlier(s, i)' PROVE FALSE
    <3>1. s \in 1..Len(Segments) /\ i \in 0..(PageNum(s) - 1) /\ PageNum(s) \in Nat
      BY <2>1, Sizes DEF Earlier, IsPageOf
    <3>. QED  BY <1>2, <1>8, <2>1, <3>1 DEF Earlier
  <2>. QED  BY <2>1 DEF EarlierInPlace
<1>10. Position'
  BY <1>2 DEF LInv, Position, Setup, Ended, WithPage
<1>11. Targets' /\ NewPagesZero'
  <2>1. NewPages' = NewPages
    BY <1>7 DEF NewPages
  <2>. QED  BY <1>2, <1>5, <1>6, <2>1 DEF LInv, Targets, NewPagesZero
<1>12. CurrentPage'
  BY ZenonT(20), <1>2 DEF CurrentPage, WithPage, Mapped, WithCopy
<1>13. FreeMapped'
  BY Zenon, <1>2, <1>6 DEF LInv, FreeMapped, Filling
<1>. QED  BY <1>9, <1>10, <1>11, <1>12, <1>13 DEF LInv

\* Other threads and the cache of the processor leave the mapper's work alone.
LEMMA OtherStep ==
    ASSUME IInv, LInv, UNCHANGED <<entries, tableCap, pageCap>>, UNCHANGED lvars
    PROVE  LInv'
<1>1. PICK t : t = target
  OBVIOUS
<1>2. UNCHANGED <<target, pc, seg, idx, file_sz_rem, page_cap, tmp_page_cap, content>>
  BY DEF lvars
<1>3. /\ Roots' = Roots /\ NewPages' = NewPages /\ Current' = Current
      /\ Translation(BootRoot, Free)' = Translation(BootRoot, Free)
  BY <1>2, SameSpace DEF NewPages, Current
<1>4. ASSUME NEW s, NEW i
      PROVE  (Earlier(s, i)' <=> Earlier(s, i)) /\ PageOf(s, i)' = PageOf(s, i)
  <2>1. PageOf(s, i)' = Translation(t, VAddr(s, i))' /\ PageOf(s, i) = Translation(t, VAddr(s, i))
    BY <1>1, <1>2 DEF PageOf
  <2>. QED  BY <1>2, <2>1, SameSpace DEF Earlier, IsPageOf
<1>5. PageOf(seg, idx)' = PageOf(seg, idx)
  <2>1. PICK a : a = VAddr(seg, idx)
    OBVIOUS
  <2>2. PageOf(seg, idx)' = Translation(t, a)' /\ PageOf(seg, idx) = Translation(t, a)
    BY <1>1, <1>2, <2>1 DEF PageOf
  <2>. QED  BY <2>2, SameSpace
<1>6. Position' /\ Targets' /\ NewPagesZero'
  BY <1>2, <1>3 DEF LInv, Position, Targets, NewPagesZero
<1>7. EarlierInPlace'
  BY <1>2, <1>4 DEF LInv, EarlierInPlace, InPlace
<1>8. CurrentPage'
  BY Zenon, <1>2, <1>3, <1>4, <1>5 DEF LInv, CurrentPage
<1>9. FreeMapped'
  BY <1>2, <1>3 DEF LInv, FreeMapped
<1>. QED  BY <1>6, <1>7, <1>8, <1>9 DEF LInv

-----------------------------------------------------------------------------
(***************************************************************************)
(* The loader is one of the users of the page tables, so that all that     *)
(* holds for VSpace holds for it, and its own invariant is inductive.      *)
(***************************************************************************)

\* Every step of the loader is a call that VSpace has, on tables, pages and capabilities
\* that exist, or no call.
LEMMA LoaderCalls ==
    ASSUME IInv, LInv, LoaderNext
    PROVE  [DisciplinedNext]_vars
<1>1. PICK t, a, c, d, x, n, p : /\ t = target /\ a = VAddr(seg, idx) /\ c = page_cap
                                 /\ d = tmp_page_cap /\ x = NewTable /\ n = NewCap /\ p = NewPage
  OBVIOUS
<1>2. a \in Addresses /\ Free \in Addresses /\ BootRoot \in Roots
  BY <1>1, LoaderFacts
<1>3. CASE MapFreeTable
  <2>1. UNCHANGED vars \/ (NewTables # {} /\ PageTableMap(x, BootRoot, Free))
    BY <1>1, <1>3 DEF MapFreeTable
  <2>2. NewTables # {} => x \in Tables /\ ~tableCap[x].mapped
    BY <1>1, Retyped
  <2>. QED  BY <1>2, <2>1, <2>2 DEF DisciplinedNext
<1>4. CASE TryNew
  <2>1. x \in Tables /\ ~tableCap[x].mapped /\ make_as_root(x)
    BY <1>1, <1>4, Retyped DEF TryNew
  <2>. QED  BY <2>1 DEF DisciplinedNext
<1>5. CASE NextPage \/ WritePage
  BY <1>5 DEF NextPage, WritePage
<1>6. CASE RetypePage
  <2>1. UNCHANGED vars \/ (NewPages # {} /\ PageRetype(p, n))
    BY <1>1, <1>6 DEF RetypePage, Shortage
  <2>2. NewPages # {} => p \in Pages
    BY <1>1, Retyped
  <2>3. PageRetype(p, n) => n \in PageCaps
    BY DEF PageRetype
  <2>. QED  BY <2>1, <2>2, <2>3 DEF DisciplinedNext
<1>7. CASE MapPage \/ MapPageAgain
  <2>1. UNCHANGED vars \/ PageMap(c, t, a)
    BY <1>1, <1>7 DEF MapPage, MapPageAgain
  <2>2. t \in Roots /\ c \in DOMAIN pageCap
    BY Zenon, <1>1, <1>7 DEF MapPage, MapPageAgain, LInv, Targets, CurrentPage, Setup, WithPage
  <2>. QED  BY <1>2, <2>1, <2>2 DEF DisciplinedNext
<1>8. CASE MapTable
  <2>1. UNCHANGED vars \/ (NewTables # {} /\ PageTableMap(x, t, a))
    BY <1>1, <1>8 DEF MapTable, Shortage
  <2>2. t \in Roots /\ (NewTables # {} => x \in Tables /\ ~tableCap[x].mapped)
    BY <1>1, <1>8, Retyped DEF MapTable, LInv, Targets, Setup
  <2>. QED  BY <1>2, <2>1, <2>2 DEF DisciplinedNext
<1>9. CASE CopyCap
  <2>1. UNCHANGED vars \/ PageCopy(c, n)
    BY <1>1, <1>9 DEF CopyCap, Shortage
  <2>2. c \in DOMAIN pageCap /\ (PageCopy(c, n) => n \in PageCaps)
    BY <1>1, <1>9 DEF CopyCap, LInv, CurrentPage, WithPage, PageCopy
  <2>. QED  BY <2>1, <2>2 DEF DisciplinedNext
<1>10. CASE MapTmp \/ UnmapTmp
  <2>1. UNCHANGED vars \/ PageMap(d, BootRoot, Free) \/ PageUnMap(d, BootRoot)
    BY <1>1, <1>10 DEF MapTmp, UnmapTmp
  <2>2. d \in DOMAIN pageCap
    BY ZenonT(20), <1>1, <1>10 DEF MapTmp, UnmapTmp, LInv, CurrentPage, WithCopy
  <2>. QED  BY <1>2, <2>1, <2>2 DEF DisciplinedNext
<1>11. CASE Switch
  BY <1>2, <1>11 DEF Switch, DisciplinedNext
<1>12. CASE Cache
  BY <1>12 DEF Cache, DisciplinedNext
<1>. QED  BY <1>3, <1>4, <1>5, <1>6, <1>7, <1>8, <1>9, <1>10, <1>11, <1>12 DEF LoaderNext, Loader

\* When the loader starts, nothing is mapped.
LEMMA LoaderInitInv == LoaderInit => IInv /\ LInv
<1>. SUFFICES ASSUME LoaderInit PROVE IInv /\ LInv
  OBVIOUS
<1>1. IInv
  BY InitIInv DEF LoaderInit
<1>2. pc = "setup" /\ seg = 1 /\ idx = 0 /\ pageCap = Empty
      /\ file_sz_rem = Segments[1].filesz /\ content = [p \in Pages |-> Zero]
  BY DEF LoaderInit, Init
<1>3. BootRoot \in Roots
  BY Zenon, VSpaceAssumption DEF LoaderInit, Init, Roots
<1>4. 1 \in 1..Len(Segments)
  BY LoaderAssumption
<1>5. NewPages = Pages
  BY <1>2 DEF NewPages, Empty
<1>6. Translation(BootRoot, Free) = Unmapped
  BY <1>1, <1>3, <1>5, FreeIsAddress, MappedNotNew
<1>7. Position
  <2>1. PageNum(1) \in Nat /\ Rest(1, 0) = Segments[1].filesz
    BY <1>4, Sizes, RestFacts
  <2>. QED  BY <1>2, <1>4, <2>1 DEF Position, Setup, Ended, WithPage
<1>8. Targets /\ NewPagesZero /\ EarlierInPlace
  BY <1>2, <1>3 DEF Targets, NewPagesZero, EarlierInPlace, Setup, NewPages
<1>9. CurrentPage /\ FreeMapped
  BY <1>2, <1>6 DEF CurrentPage, FreeMapped, WithPage, Mapped, WithCopy, Filling
<1>. QED  BY <1>1, <1>7, <1>8, <1>9 DEF LInv

\* One step per action of the loader.
LEMMA LoaderNextInv == IInv /\ LInv /\ [LoaderNext]_<<vars, lvars>> => IInv' /\ LInv'
<1>. SUFFICES ASSUME IInv, LInv, [LoaderNext]_<<vars, lvars>> PROVE IInv' /\ LInv'
  OBVIOUS
<1>1. IInv'
  <2>1. [DisciplinedNext]_vars
    BY LoaderCalls
  <2>. QED  BY <2>1, NextIInv
<1>2. ASSUME Loader PROVE LInv'
  <2>1. CASE MapFreeTable
    BY <2>1, MapFreeTableStep
  <2>2. CASE TryNew
    BY <2>2, TryNewStep
  <2>3. CASE target' = target /\ active = BootRoot
    <3>1. CASE NextPage \/ RetypePage \/ CopyCap
      BY <2>3, <3>1, NextPageStep, RetypePageStep, CopyCapStep
    <3>2. CASE MapPage \/ MapTable \/ MapPageAgain
      BY <2>3, <3>2, MapPageStep, MapTableStep, MapPageAgainStep
    <3>3. CASE MapTmp \/ WritePage \/ UnmapTmp
      BY <2>3, <3>3, MapTmpStep, WritePageStep, UnmapTmpStep
    <3>. QED  BY <1>2, <2>1, <2>2, <3>1, <3>2, <3>3 DEF Loader
  <2>. QED  BY <1>2, <2>1, <2>2, <2>3 DEF Loader
<1>3. ASSUME Switch \/ Cache \/ UNCHANGED <<vars, lvars>> PROVE LInv'
  <2>1. UNCHANGED <<entries, tableCap, pageCap>> /\ UNCHANGED lvars
    BY <1>3 DEF Switch, Cache, Activate, CacheTranslation, vars
  <2>. QED  BY <2>1, OtherStep
<1>. QED  BY <1>1, <1>2, <1>3 DEF LoaderNext

\* For every program, whatever its segments, and tables of any depth and width: when the
\* root server's loader is done, every page of every segment is mapped at its address in
\* the new address space and has its part of the file, and FreeAddress is free again:
\* unmap does not flush the translations that the stores go through, the next map does.
THEOREM LoaderCorrect == LoaderSpec => []ImageLoaded
<1>1. IInv /\ LInv => ImageLoaded
  <2>. SUFFICES ASSUME IInv, LInv, pc = "done" PROVE ImageLoaded
    BY DEF ImageLoaded
  <2>1. seg = Len(Segments) /\ idx = PageNum(seg) /\ pc \notin Setup /\ pc \notin Filling
    BY DEF LInv, Position, Setup, Filling
  <2>2. ASSUME NEW s \in 1..Len(Segments), NEW i \in 0..(PageNum(s) - 1) PROVE InPlace(s, i)
    <3>1. PageNum(s) \in Nat /\ Len(Segments) \in Nat
      BY Sizes, LoaderAssumption
    <3>2. Earlier(s, i)
      BY <2>1, <3>1 DEF Earlier, IsPageOf
    <3>. QED  BY <2>1, <3>2 DEF LInv, EarlierInPlace
  <2>3. Translation(BootRoot, Free) = Unmapped
    BY <2>1 DEF LInv, FreeMapped
  <2>. QED  BY <2>2, <2>3 DEF ImageLoaded, InPlace, PageOf
<1>. QED  BY <1>1, LoaderInitInv, LoaderNextInv, PTL DEF LoaderSpec

=============================================================================
