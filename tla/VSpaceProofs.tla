---------------------------- MODULE VSpaceProofs ----------------------------
(***************************************************************************)
(* Proofs about VSpace, for every depth and width of the tables and every  *)
(* number of tables, pages and capabilities.                               *)
(*                                                                         *)
(* The invariant IInv gives every table a level, such that entries go down *)
(* by one level and no table has two parents.  Then two walks meet only if *)
(* they are the same walk, which is what bounds the effect of a call.      *)
(***************************************************************************)
EXTENDS VSpace, NatLemmas

\* The backends of a leaf that names none, in the order they are tried.
USE SMTT(20), ZenonT(10), SMTT(30), SMTT(40), SMTT(50)

-----------------------------------------------------------------------------
(***************************************************************************)
(* The invariant.                                                          *)
(***************************************************************************)

Valid(ent, t, v) == t \in Tables /\ v \in DOMAIN ent[t]

CapsOK(tc) ==
    /\ tc \in [Tables -> [mapped : BOOLEAN, root : BOOLEAN]]
    /\ \A t \in Tables : tc[t].root => tc[t].mapped

\* What a table holds, by its level.
TableOK(t, lvl, ent, tc) ==
    /\ ~tc[t].mapped => ent[t] = Empty
    /\ tc[t].root => /\ lvl[t] = Top
                     /\ KernelVpn \in DOMAIN ent[t] /\ ent[t][KernelVpn] = Kernel
    /\ DOMAIN ent[t] \subseteq IF tc[t].root THEN Vpns \cup {KernelVpn} ELSE Vpns
    /\ \A v \in DOMAIN ent[t] \cap Vpns :
        IF lvl[t] = 0 THEN ent[t][v] \in Pages
        ELSE /\ ent[t][v] \in Tables /\ lvl[ent[t][v]] = lvl[t] - 1
             /\ tc[ent[t][v]].mapped /\ ~tc[ent[t][v]].root

\* A table has at most one parent, and one if it is mapped under another.
ParentsOK(ent, tc) ==
    /\ \A t, u \in Tables : \A v \in DOMAIN ent[t] \cap Vpns, w \in DOMAIN ent[u] \cap Vpns :
        ent[t][v] = ent[u][w] /\ ent[t][v] \in Tables => t = u /\ v = w
    /\ \A t \in Tables : tc[t].mapped /\ ~tc[t].root =>
        \E u \in Tables : \E v \in DOMAIN ent[u] \cap Vpns : ent[u][v] = t

TreeOK(lvl, ent, tc) ==
    /\ lvl \in [Tables -> 0..Top]
    /\ ent = [t \in Tables |-> ent[t]]
    /\ \A t \in Tables : ent[t] = [v \in DOMAIN ent[t] |-> ent[t][v]]
    /\ CapsOK(tc)
    /\ \A t \in Tables : TableOK(t, lvl, ent, tc)
    /\ ParentsOK(ent, tc)

PageCapsOK ==
    /\ DOMAIN pageCap \subseteq PageCaps
    /\ pageCap \in [DOMAIN pageCap -> [page : Pages, at : Addresses \cup {Unmapped}]]

\* A page that is mapped still has a capability: none is ever deleted.
MappedNamed ==
    \A r \in Roots, a \in Addresses :
        Translation(r, a) \in Pages =>
            \E c \in DOMAIN pageCap : pageCap[c].page = Translation(r, a)

IInv ==
    /\ \E lvl : TreeOK(lvl, entries, tableCap)
    /\ PageCapsOK
    /\ MappedNamed
    /\ active \in Roots \cup {Kernel}
    /\ \A e \in tlb : e[1] \in Addresses
    /\ CachedAgrees
    /\ MappingsCounted

-----------------------------------------------------------------------------
(***************************************************************************)
(* What walk computes: it follows valid entries from the root, and stops at *)
(* level 0 or at the first entry that is not valid.                        *)
(***************************************************************************)

\* One iteration of the loop of walk, for every table that it may be in.
Step(addr, f, level) ==
    [table \in Tables \cup Pages |->
        IF level = 0 \/ ~IsValid(table, addr[level]) THEN [level |-> level, table |-> table]
        ELSE f[level - 1][entries[table][addr[level]]]]

IsWalk(addr, f, n) == f = [level \in 0..n |-> Step(addr, f, level)]

\* p is the tables that are met from the root r down to a level.
PathTo(ent, r, a, level, p) ==
    /\ level \in 0..Top
    /\ p[Top] = r
    /\ \A k \in (level + 1)..Top : Valid(ent, p[k], a[k]) /\ p[k - 1] = ent[p[k]][a[k]]

\* The walk for a under r ends in a table, at a level.
Ends(ent, r, a, level, table) ==
    /\ level = 0 \/ ~Valid(ent, table, a[level])
    /\ \E p : PathTo(ent, r, a, level, p) /\ p[level] = table

\* What the processor finds where a walk ended.
Found(ent, a, level, table) ==
    IF level = 0 /\ Valid(ent, table, a[0]) THEN ent[table][a[0]] ELSE Unmapped

\* An iteration of walk depends only on the one below it.
LEMMA StepReadsBelow ==
    ASSUME NEW addr, NEW f, NEW g, NEW n \in Nat, n = 0 \/ f[n - 1] = g[n - 1]
    PROVE  Step(addr, f, n) = Step(addr, g, n)
<1>1. CASE n = 0
  BY <1>1 DEF Step
<1>2. CASE f[n - 1] = g[n - 1]
  BY <1>2, Zenon DEF Step
<1>. QED  BY <1>1, <1>2

\* The loop of walk ends, whatever the tables hold.
LEMMA WalkExists ==
    ASSUME NEW addr, NEW m \in Nat
    PROVE  \E f : IsWalk(addr, f, m)
<1>. DEFINE S == {n \in Nat : \E f : IsWalk(addr, f, n)}
<1>1. 0 \in S
  <2>. DEFINE f == [level \in 0..0 |-> Step(addr, <<>>, level)]
  <2>1. \A level \in 0..0 : f[level] = Step(addr, f, level)
    BY StepReadsBelow
  <2>2. IsWalk(addr, f, 0)
    BY <2>1 DEF IsWalk
  <2>. QED  BY <2>2
<1>2. ASSUME NEW n \in S  PROVE n + 1 \in S
  <2>1. PICK f : IsWalk(addr, f, n)
    OBVIOUS
  <2>. DEFINE g == [level \in 0..(n + 1) |-> IF level \in 0..n THEN f[level] ELSE Step(addr, f, level)]
  <2>2. \A level \in 0..n : g[level] = f[level]
    OBVIOUS
  <2>3. ASSUME NEW level \in 0..(n + 1)  PROVE g[level] = Step(addr, g, level)
    <3>. HIDE DEF g
    <3>1. level = 0 \/ f[level - 1] = g[level - 1]
      BY <2>2
    <3>2. Step(addr, f, level) = Step(addr, g, level)
      BY <3>1, StepReadsBelow
    <3>3. CASE level \in 0..n
      BY <2>1, <2>2, <3>2, <3>3 DEF IsWalk
    <3>4. CASE level \notin 0..n
      BY <3>2, <3>4 DEF g
    <3>. QED  BY <3>3, <3>4
  <2>4. IsWalk(addr, g, n + 1)
    BY <2>3 DEF IsWalk
  <2>. QED  BY <2>4
<1>. HIDE DEF S
<1>3. \A n \in Nat : n \in S
  BY <1>1, <1>2, SetInduction
<1>. QED  BY <1>3 DEF S

\* walk is given by its loop.
LEMMA WalkIsWalk ==
    ASSUME NEW root, NEW addr
    PROVE  \E f : IsWalk(addr, f, Top) /\ walk(root, addr) = f[Top][root]
<1>. DEFINE f == CHOOSE g : IsWalk(addr, g, Top)
<1>1. IsWalk(addr, f, Top)
  BY WalkExists, VSpaceAssumption
<1>2. walk(root, addr) = f[Top][root]
  BY Zenon DEF walk, IsWalk, Step
<1>. QED  BY Zenon, <1>1, <1>2

\* Induction along the levels that a walk goes down.
LEMMA DownInduction ==
    ASSUME NEW S, NEW l \in 0..Top, Top \in S, \A k \in (l + 1)..Top : k \in S => k - 1 \in S
    PROVE  \A k \in l..Top : k \in S
<1>. DEFINE T == {n \in Nat : n <= Top - l => Top - n \in S}
<1>1. Top \in Nat
  BY VSpaceAssumption
<1>2. 0 \in T
  BY <1>1
<1>3. ASSUME NEW n \in Nat, n \in T  PROVE n + 1 \in T
  <2>. SUFFICES ASSUME n + 1 <= Top - l  PROVE Top - (n + 1) \in S
    OBVIOUS
  <2>1. Top - n \in S /\ Top - n \in (l + 1)..Top
    BY <1>1, <1>3
  <2>2. (Top - n) - 1 \in S
    BY <2>1
  <2>. QED  BY <2>2, <1>1
<1>. HIDE DEF T
<1>4. Nat \subseteq T
  BY <1>2, <1>3, SetInduction
<1>5. ASSUME NEW k \in l..Top  PROVE k \in S
  <2>1. Top - k \in Nat /\ Top - k <= Top - l /\ Top - (Top - k) = k
    BY <1>1
  <2>2. Top - k \in T
    BY <2>1, <1>4
  <2>. QED  BY <2>1, <2>2 DEF T
<1>. QED  BY <1>5

\* Induction along the same levels, from the last one up to the root.
LEMMA UpInduction ==
    ASSUME NEW S, NEW l \in 0..Top, l \in S, \A k \in l..(Top - 1) : k \in S => k + 1 \in S
    PROVE  \A k \in l..Top : k \in S
<1>. DEFINE T == {n \in Nat : n <= Top - l => l + n \in S}
<1>1. Top \in Nat
  BY VSpaceAssumption
<1>2. 0 \in T
  BY <1>1
<1>3. ASSUME NEW n \in Nat, n \in T  PROVE n + 1 \in T
  <2>. SUFFICES ASSUME n + 1 <= Top - l  PROVE l + (n + 1) \in S
    OBVIOUS
  <2>1. l + n \in S /\ l + n \in l..(Top - 1)
    BY <1>1, <1>3
  <2>2. (l + n) + 1 \in S
    BY <2>1
  <2>. QED  BY <2>2, <1>1
<1>. HIDE DEF T
<1>4. Nat \subseteq T
  BY <1>2, <1>3, SetInduction
<1>5. ASSUME NEW k \in l..Top  PROVE k \in S
  <2>1. k - l \in Nat /\ k - l <= Top - l /\ l + (k - l) = k
    BY <1>1
  <2>2. k - l \in T
    BY <2>1, <1>4
  <2>. QED  BY <2>1, <2>2 DEF T
<1>. QED  BY <1>5

\* r is a root, and a an address of the user half.
IsRoot(r, tc) == r \in Tables /\ tc[r].root

\* A walk from a root meets a mapped table of every level: never a page.
LEMMA PathLevels ==
    ASSUME NEW lvl, NEW ent, NEW tc, TreeOK(lvl, ent, tc),
           NEW r, IsRoot(r, tc), NEW a \in Addresses,
           NEW l, NEW p, PathTo(ent, r, a, l, p)
    PROVE  \A k \in l..Top : p[k] \in Tables /\ lvl[p[k]] = k /\ tc[p[k]].mapped
<1>. DEFINE S == {k \in 0..Top : p[k] \in Tables /\ lvl[p[k]] = k /\ tc[p[k]].mapped}
<1>1. Top \in Nat /\ l \in 0..Top
  BY VSpaceAssumption DEF PathTo
<1>2. Top \in S
  BY <1>1 DEF PathTo, IsRoot, TreeOK, CapsOK, TableOK
<1>3. ASSUME NEW k \in (l + 1)..Top, k \in S  PROVE k - 1 \in S
  <2>1. k \in 1..Top /\ a[k] \in Vpns /\ k - 1 \in 0..Top
    BY <1>1 DEF Addresses
  <2>2. p[k] \in Tables /\ a[k] \in DOMAIN ent[p[k]] \cap Vpns /\ p[k - 1] = ent[p[k]][a[k]]
    BY <2>1 DEF PathTo, Valid
  <2>3. TableOK(p[k], lvl, ent, tc) /\ lvl[p[k]] = k
    BY <2>2, <1>3 DEF TreeOK
  <2>4. ent[p[k]][a[k]] \in Tables /\ lvl[ent[p[k]][a[k]]] = k - 1 /\ tc[ent[p[k]][a[k]]].mapped
    BY <2>1, <2>2, <2>3 DEF TableOK
  <2>. QED  BY <2>1, <2>2, <2>4
<1>. HIDE DEF S
<1>4. \A k \in l..Top : k \in S
  BY <1>1, <1>2, <1>3, DownInduction
<1>. QED  BY <1>4 DEF S

\* A valid entry takes the walk to the next level.
LEMMA PathExtends ==
    ASSUME NEW ent, NEW r, NEW a, NEW k \in 1..Top, NEW p, PathTo(ent, r, a, k, p),
           Valid(ent, p[k], a[k])
    PROVE  \E q : PathTo(ent, r, a, k - 1, q) /\ q[k - 1] = ent[p[k]][a[k]]
<1>1. Top \in Nat
  BY VSpaceAssumption
<1>. DEFINE q == [j \in 0..Top |-> IF j = k - 1 THEN ent[p[k]][a[k]] ELSE p[j]]
<1>2. k - 1 \in 0..Top /\ \A j \in k..Top : j \in 0..Top /\ j # k - 1
  BY <1>1
<1>3. q[k - 1] = ent[p[k]][a[k]] /\ \A j \in k..Top : q[j] = p[j]
  BY <1>2
<1>. HIDE DEF q
<1>4. q[Top] = r
  BY <1>1, <1>3 DEF PathTo
<1>5. ASSUME NEW j \in ((k - 1) + 1)..Top
      PROVE  Valid(ent, q[j], a[j]) /\ q[j - 1] = ent[q[j]][a[j]]
  <2>1. j \in k..Top
    BY <1>1
  <2>2. CASE j = k
    BY <2>1, <2>2, <1>3
  <2>3. CASE j # k
    <3>1. j \in (k + 1)..Top /\ j - 1 \in k..Top
      BY <2>1, <2>3, <1>1
    <3>2. Valid(ent, p[j], a[j]) /\ p[j - 1] = ent[p[j]][a[j]]
      BY <3>1 DEF PathTo
    <3>. QED  BY <3>1, <3>2, <2>1, <1>3
  <2>. QED  BY <2>2, <2>3
<1>6. PathTo(ent, r, a, k - 1, q)
  BY <1>2, <1>4, <1>5 DEF PathTo
<1>. QED  BY <1>3, <1>6

\* walk returns the level and the table where the walk ends.
LEMMA WalkEnds ==
    ASSUME NEW lvl, TreeOK(lvl, entries, tableCap), NEW r \in Roots, NEW a \in Addresses
    PROVE  \E l, t : walk(r, a) = [level |-> l, table |-> t] /\ Ends(entries, r, a, l, t)
<1>0. SUFFICES ASSUME ~ \E l, t : walk(r, a) = [level |-> l, table |-> t] /\ Ends(entries, r, a, l, t)
               PROVE  FALSE
  OBVIOUS
<1>1. PICK f : IsWalk(a, f, Top) /\ walk(r, a) = f[Top][r]
  BY WalkIsWalk
<1>2. Top \in Nat /\ 0 \in 0..Top /\ Top \in 0..Top /\ IsRoot(r, tableCap)
  BY VSpaceAssumption DEF Roots, IsRoot
<1>. DEFINE S == {k \in 0..Top : \E p : PathTo(entries, r, a, k, p) /\ walk(r, a) = f[k][p[k]]}
<1>3. Top \in S
  <2>. DEFINE p == [k \in 0..Top |-> r]
  <2>1. PathTo(entries, r, a, Top, p) /\ p[Top] = r
    BY <1>2 DEF PathTo
  <2>. QED  BY <1>1, <1>2, <2>1
<1>4. ASSUME NEW k \in 0..Top, NEW p, PathTo(entries, r, a, k, p), walk(r, a) = f[k][p[k]]
      PROVE  /\ k # 0 /\ Valid(entries, p[k], a[k])
             /\ walk(r, a) = f[k - 1][entries[p[k]][a[k]]]
  <2>1. p[k] \in Tables
    BY <1>2, <1>4, PathLevels
  <2>2. f[k] = Step(a, f, k)
    BY Zenon, <1>1 DEF IsWalk
  <2>3. f[k][p[k]] = IF k = 0 \/ ~IsValid(p[k], a[k]) THEN [level |-> k, table |-> p[k]]
                     ELSE f[k - 1][entries[p[k]][a[k]]]
    BY <2>1, <2>2, Zenon DEF Step
  <2>4. CASE k = 0 \/ ~IsValid(p[k], a[k])
    <3>1. walk(r, a) = [level |-> k, table |-> p[k]]
      BY <2>3, <2>4, <1>4
    <3>2. Ends(entries, r, a, k, p[k])
      BY <2>4, <1>4 DEF Ends, Valid, IsValid
    <3>. QED  BY <1>0, <3>1, <3>2
  <2>5. CASE ~(k = 0 \/ ~IsValid(p[k], a[k]))
    BY <2>3, <2>5, <1>4 DEF Valid, IsValid
  <2>. QED  BY <2>4, <2>5
<1>5. ASSUME NEW k \in 1..Top, k \in S  PROVE k - 1 \in S
  <2>1. PICK p : PathTo(entries, r, a, k, p) /\ walk(r, a) = f[k][p[k]]
    BY <1>5
  <2>2. /\ k # 0 /\ Valid(entries, p[k], a[k])
        /\ walk(r, a) = f[k - 1][entries[p[k]][a[k]]]
    BY <2>1, <1>4, <1>2
  <2>3. PICK q : PathTo(entries, r, a, k - 1, q) /\ q[k - 1] = entries[p[k]][a[k]]
    <3>1. PathTo(entries, r, a, k, p)
      BY <2>1
    <3>2. Valid(entries, p[k], a[k])
      BY <2>2
    <3>. QED  BY <3>1, <3>2, PathExtends
  <2>4. k - 1 \in 0..Top
    BY <1>2
  <2>. QED  BY <2>2, <2>3, <2>4
<1>. HIDE DEF S
<1>6. 0 \in S
  BY <1>2, <1>3, <1>5, DownInduction
<1>7. PICK p : PathTo(entries, r, a, 0, p) /\ walk(r, a) = f[0][p[0]]
  BY <1>6 DEF S
<1>. QED  BY <1>7, <1>4, <1>2

\* Two walks for the same address under the same root meet the same tables.
LEMMA PathsAgree ==
    ASSUME NEW ent, NEW r, NEW a, NEW l, NEW p, PathTo(ent, r, a, l, p), NEW q, PathTo(ent, r, a, l, q)
    PROVE  \A k \in l..Top : p[k] = q[k]
<1>. DEFINE S == {k \in 0..Top : p[k] = q[k]}
<1>1. Top \in Nat /\ l \in 0..Top
  BY VSpaceAssumption DEF PathTo
<1>2. Top \in S
  BY <1>1 DEF PathTo
<1>3. ASSUME NEW k \in (l + 1)..Top, k \in S  PROVE k - 1 \in S
  BY <1>1, <1>3 DEF PathTo
<1>. HIDE DEF S
<1>4. \A k \in l..Top : k \in S
  BY <1>1, <1>2, <1>3, DownInduction
<1>. QED  BY <1>4 DEF S

\* A walk that goes on to a lower level meets every level above it.
LEMMA PathPrefix ==
    ASSUME NEW ent, NEW r, NEW a, NEW l, NEW p, PathTo(ent, r, a, l, p), NEW m \in l..Top
    PROVE  PathTo(ent, r, a, m, p)
<1>1. Top \in Nat /\ l \in 0..Top
  BY VSpaceAssumption DEF PathTo
<1>. QED  BY <1>1 DEF PathTo

\* A walk ends in one place.
LEMMA EndsOnce ==
    ASSUME NEW ent, NEW r, NEW a, NEW l, NEW t, Ends(ent, r, a, l, t),
           NEW m, NEW u, Ends(ent, r, a, m, u)
    PROVE  l = m /\ t = u
<1>1. PICK p : PathTo(ent, r, a, l, p) /\ p[l] = t
  BY DEF Ends
<1>2. PICK q : PathTo(ent, r, a, m, q) /\ q[m] = u
  BY DEF Ends
<1>3. Top \in Nat /\ l \in 0..Top /\ m \in 0..Top
  BY <1>1, <1>2, VSpaceAssumption DEF PathTo
<1>4. ~(l < m)
  <2>. SUFFICES ASSUME l < m  PROVE FALSE
    OBVIOUS
  <2>1. PathTo(ent, r, a, m, p) /\ m \in m..Top /\ m \in (l + 1)..Top
    BY <1>1, <1>3, PathPrefix
  <2>2. p[m] = u
    BY <2>1, <1>2, PathsAgree
  <2>. QED  BY <2>1, <2>2, <1>1, <1>3 DEF Ends, PathTo
<1>5. ~(m < l)
  <2>. SUFFICES ASSUME m < l  PROVE FALSE
    OBVIOUS
  <2>1. PathTo(ent, r, a, l, q) /\ l \in l..Top /\ l \in (m + 1)..Top
    BY <1>2, <1>3, PathPrefix
  <2>2. q[l] = t
    BY <2>1, <1>1, PathsAgree
  <2>. QED  BY <2>1, <2>2, <1>2, <1>3 DEF Ends, PathTo
<1>6. l = m
  BY <1>3, <1>4, <1>5
<1>7. PathTo(ent, r, a, l, q) /\ l \in l..Top
  BY <1>2, <1>3, <1>6
<1>8. p[l] = q[l]
  BY <1>1, <1>7, PathsAgree
<1>. QED  BY <1>1, <1>2, <1>6, <1>8

\* Translation is decided by where the walk ends.
TranslationRule ==
    \A lvl : TreeOK(lvl, entries, tableCap) =>
        \A r \in Roots, a \in Addresses : \E l, t :
            /\ walk(r, a) = [level |-> l, table |-> t]
            /\ Ends(entries, r, a, l, t)
            /\ Translation(r, a) = Found(entries, a, l, t)

\* walk and Translation say where the walk ends and what is found there.
LEMMA TranslationFollows == TranslationRule
<1>. SUFFICES ASSUME NEW lvl, TreeOK(lvl, entries, tableCap), NEW r \in Roots, NEW a \in Addresses
              PROVE  \E l, t : /\ walk(r, a) = [level |-> l, table |-> t]
                               /\ Ends(entries, r, a, l, t)
                               /\ Translation(r, a) = Found(entries, a, l, t)
  BY DEF TranslationRule
<1>1. PICK l, t : walk(r, a) = [level |-> l, table |-> t] /\ Ends(entries, r, a, l, t)
  BY WalkEnds
<1>2. walk(r, a).level = l /\ walk(r, a).table = t
  BY <1>1
<1>3. Translation(r, a) = Found(entries, a, l, t)
  BY <1>2, Zenon DEF Translation, Found, Valid, IsValid
<1>. QED  BY <1>1, <1>3

\* Two walks that meet in a table are for the same root, and for addresses that agree
\* above it: no two address spaces share a table.
LEMMA PathsMeet ==
    ASSUME NEW lvl, NEW ent, NEW tc, TreeOK(lvl, ent, tc),
           NEW r, IsRoot(r, tc), NEW a \in Addresses, NEW s, IsRoot(s, tc), NEW b \in Addresses,
           NEW l, NEW p, PathTo(ent, r, a, l, p), NEW q, PathTo(ent, s, b, l, q), p[l] = q[l]
    PROVE  r = s /\ \A k \in (l + 1)..Top : a[k] = b[k]
<1>. DEFINE S == {k \in 0..Top : p[k] = q[k] /\ \A j \in (l + 1)..k : a[j] = b[j]}
<1>1. Top \in Nat /\ l \in 0..Top
  BY VSpaceAssumption DEF PathTo
<1>2. l \in S
  BY <1>1
<1>3. ASSUME NEW k \in l..(Top - 1), k \in S  PROVE k + 1 \in S
  <2>1. k + 1 \in (l + 1)..Top /\ k + 1 \in 0..Top /\ (k + 1) - 1 = k /\ k \in l..Top
    BY <1>1
  <2>2. /\ p[k + 1] \in Tables /\ a[k + 1] \in DOMAIN ent[p[k + 1]] /\ p[k] = ent[p[k + 1]][a[k + 1]]
        /\ q[k + 1] \in Tables /\ b[k + 1] \in DOMAIN ent[q[k + 1]] /\ q[k] = ent[q[k + 1]][b[k + 1]]
    BY <2>1 DEF PathTo, Valid
  <2>3. a[k + 1] \in Vpns /\ b[k + 1] \in Vpns
    BY <2>1 DEF Addresses
  <2>4. p[k] \in Tables
    BY <2>1, PathLevels
  <2>5. p[k + 1] = q[k + 1] /\ a[k + 1] = b[k + 1]
    BY <2>2, <2>3, <2>4, <1>3 DEF TreeOK, ParentsOK
  <2>6. ASSUME NEW j \in (l + 1)..(k + 1)  PROVE a[j] = b[j]
    BY <2>5, <1>3, <1>1
  <2>. QED  BY <2>1, <2>5, <2>6
<1>. HIDE DEF S
<1>4. \A k \in l..Top : k \in S
  BY <1>1, <1>2, <1>3, UpInduction
<1>5. Top \in S
  BY <1>1, <1>4
<1>. QED  BY <1>5 DEF S, PathTo

\* The entries that a walk followed are still there.
SameOn(ent, new, a, l, p) ==
    \A k \in (l + 1)..Top : a[k] \in DOMAIN new[p[k]] /\ new[p[k]][a[k]] = ent[p[k]][a[k]]

\* A walk whose entries are not written stays.
LEMMA PathStays ==
    ASSUME NEW ent, NEW new, NEW r, NEW a, NEW l, NEW p, PathTo(ent, r, a, l, p),
           SameOn(ent, new, a, l, p)
    PROVE  PathTo(new, r, a, l, p)
BY DEF PathTo, Valid, SameOn

\* A table with a walk to it, whose entry for the address is not valid or is of level 0,
\* is where the walk ends.
LEMMA PathEnds ==
    ASSUME NEW ent, NEW r, NEW a, NEW l, NEW p, PathTo(ent, r, a, l, p),
           l = 0 \/ ~Valid(ent, p[l], a[l])
    PROVE  Ends(ent, r, a, l, p[l])
BY DEF Ends

-----------------------------------------------------------------------------
(***************************************************************************)
(* The calls keep the trees.                                               *)
(***************************************************************************)

\* What Pte::write leaves in a table.
LEMMA EntryWritten ==
    ASSUME NEW lvl, TreeOK(lvl, entries, tableCap), NEW u \in Tables, NEW v, NEW x,
           entries' = Write(u, v, x)
    PROVE  /\ entries' = [t \in Tables |-> entries'[t]]
           /\ \A t \in Tables : entries'[t] = [i \in DOMAIN entries'[t] |-> entries'[t][i]]
           /\ \A t \in Tables : t # u => entries'[t] = entries[t]
           /\ DOMAIN entries'[u] = DOMAIN entries[u] \cup {v}
           /\ entries'[u][v] = x
           /\ \A i \in DOMAIN entries[u] : i # v => entries'[u][i] = entries[u][i]
<1>1. entries = [t \in Tables |-> entries[t]]
  BY DEF TreeOK
<1>. DEFINE row == [i \in DOMAIN entries[u] \cup {v} |-> IF i = v THEN x ELSE entries[u][i]]
<1>2. entries' = [entries EXCEPT ![u] = row]
  BY DEF Write
<1>. HIDE DEF row
<1>3. entries' = [t \in Tables |-> IF t = u THEN row ELSE entries[t]]
  BY <1>1, <1>2
<1>4. entries'[u] = row /\ \A t \in Tables : t # u => entries'[t] = entries[t]
  BY <1>3
<1>5. row = [i \in DOMAIN row |-> row[i]]
  BY DEF row
<1>6. \A t \in Tables : entries'[t] = [i \in DOMAIN entries'[t] |-> entries'[t][i]]
  BY <1>4, <1>5 DEF TreeOK
<1>7. /\ DOMAIN row = DOMAIN entries[u] \cup {v} /\ row[v] = x
      /\ \A i \in DOMAIN entries[u] : i # v => row[i] = entries[u][i]
  BY DEF row
<1>. QED  BY <1>3, <1>4, <1>6, <1>7

\* What Pte::clear leaves in a table.
LEMMA Cleared ==
    ASSUME NEW lvl, TreeOK(lvl, entries, tableCap), NEW u \in Tables, NEW v,
           entries' = Clear(u, v)
    PROVE  /\ entries' = [t \in Tables |-> entries'[t]]
           /\ \A t \in Tables : entries'[t] = [i \in DOMAIN entries'[t] |-> entries'[t][i]]
           /\ \A t \in Tables : t # u => entries'[t] = entries[t]
           /\ DOMAIN entries'[u] = DOMAIN entries[u] \ {v}
           /\ \A i \in DOMAIN entries[u] : i # v => entries'[u][i] = entries[u][i]
<1>1. entries = [t \in Tables |-> entries[t]]
  BY DEF TreeOK
<1>. DEFINE row == [i \in DOMAIN entries[u] \ {v} |-> entries[u][i]]
<1>2. entries' = [entries EXCEPT ![u] = row]
  BY DEF Clear
<1>. HIDE DEF row
<1>3. entries' = [t \in Tables |-> IF t = u THEN row ELSE entries[t]]
  BY <1>1, <1>2
<1>4. entries'[u] = row /\ \A t \in Tables : t # u => entries'[t] = entries[t]
  BY <1>3
<1>5. row = [i \in DOMAIN row |-> row[i]]
  BY DEF row
<1>6. \A t \in Tables : entries'[t] = [i \in DOMAIN entries'[t] |-> entries'[t][i]]
  BY <1>4, <1>5 DEF TreeOK
<1>7. /\ DOMAIN row = DOMAIN entries[u] \ {v}
      /\ \A i \in DOMAIN entries[u] : i # v => row[i] = entries[u][i]
  BY DEF row
<1>. QED  BY <1>3, <1>4, <1>6, <1>7

\* PageTableCap::map gives the new table the level below its parent's.
LEMMA TableMapTree ==
    ASSUME NEW lvl, TreeOK(lvl, entries, tableCap), NEW x \in Tables, ~tableCap[x].mapped,
           NEW u \in Tables, tableCap[u].mapped, lvl[u] > 0,
           NEW v \in Vpns, ~Valid(entries, u, v),
           entries' = Write(u, v, x), tableCap' = [tableCap EXCEPT ![x].mapped = TRUE]
    PROVE  TreeOK([lvl EXCEPT ![x] = lvl[u] - 1], entries', tableCap')
<1>. DEFINE new == [lvl EXCEPT ![x] = lvl[u] - 1]
<1>1. Top \in Nat /\ lvl \in [Tables -> 0..Top]
  BY VSpaceAssumption DEF TreeOK
<1>2. new \in [Tables -> 0..Top] /\ new[x] = lvl[u] - 1 /\ \A t \in Tables : t # x => new[t] = lvl[t]
  BY <1>1
<1>. HIDE DEF new
<1>3. /\ entries' = [t \in Tables |-> entries'[t]]
      /\ \A t \in Tables : entries'[t] = [i \in DOMAIN entries'[t] |-> entries'[t][i]]
      /\ \A t \in Tables : t # u => entries'[t] = entries[t]
      /\ DOMAIN entries'[u] = DOMAIN entries[u] \cup {v}
      /\ entries'[u][v] = x
      /\ \A i \in DOMAIN entries[u] : i # v => entries'[u][i] = entries[u][i]
  BY EntryWritten
<1>4. v \notin DOMAIN entries[u] /\ x # u
  BY DEF Valid
<1>5. tableCap \in [Tables -> [mapped : BOOLEAN, root : BOOLEAN]] /\ ~tableCap[x].root
  BY DEF TreeOK, CapsOK
<1>6. /\ tableCap' \in [Tables -> [mapped : BOOLEAN, root : BOOLEAN]]
      /\ \A t \in Tables : tableCap'[t].root = tableCap[t].root
      /\ tableCap'[x].mapped /\ \A t \in Tables : t # x => tableCap'[t] = tableCap[t]
  BY Zenon, <1>5
<1>7. CapsOK(tableCap')
  BY <1>5, <1>6 DEF TreeOK, CapsOK
<1>8. entries[x] = Empty /\ DOMAIN entries[x] = {}
  BY DEF TreeOK, TableOK, Empty
<1>9. \A t \in Tables : \A i \in DOMAIN entries[t] \cap Vpns : entries[t][i] # x
  <2>. SUFFICES ASSUME NEW t \in Tables, NEW i \in DOMAIN entries[t] \cap Vpns, entries[t][i] = x
                PROVE  FALSE
    OBVIOUS
  <2>1. TableOK(t, lvl, entries, tableCap)
    BY DEF TreeOK
  <2>. QED  BY <2>1, VSpaceAssumption DEF TableOK
<1>10. ASSUME NEW t \in Tables  PROVE TableOK(t, new, entries', tableCap')
  <2>1. TableOK(t, lvl, entries, tableCap)
    BY DEF TreeOK
  <2>2. CASE t = x
    <3>1. entries'[x] = entries[x]
      BY <1>3, <1>4
    <3>. QED  BY <2>2, <3>1, <1>8, <1>5, <1>6 DEF TableOK
  <2>3. CASE t = u
    <3>1. ASSUME NEW i \in DOMAIN entries'[u] \cap Vpns
          PROVE  /\ entries'[u][i] \in Tables /\ new[entries'[u][i]] = new[u] - 1
                 /\ tableCap'[entries'[u][i]].mapped /\ ~tableCap'[entries'[u][i]].root
      <4>1. CASE i = v
        BY <4>1, <1>2, <1>3, <1>4, <1>5, <1>6
      <4>2. CASE i # v
        <5>1. i \in DOMAIN entries[u] \cap Vpns /\ entries'[u][i] = entries[u][i]
          BY <4>2, <1>3
        <5>2. /\ entries[u][i] \in Tables /\ lvl[entries[u][i]] = lvl[u] - 1
              /\ tableCap[entries[u][i]].mapped /\ ~tableCap[entries[u][i]].root
          BY <5>1, <2>1, <2>3, <1>1 DEF TableOK
        <5>3. entries[u][i] # x
          BY <5>1, <1>9
        <5>. QED  BY <5>1, <5>2, <5>3, <1>2, <1>4, <1>6
      <4>. QED  BY <4>1, <4>2
    <3>2. new[u] > 0 /\ new[u] = lvl[u]
      BY <1>2, <1>4
    <3>3. tableCap'[u] = tableCap[u] /\ tableCap[u].mapped
      BY <1>4, <1>6
    <3>4. tableCap[u].root => /\ new[u] = Top
                             /\ KernelVpn \in DOMAIN entries'[u] /\ entries'[u][KernelVpn] = Kernel
      <4>. SUFFICES ASSUME tableCap[u].root
                    PROVE  /\ new[u] = Top
                           /\ KernelVpn \in DOMAIN entries'[u] /\ entries'[u][KernelVpn] = Kernel
        OBVIOUS
      <4>1. /\ lvl[u] = Top
            /\ KernelVpn \in DOMAIN entries[u] /\ entries[u][KernelVpn] = Kernel /\ KernelVpn # v
        BY <2>1, <2>3, VSpaceAssumption DEF TableOK
      <4>. QED  BY <4>1, <3>2, <1>3
    <3>5. DOMAIN entries'[u] \subseteq IF tableCap[u].root THEN Vpns \cup {KernelVpn} ELSE Vpns
      BY <2>1, <2>3, <1>3 DEF TableOK
    <3>. QED  BY <2>3, <3>1, <3>2, <3>3, <3>4, <3>5 DEF TableOK
  <2>4. CASE t # x /\ t # u
    <3>1. entries'[t] = entries[t] /\ new[t] = lvl[t] /\ tableCap'[t] = tableCap[t]
      BY <2>4, <1>2, <1>3, <1>6
    <3>2. ASSUME NEW i \in DOMAIN entries[t] \cap Vpns, lvl[t] # 0
          PROVE  /\ entries[t][i] \in Tables /\ new[entries[t][i]] = lvl[t] - 1
                 /\ tableCap'[entries[t][i]].mapped /\ ~tableCap'[entries[t][i]].root
      BY <3>2, <2>1, <1>2, <1>6, <1>9 DEF TableOK
    <3>. QED  BY <2>1, <3>1, <3>2 DEF TableOK
  <2>. QED  BY <2>2, <2>3, <2>4
<1>11. ParentsOK(entries', tableCap')
  <2>1. ASSUME NEW t \in Tables, NEW i \in DOMAIN entries'[t] \cap Vpns, ~(t = u /\ i = v)
        PROVE  /\ i \in DOMAIN entries[t] \cap Vpns /\ entries'[t][i] = entries[t][i]
               /\ entries'[t][i] # x
    BY <2>1, <1>3, <1>9
  <2>2. ASSUME NEW t \in Tables, NEW w \in Tables,
               NEW i \in DOMAIN entries'[t] \cap Vpns, NEW j \in DOMAIN entries'[w] \cap Vpns,
               entries'[t][i] = entries'[w][j], entries'[t][i] \in Tables
        PROVE  t = w /\ i = j
    <3>1. CASE t = u /\ i = v
      BY <3>1, <2>1, <2>2, <1>3
    <3>2. CASE w = u /\ j = v
      BY <3>2, <2>1, <2>2, <1>3
    <3>3. CASE ~(t = u /\ i = v) /\ ~(w = u /\ j = v)
      <4>1. /\ i \in DOMAIN entries[t] \cap Vpns /\ entries'[t][i] = entries[t][i]
            /\ j \in DOMAIN entries[w] \cap Vpns /\ entries'[w][j] = entries[w][j]
        BY <3>3, <2>1
      <4>. QED  BY <4>1, <2>2 DEF TreeOK, ParentsOK
    <3>. QED  BY <3>1, <3>2, <3>3
  <2>3. ASSUME NEW t \in Tables, tableCap'[t].mapped, ~tableCap'[t].root
        PROVE  \E w \in Tables : \E j \in DOMAIN entries'[w] \cap Vpns : entries'[w][j] = t
    <3>1. CASE t = x
      BY <3>1, <1>3
    <3>2. CASE t # x
      <4>1. PICK w \in Tables : \E j \in DOMAIN entries[w] \cap Vpns : entries[w][j] = t
        BY <3>2, <2>3, <1>6 DEF TreeOK, ParentsOK
      <4>2. PICK j \in DOMAIN entries[w] \cap Vpns : entries[w][j] = t
        BY <4>1
      <4>3. j \in DOMAIN entries'[w] \cap Vpns /\ entries'[w][j] = t
        BY <4>2, <1>3, <1>4
      <4>. QED  BY <4>3
    <3>. QED  BY <3>1, <3>2
  <2>. QED  BY <2>2, <2>3 DEF ParentsOK
<1>12. TreeOK(new, entries', tableCap')
  BY <1>2, <1>3, <1>7, <1>10, <1>11, Zenon DEF TreeOK
<1>. QED  BY <1>12 DEF new

\* A table is pointed to by one entry.
LEMMA OneParent ==
    ASSUME NEW ent, NEW tc, ParentsOK(ent, tc), NEW t \in Tables, NEW u \in Tables,
           NEW v \in DOMAIN ent[t] \cap Vpns, NEW w \in DOMAIN ent[u] \cap Vpns,
           ent[t][v] = ent[u][w], ent[t][v] \in Tables
    PROVE  t = u /\ v = w
BY DEF ParentsOK

\* PageCap::map and unmap change only the pages that a table of level 0 holds.
LEMMA LeafTree ==
    ASSUME NEW lvl, TreeOK(lvl, entries, tableCap),
           NEW u \in Tables, tableCap[u].mapped, lvl[u] = 0, UNCHANGED tableCap,
           entries' = [t \in Tables |-> entries'[t]],
           \A t \in Tables : entries'[t] = [i \in DOMAIN entries'[t] |-> entries'[t][i]],
           \A t \in Tables : t # u => entries'[t] = entries[t],
           DOMAIN entries'[u] \subseteq Vpns,
           \A i \in DOMAIN entries'[u] : entries'[u][i] \in Pages
    PROVE  TreeOK(lvl, entries', tableCap')
<1>1. Top \in Nat \ {0} /\ lvl \in [Tables -> 0..Top] /\ Tables \cap Pages = {}
  BY VSpaceAssumption DEF TreeOK
<1>2. TableOK(u, lvl, entries, tableCap) /\ CapsOK(tableCap)
  BY DEF TreeOK
<1>3. ~tableCap[u].root
  BY <1>1, <1>2 DEF TableOK
<1>4. \A i \in DOMAIN entries[u] \cap Vpns : entries[u][i] \in Pages
  BY <1>2 DEF TableOK
<1>5. ASSUME NEW t \in Tables  PROVE TableOK(t, lvl, entries', tableCap')
  <2>1. CASE t = u
    BY <2>1, <1>3 DEF TableOK
  <2>2. CASE t # u
    <3>1. TableOK(t, lvl, entries, tableCap) /\ entries'[t] = entries[t] /\ tableCap' = tableCap
      BY <2>2 DEF TreeOK
    <3>. QED  BY <3>1 DEF TableOK
  <2>. QED  BY <2>1, <2>2
<1>6. ASSUME NEW t \in Tables, NEW i \in DOMAIN entries'[t] \cap Vpns, entries'[t][i] \in Tables
      PROVE  t # u /\ i \in DOMAIN entries[t] \cap Vpns /\ entries'[t][i] = entries[t][i]
  BY <1>1, <1>6
<1>7. ASSUME NEW t \in Tables, NEW w \in Tables,
             NEW i \in DOMAIN entries'[t] \cap Vpns, NEW j \in DOMAIN entries'[w] \cap Vpns,
             entries'[t][i] = entries'[w][j], entries'[t][i] \in Tables
      PROVE  t = w /\ i = j
  <2>1. /\ i \in DOMAIN entries[t] \cap Vpns /\ entries'[t][i] = entries[t][i]
        /\ j \in DOMAIN entries[w] \cap Vpns /\ entries'[w][j] = entries[w][j]
    BY <1>6, <1>7
  <2>2. ParentsOK(entries, tableCap) /\ entries[t][i] = entries[w][j] /\ entries[t][i] \in Tables
    BY <2>1, <1>7 DEF TreeOK
  <2>. QED  BY <2>1, <2>2, OneParent
<1>8. ASSUME NEW t \in Tables, tableCap'[t].mapped, ~tableCap'[t].root
      PROVE  \E w \in Tables : \E j \in DOMAIN entries'[w] \cap Vpns : entries'[w][j] = t
  <2>1. PICK w \in Tables : \E j \in DOMAIN entries[w] \cap Vpns : entries[w][j] = t
    BY <1>8 DEF TreeOK, ParentsOK
  <2>2. w # u
    BY <2>1, <1>1, <1>4
  <2>. QED  BY <2>1, <2>2
<1>9. ParentsOK(entries', tableCap')
  BY <1>7, <1>8 DEF ParentsOK
<1>. QED  BY <1>1, <1>2, <1>5, <1>9 DEF TreeOK

\* make_as_root makes an unmapped table, which no entry points to, a tree of its own.
LEMMA RootTree ==
    ASSUME NEW lvl, TreeOK(lvl, entries, tableCap), NEW x \in Tables, ~tableCap[x].mapped,
           entries' = [entries EXCEPT ![x] = KernelRoot],
           tableCap' = [tableCap EXCEPT ![x] = [mapped |-> TRUE, root |-> TRUE]]
    PROVE  TreeOK([lvl EXCEPT ![x] = Top], entries', tableCap')
<1>. DEFINE new == [lvl EXCEPT ![x] = Top]
<1>1. Top \in Nat /\ lvl \in [Tables -> 0..Top] /\ KernelVpn \notin Vpns
  BY VSpaceAssumption DEF TreeOK
<1>2. new \in [Tables -> 0..Top] /\ new[x] = Top /\ \A t \in Tables : t # x => new[t] = lvl[t]
  BY <1>1
<1>. HIDE DEF new
<1>3. entries = [t \in Tables |-> entries[t]] /\ KernelRoot = [i \in DOMAIN KernelRoot |-> KernelRoot[i]]
  BY DEF TreeOK, KernelRoot
<1>4. DOMAIN KernelRoot = {KernelVpn} /\ KernelRoot[KernelVpn] = Kernel
  BY DEF KernelRoot
<1>5. /\ entries' = [t \in Tables |-> entries'[t]]
      /\ entries'[x] = KernelRoot
      /\ \A t \in Tables : t # x => entries'[t] = entries[t]
  BY <1>3
<1>6. \A t \in Tables : entries'[t] = [i \in DOMAIN entries'[t] |-> entries'[t][i]]
  BY Zenon, <1>3, <1>5 DEF TreeOK
<1>7. tableCap \in [Tables -> [mapped : BOOLEAN, root : BOOLEAN]] /\ CapsOK(tableCap)
  BY DEF TreeOK, CapsOK
<1>8. /\ tableCap' \in [Tables -> [mapped : BOOLEAN, root : BOOLEAN]]
      /\ tableCap'[x].mapped /\ tableCap'[x].root
      /\ \A t \in Tables : t # x => tableCap'[t] = tableCap[t]
  BY <1>7
<1>9. CapsOK(tableCap')
  BY <1>7, <1>8 DEF CapsOK
<1>10. \A t \in Tables : \A i \in DOMAIN entries[t] \cap Vpns : entries[t][i] # x
  <2>. SUFFICES ASSUME NEW t \in Tables, NEW i \in DOMAIN entries[t] \cap Vpns, entries[t][i] = x
                PROVE  FALSE
    OBVIOUS
  <2>1. TableOK(t, lvl, entries, tableCap)
    BY DEF TreeOK
  <2>. QED  BY <2>1, VSpaceAssumption DEF TableOK
<1>11. ASSUME NEW t \in Tables, NEW i \in DOMAIN entries'[t] \cap Vpns
       PROVE  t # x /\ i \in DOMAIN entries[t] \cap Vpns /\ entries'[t][i] = entries[t][i]
  BY <1>1, <1>4, <1>5
<1>12. ASSUME NEW t \in Tables  PROVE TableOK(t, new, entries', tableCap')
  <2>1. CASE t = x
    BY <2>1, <1>1, <1>2, <1>4, <1>5, <1>8 DEF TableOK
  <2>2. CASE t # x
    <3>1. TableOK(t, lvl, entries, tableCap)
      BY DEF TreeOK
    <3>2. entries'[t] = entries[t] /\ new[t] = lvl[t] /\ tableCap'[t] = tableCap[t]
      BY <2>2, <1>2, <1>5, <1>8
    <3>3. ASSUME NEW i \in DOMAIN entries[t] \cap Vpns, lvl[t] # 0
          PROVE  /\ entries[t][i] \in Tables /\ new[entries[t][i]] = lvl[t] - 1
                 /\ tableCap'[entries[t][i]].mapped /\ ~tableCap'[entries[t][i]].root
      BY <3>1, <3>3, <1>2, <1>8, <1>10 DEF TableOK
    <3>. QED  BY <3>1, <3>2, <3>3 DEF TableOK
  <2>. QED  BY <2>1, <2>2
<1>13. ASSUME NEW t \in Tables, NEW w \in Tables,
             NEW i \in DOMAIN entries'[t] \cap Vpns, NEW j \in DOMAIN entries'[w] \cap Vpns,
             entries'[t][i] = entries'[w][j], entries'[t][i] \in Tables
      PROVE  t = w /\ i = j
  <2>1. /\ i \in DOMAIN entries[t] \cap Vpns /\ entries'[t][i] = entries[t][i]
        /\ j \in DOMAIN entries[w] \cap Vpns /\ entries'[w][j] = entries[w][j]
    BY <1>11
  <2>. QED  BY <2>1, <1>13 DEF TreeOK, ParentsOK
<1>14. ASSUME NEW t \in Tables, tableCap'[t].mapped, ~tableCap'[t].root
       PROVE  \E w \in Tables : \E j \in DOMAIN entries'[w] \cap Vpns : entries'[w][j] = t
  <2>1. t # x /\ tableCap[t].mapped /\ ~tableCap[t].root
    BY <1>14, <1>8
  <2>2. PICK w \in Tables : \E j \in DOMAIN entries[w] \cap Vpns : entries[w][j] = t
    BY <2>1 DEF TreeOK, ParentsOK
  <2>3. entries[x] = Empty /\ DOMAIN entries[x] = {}
    BY DEF TreeOK, TableOK, Empty
  <2>4. w # x
    BY <2>2, <2>3
  <2>. QED  BY <2>2, <2>4, <1>5
<1>15. ParentsOK(entries', tableCap')
  BY <1>13, <1>14 DEF ParentsOK
<1>16. TreeOK(new, entries', tableCap')
  BY Zenon, <1>2, <1>5, <1>6, <1>9, <1>12, <1>15 DEF TreeOK
<1>. QED  BY <1>16 DEF new

-----------------------------------------------------------------------------
(***************************************************************************)
(* What the calls do to the translations.                                  *)
(***************************************************************************)

\* After a step, too, what an address is translated to is found where its walk ends.
LEMMA NewTranslation ==
    ASSUME NEW lvl, TreeOK(lvl, entries', tableCap'), NEW r, r \in Roots', NEW a \in Addresses,
           NEW l, NEW t, Ends(entries', r, a, l, t)
    PROVE  Translation(r, a)' = Found(entries', a, l, t)
<1>1. TranslationRule'
  BY TranslationFollows, PTL
<1>2. Addresses' = Addresses
  BY DEF Addresses
<1>3. PICK m, u : /\ Ends(entries', r, a, m, u)
                  /\ Translation(r, a)' = Found(entries', a, m, u)
  BY <1>1, <1>2 DEF TranslationRule
<1>4. l = m /\ t = u
  BY <1>3, EndsOnce
<1>. QED  BY <1>3, <1>4

\* The walk for a under r meets the tables p, and ends at level l in table t.
WalkOf(lvl, r, a, l, t, p) ==
    /\ PathTo(entries, r, a, l, p) /\ p[l] = t
    /\ l = 0 \/ ~Valid(entries, t, a[l])
    /\ walk(r, a) = [level |-> l, table |-> t]
    /\ Translation(r, a) = Found(entries, a, l, t)
    /\ \A k \in l..Top : p[k] \in Tables /\ lvl[p[k]] = k /\ tableCap[p[k]].mapped

\* Every address has a walk.
LEMMA OldTranslation ==
    ASSUME NEW lvl, TreeOK(lvl, entries, tableCap), NEW r \in Roots, NEW a \in Addresses
    PROVE  \E l, t, p : WalkOf(lvl, r, a, l, t, p)
<1>1. PICK l, t : /\ walk(r, a) = [level |-> l, table |-> t]
                  /\ Ends(entries, r, a, l, t)
                  /\ Translation(r, a) = Found(entries, a, l, t)
  BY TranslationFollows DEF TranslationRule
<1>2. PICK p : PathTo(entries, r, a, l, p) /\ p[l] = t
  BY <1>1 DEF Ends
<1>3. IsRoot(r, tableCap)
  BY DEF Roots, IsRoot
<1>4. \A k \in l..Top : p[k] \in Tables /\ lvl[p[k]] = k /\ tableCap[p[k]].mapped
  BY <1>2, <1>3, PathLevels
<1>5. l = 0 \/ ~Valid(entries, t, a[l])
  BY <1>1 DEF Ends
<1>. QED  BY <1>1, <1>2, <1>4, <1>5 DEF WalkOf

\* Where a walk ends.
LEMMA WalkFacts ==
    ASSUME NEW lvl, NEW r, NEW a \in Addresses, NEW l, NEW t, NEW p, WalkOf(lvl, r, a, l, t, p)
    PROVE  /\ l \in 0..Top /\ t \in Tables /\ lvl[t] = l /\ tableCap[t].mapped /\ a[l] \in Vpns
           /\ walk(r, a).level = l /\ walk(r, a).table = t
<1>1. l \in 0..Top /\ Top \in Nat
  BY VSpaceAssumption DEF WalkOf, PathTo
<1>2. l \in l..Top /\ a[l] \in Vpns
  BY <1>1 DEF Addresses
<1>3. t \in Tables /\ lvl[t] = l /\ tableCap[t].mapped
  BY <1>2, Zenon DEF WalkOf
<1>4. walk(r, a) = [level |-> l, table |-> t]
  BY Zenon DEF WalkOf
<1>. QED  BY <1>1, <1>2, <1>3, <1>4

\* Where a walk ends that comes to level 0.
LEMMA LeafFacts ==
    ASSUME NEW lvl, NEW s, NEW b \in Addresses, NEW u, NEW q, WalkOf(lvl, s, b, 0, u, q)
    PROVE  u \in Tables /\ lvl[u] = 0 /\ walk(s, b).level = 0 /\ walk(s, b).table = u
BY WalkFacts

\* The tables that a walk met before it ended.
LEMMA WalkMeets ==
    ASSUME NEW lvl, NEW r, NEW a, NEW l, NEW t, NEW p, WalkOf(lvl, r, a, l, t, p),
           NEW k \in (l + 1)..Top
    PROVE  /\ k > 0 /\ p[k] \in Tables /\ lvl[p[k]] = k /\ tableCap[p[k]].mapped
           /\ a[k] \in DOMAIN entries[p[k]]
<1>1. l \in 0..Top /\ Top \in Nat
  BY VSpaceAssumption DEF WalkOf, PathTo
<1>2. k \in l..Top /\ k > 0
  BY <1>1
<1>3. p[k] \in Tables /\ lvl[p[k]] = k /\ tableCap[p[k]].mapped
  BY <1>2, Zenon DEF WalkOf
<1>4. a[k] \in DOMAIN entries[p[k]]
  BY DEF WalkOf, PathTo, Valid
<1>. QED  BY <1>2, <1>3, <1>4

\* A walk whose entries are not written, and that stops where it stopped, ends there.
LEMMA WalkStays ==
    ASSUME NEW lvl, NEW r, NEW a \in Addresses, NEW l, NEW t, NEW p, WalkOf(lvl, r, a, l, t, p),
           SameOn(entries, entries', a, l, p),
           l = 0 \/ ~Valid(entries', t, a[l])
    PROVE  Ends(entries', r, a, l, t)
<1>1. PathTo(entries, r, a, l, p) /\ p[l] = t
  BY Zenon DEF WalkOf
<1>2. PathTo(entries', r, a, l, p)
  BY <1>1, PathStays
<1>. QED  BY <1>1, <1>2 DEF Ends

\* Mapping a table changes no translation: its entries are not valid.
LEMMA TableMapEffect ==
    ASSUME NEW lvl, TreeOK(lvl, entries, tableCap), NEW x \in Tables, ~tableCap[x].mapped,
           NEW u \in Tables, tableCap[u].mapped, lvl[u] > 0,
           NEW v \in Vpns, ~Valid(entries, u, v),
           entries' = Write(u, v, x), tableCap' = [tableCap EXCEPT ![x].mapped = TRUE],
           NEW r \in Roots, NEW a \in Addresses
    PROVE  r \in Roots' /\ Translation(r, a)' = Translation(r, a)
<1>1. PICK new : TreeOK(new, entries', tableCap')
  BY Zenon, TableMapTree
<1>2. r \in Roots'
  BY DEF Roots, TreeOK, CapsOK
<1>3. /\ \A t \in Tables : t # u => entries'[t] = entries[t]
      /\ DOMAIN entries'[u] = DOMAIN entries[u] \cup {v}
      /\ entries'[u][v] = x
      /\ \A i \in DOMAIN entries[u] : i # v => entries'[u][i] = entries[u][i]
  BY EntryWritten
<1>4. v \notin DOMAIN entries[u] /\ x # u
  BY DEF Valid
<1>5. DOMAIN entries'[x] = {}
  BY <1>3, <1>4 DEF TreeOK, TableOK, Empty
<1>6. PICK l, t, p : WalkOf(lvl, r, a, l, t, p)
  BY OldTranslation
<1>7. /\ l \in 0..Top /\ t \in Tables /\ lvl[t] = l /\ tableCap[t].mapped /\ a[l] \in Vpns
      /\ walk(r, a).level = l /\ walk(r, a).table = t
  BY <1>6, WalkFacts
<1>8. SameOn(entries, entries', a, l, p)
  <2>. SUFFICES ASSUME NEW k \in (l + 1)..Top
                PROVE  a[k] \in DOMAIN entries'[p[k]] /\ entries'[p[k]][a[k]] = entries[p[k]][a[k]]
    BY DEF SameOn
  <2>1. p[k] \in Tables /\ a[k] \in DOMAIN entries[p[k]]
    BY <1>6, WalkMeets
  <2>. QED  BY <2>1, <1>3, <1>4
<1>9. Translation(r, a) = Found(entries, a, l, t) /\ PathTo(entries, r, a, l, p) /\ p[l] = t
  BY <1>6, Zenon DEF WalkOf
<1>10. CASE l > 0 /\ t = u /\ a[l] = v
  <2>1. l \in 1..Top /\ Valid(entries', p[l], a[l]) /\ entries'[p[l]][a[l]] = x
    BY <1>10, <1>3, <1>7, <1>9 DEF Valid
  <2>2. PathTo(entries', r, a, l, p)
    BY <1>8, <1>9, PathStays
  <2>3. PICK q : PathTo(entries', r, a, l - 1, q) /\ q[l - 1] = x
    BY <2>1, <2>2, PathExtends
  <2>4. \A i : ~Valid(entries', x, i)
    BY <1>5 DEF Valid
  <2>5. Ends(entries', r, a, l - 1, x)
    BY <2>3, <2>4 DEF Ends
  <2>6. Translation(r, a)' = Found(entries', a, l - 1, x)
    BY Zenon, <2>5, <1>1, <1>2, NewTranslation
  <2>7. Found(entries', a, l - 1, x) = Unmapped /\ Found(entries, a, l, t) = Unmapped
    BY <2>4, <1>10, <1>7 DEF Found
  <2>. QED  BY <2>6, <2>7, <1>2, <1>9
<1>11. CASE ~(l > 0 /\ t = u /\ a[l] = v)
  <2>1. l = 0 \/ ~Valid(entries, t, a[l])
    BY <1>6, Zenon DEF WalkOf
  <2>2. l = 0 \/ ~Valid(entries', t, a[l])
    BY <2>1, <1>11, <1>3, <1>7 DEF Valid
  <2>3. Translation(r, a)' = Found(entries', a, l, t)
    <3>1. Ends(entries', r, a, l, t)
      BY <2>2, <1>6, <1>8, WalkStays
    <3>. QED  BY Zenon, <3>1, <1>1, <1>2, NewTranslation
  <2>4. l = 0 => entries'[t] = entries[t]
    BY <1>3, <1>7
  <2>5. Found(entries', a, l, t) = Found(entries, a, l, t)
    BY <2>4 DEF Found, Valid
  <2>. QED  BY <2>3, <2>5, <1>2, <1>9
<1>. QED  BY <1>10, <1>11

\* An address is its vpns.
LEMMA SameAddress ==
    ASSUME NEW a \in Addresses, NEW b \in Addresses, \A k \in 0..Top : a[k] = b[k]
    PROVE  a = b
<1>1. a = [k \in 0..Top |-> a[k]] /\ b = [k \in 0..Top |-> b[k]]
  BY DEF Addresses
<1>2. [k \in 0..Top |-> a[k]] = [k \in 0..Top |-> b[k]]
  OBVIOUS
<1>. QED  BY <1>1, <1>2, Zenon

\* Two walks that reach the same entry of level 0 are the same walk.
LEMMA SameLeaf ==
    ASSUME NEW lvl, TreeOK(lvl, entries, tableCap),
           NEW r \in Roots, NEW a \in Addresses, NEW p, NEW s \in Roots, NEW b \in Addresses, NEW q,
           NEW t, WalkOf(lvl, r, a, 0, t, p), WalkOf(lvl, s, b, 0, t, q), a[0] = b[0]
    PROVE  r = s /\ a = b
<1>1. PathTo(entries, r, a, 0, p) /\ PathTo(entries, s, b, 0, q) /\ p[0] = q[0]
  BY Zenon DEF WalkOf
<1>2. IsRoot(r, tableCap) /\ IsRoot(s, tableCap)
  BY DEF Roots, IsRoot
<1>3. r = s /\ \A k \in (0 + 1)..Top : a[k] = b[k]
  BY <1>1, <1>2, PathsMeet
<1>4. \A k \in 0..Top : a[k] = b[k]
  BY <1>3, VSpaceAssumption
<1>. QED  BY <1>3, <1>4, SameAddress

\* Writing an entry of level 0 keeps every walk, and what every other walk finds.
LEMMA LeafEffect ==
    ASSUME NEW lvl, TreeOK(lvl, entries, tableCap), TreeOK(lvl, entries', tableCap'),
           UNCHANGED tableCap,
           NEW s \in Roots, NEW b \in Addresses, NEW u, NEW q, WalkOf(lvl, s, b, 0, u, q),
           \A t \in Tables : t # u => entries'[t] = entries[t],
           \A i : i # b[0] => (i \in DOMAIN entries'[u] <=> i \in DOMAIN entries[u]),
           \A i \in DOMAIN entries[u] : i # b[0] => entries'[u][i] = entries[u][i],
           NEW r \in Roots, NEW a \in Addresses
    PROVE  /\ ~(r = s /\ a = b) => Translation(r, a)' = Translation(r, a)
           /\ r = s /\ a = b => Translation(r, a)' = Found(entries', b, 0, u)
<1>1. r \in Roots'
  BY DEF Roots
<1>2. PICK l, t, p : WalkOf(lvl, r, a, l, t, p)
  BY OldTranslation
<1>3. u \in Tables /\ lvl[u] = 0 /\ walk(s, b).level = 0 /\ walk(s, b).table = u
  BY LeafFacts
<1>4. /\ l \in 0..Top /\ t \in Tables /\ lvl[t] = l /\ tableCap[t].mapped /\ a[l] \in Vpns
      /\ walk(r, a).level = l /\ walk(r, a).table = t
  BY <1>2, WalkFacts
<1>5. SameOn(entries, entries', a, l, p)
  <2>. SUFFICES ASSUME NEW k \in (l + 1)..Top
                PROVE  a[k] \in DOMAIN entries'[p[k]] /\ entries'[p[k]][a[k]] = entries[p[k]][a[k]]
    BY DEF SameOn
  <2>1. k > 0 /\ p[k] \in Tables /\ lvl[p[k]] = k /\ a[k] \in DOMAIN entries[p[k]]
    BY <1>2, WalkMeets
  <2>2. p[k] # u
    BY <2>1, <1>3
  <2>. QED  BY <2>1, <2>2
<1>6. /\ l = 0 \/ ~Valid(entries, t, a[l])
      /\ Translation(r, a) = Found(entries, a, l, t)
  BY <1>2, Zenon DEF WalkOf
<1>7. l = 0 \/ ~Valid(entries', t, a[l])
  <2>1. l # 0 => t # u
    BY <1>3, <1>4
  <2>. QED  BY <2>1, <1>4, <1>6 DEF Valid
<1>8. Translation(r, a)' = Found(entries', a, l, t)
  <2>1. Ends(entries', r, a, l, t)
    BY <1>2, <1>5, <1>7, WalkStays
  <2>. QED  BY <2>1, <1>1, NewTranslation
<1>9. ASSUME ~(r = s /\ a = b)  PROVE Found(entries', a, l, t) = Found(entries, a, l, t)
  <2>1. CASE l # 0
    BY <2>1 DEF Found
  <2>2. CASE l = 0 /\ t # u
    BY <2>2, <1>4 DEF Found, Valid
  <2>3. CASE l = 0 /\ t = u
    <3>1. WalkOf(lvl, r, a, 0, u, p)
      BY <2>3, <1>2
    <3>2. a[0] # b[0]
      BY <3>1, <1>9, SameLeaf
    <3>. QED  BY <3>2, <2>3, <1>4 DEF Found, Valid
  <2>. QED  BY <2>1, <2>2, <2>3
<1>10. ASSUME r = s, a = b  PROVE l = 0 /\ t = u
  BY <1>10, <1>3, <1>4
<1>. QED  BY <1>6, <1>8, <1>9, <1>10

\* make_as_root leaves the address spaces that exist as they are.
LEMMA RootEffect ==
    ASSUME NEW lvl, TreeOK(lvl, entries, tableCap), NEW x \in Tables, ~tableCap[x].mapped,
           entries' = [entries EXCEPT ![x] = KernelRoot],
           tableCap' = [tableCap EXCEPT ![x] = [mapped |-> TRUE, root |-> TRUE]],
           NEW r \in Roots, NEW a \in Addresses
    PROVE  r \in Roots' /\ Translation(r, a)' = Translation(r, a)
<1>1. PICK new : TreeOK(new, entries', tableCap')
  BY Zenon, RootTree
<1>2. r \in Roots'
  BY DEF Roots, TreeOK, CapsOK
<1>3. \A t \in Tables : t # x => entries'[t] = entries[t]
  BY DEF TreeOK
<1>4. PICK l, t, p : WalkOf(lvl, r, a, l, t, p)
  BY OldTranslation
<1>5. /\ l \in 0..Top /\ t \in Tables /\ lvl[t] = l /\ tableCap[t].mapped /\ a[l] \in Vpns
      /\ walk(r, a).level = l /\ walk(r, a).table = t
  BY <1>4, WalkFacts
<1>6. entries'[t] = entries[t]
  BY <1>3, <1>5
<1>7. SameOn(entries, entries', a, l, p)
  <2>. SUFFICES ASSUME NEW k \in (l + 1)..Top
                PROVE  a[k] \in DOMAIN entries'[p[k]] /\ entries'[p[k]][a[k]] = entries[p[k]][a[k]]
    BY DEF SameOn
  <2>1. p[k] \in Tables /\ p[k] # x /\ a[k] \in DOMAIN entries[p[k]]
    BY <1>4, WalkMeets
  <2>. QED  BY <2>1, <1>3
<1>8. /\ l = 0 \/ ~Valid(entries, t, a[l])
      /\ Translation(r, a) = Found(entries, a, l, t)
  BY <1>4, Zenon DEF WalkOf
<1>9. l = 0 \/ ~Valid(entries', t, a[l])
  BY <1>6, <1>8 DEF Valid
<1>10. Translation(r, a)' = Found(entries', a, l, t)
  <2>1. Ends(entries', r, a, l, t)
    BY Zenon, <1>4, <1>7, <1>9, WalkStays
  <2>. QED  BY ZenonT(20), <2>1, <1>1, <1>2, NewTranslation
<1>11. Found(entries', a, l, t) = Found(entries, a, l, t)
  BY <1>6 DEF Found, Valid
<1>. QED  BY <1>2, <1>8, <1>10, <1>11

\* A new root translates no address of the user half.
LEMMA NewRootUnmapped ==
    ASSUME NEW lvl, TreeOK(lvl, entries, tableCap), NEW x \in Tables, ~tableCap[x].mapped,
           entries' = [entries EXCEPT ![x] = KernelRoot],
           tableCap' = [tableCap EXCEPT ![x] = [mapped |-> TRUE, root |-> TRUE]],
           NEW a \in Addresses
    PROVE  Roots' = Roots \cup {x} /\ Translation(x, a)' = Unmapped
<1>1. TreeOK([lvl EXCEPT ![x] = Top], entries', tableCap')
  BY Zenon, RootTree
<1>2. Roots' = Roots \cup {x} /\ Top \in Nat \ {0} /\ KernelVpn \notin Vpns
  BY VSpaceAssumption DEF Roots, TreeOK, CapsOK
<1>3. DOMAIN entries'[x] = {KernelVpn}
  BY DEF TreeOK, KernelRoot
<1>4. ~Valid(entries', x, a[Top])
  BY <1>2, <1>3 DEF Addresses, Valid
<1>. DEFINE p == [k \in 0..Top |-> x]
<1>5. PathTo(entries', x, a, Top, p) /\ p[Top] = x
  BY <1>2 DEF PathTo
<1>. HIDE DEF p
<1>6. Ends(entries', x, a, Top, x)
  BY Zenon, <1>4, <1>5 DEF Ends
<1>7. Translation(x, a)' = Found(entries', a, Top, x)
  <2>1. x \in Roots'
    BY <1>2
  <2>. QED  BY <2>1, <1>1, <1>6, NewTranslation, ZenonT(20)
<1>. QED  BY <1>2, <1>7 DEF Found

\* A step that leaves the tables alone leaves every translation alone.
LEMMA SameTables ==
    ASSUME UNCHANGED <<entries, tableCap>>
    PROVE  /\ Roots' = Roots
           /\ \A r, a : Translation(r, a)' = Translation(r, a)
<1>1. entries' = entries /\ tableCap' = tableCap
  OBVIOUS
<1>2. Roots' = Roots
  BY <1>1 DEF Roots
<1>3. ASSUME NEW r, NEW a  PROVE Translation(r, a)' = Translation(r, a)
  BY <1>1 DEF Translation, walk, IsValid
<1>. QED  BY <1>2, <1>3

\* PageTableCap::map keeps the trees and every translation.
LEMMA TableMapStep ==
    ASSUME NEW lvl, TreeOK(lvl, entries, tableCap),
           NEW x \in Tables, ~tableCap[x].mapped,
           NEW r \in Roots, NEW a \in Addresses, PageTableMap(x, r, a)
    PROVE  /\ \E new : TreeOK(new, entries', tableCap')
           /\ Roots' = Roots
           /\ \A s \in Roots, b \in Addresses : Translation(s, b)' = Translation(s, b)
<1>1. PICK l, t, p : WalkOf(lvl, r, a, l, t, p)
  BY OldTranslation
<1>2. /\ l \in 0..Top /\ t \in Tables /\ lvl[t] = l /\ tableCap[t].mapped /\ a[l] \in Vpns
      /\ walk(r, a).level = l /\ walk(r, a).table = t
  BY <1>1, WalkFacts
<1>3. l = 0 \/ ~Valid(entries, t, a[l])
  BY <1>1, Zenon DEF WalkOf
<1>4. /\ ~tableCap[x].mapped /\ l > 0 /\ entries' = Write(t, a[l], x)
      /\ tableCap' = [tableCap EXCEPT ![x].mapped = TRUE]
  BY <1>2 DEF PageTableMap, TableFits
<1>5. t \in Tables /\ tableCap[t].mapped /\ lvl[t] > 0 /\ a[l] \in Vpns /\ ~Valid(entries, t, a[l])
  BY <1>2, <1>3, <1>4
<1>6. TreeOK([lvl EXCEPT ![x] = lvl[t] - 1], entries', tableCap')
  BY Zenon, <1>4, <1>5, TableMapTree
<1>7. \A s \in Roots, b \in Addresses : Translation(s, b)' = Translation(s, b)
  BY Zenon, <1>4, <1>5, TableMapEffect
<1>8. Roots' = Roots
  BY <1>4 DEF Roots, TreeOK, CapsOK
<1>. QED  BY <1>6, <1>7, <1>8

\* make_as_root keeps the trees and every translation, and adds an empty address space.
LEMMA MakeRootStep ==
    ASSUME NEW lvl, TreeOK(lvl, entries, tableCap),
           NEW x \in Tables, ~tableCap[x].mapped, make_as_root(x)
    PROVE  /\ \E new : TreeOK(new, entries', tableCap')
           /\ Roots' = Roots \cup {x}
           /\ \A b \in Addresses : Translation(x, b)' = Unmapped
           /\ \A s \in Roots, b \in Addresses : Translation(s, b)' = Translation(s, b)
<1>1. /\ ~tableCap[x].mapped /\ entries' = [entries EXCEPT ![x] = KernelRoot]
      /\ tableCap' = [tableCap EXCEPT ![x] = [mapped |-> TRUE, root |-> TRUE]]
  BY DEF make_as_root, copy_global_mapping
<1>2. TreeOK([lvl EXCEPT ![x] = Top], entries', tableCap')
  BY Zenon, <1>1, RootTree
<1>3. \A b \in Addresses : Translation(x, b)' = Unmapped
  BY Zenon, <1>1, NewRootUnmapped
<1>4. \A s \in Roots, b \in Addresses : Translation(s, b)' = Translation(s, b)
  BY Zenon, <1>1, RootEffect
<1>5. Roots' = Roots \cup {x}
  BY <1>1 DEF Roots, TreeOK, CapsOK
<1>. QED  BY <1>2, <1>3, <1>4, <1>5

\* PageCap::map translates one address in one address space to the page.
LEMMA PageMapStep ==
    ASSUME NEW lvl, TreeOK(lvl, entries, tableCap), PageCapsOK,
           NEW c \in DOMAIN pageCap, NEW r \in Roots, NEW a \in Addresses, PageMap(c, r, a)
    PROVE  /\ TreeOK(lvl, entries', tableCap')
           /\ Roots' = Roots
           /\ Translation(r, a) = Unmapped /\ Translation(r, a)' = pageCap[c].page
           /\ \A s \in Roots, b \in Addresses :
                  ~(s = r /\ b = a) => Translation(s, b)' = Translation(s, b)
<1>1. PICK l, t, p : WalkOf(lvl, r, a, l, t, p)
  BY OldTranslation
<1>2. /\ l \in 0..Top /\ t \in Tables /\ lvl[t] = l /\ tableCap[t].mapped /\ a[l] \in Vpns
      /\ walk(r, a).level = l /\ walk(r, a).table = t
  BY <1>1, WalkFacts
<1>3. l = 0 /\ ~Valid(entries, t, a[0]) /\ entries' = Write(t, a[0], pageCap[c].page)
  BY <1>2 DEF PageMap, CanMap, IsValid, Valid
<1>4. t \in Tables /\ tableCap[t].mapped /\ lvl[t] = 0 /\ a[0] \in Vpns /\ Top \in Nat \ {0}
  BY <1>2, <1>3, VSpaceAssumption
<1>5. pageCap[c].page \in Pages /\ tableCap' = tableCap
  BY DEF PageCapsOK, PageMap
<1>6. /\ entries' = [q \in Tables |-> entries'[q]]
      /\ \A q \in Tables : entries'[q] = [i \in DOMAIN entries'[q] |-> entries'[q][i]]
      /\ \A q \in Tables : q # t => entries'[q] = entries[q]
      /\ DOMAIN entries'[t] = DOMAIN entries[t] \cup {a[0]}
      /\ entries'[t][a[0]] = pageCap[c].page
      /\ \A i \in DOMAIN entries[t] : i # a[0] => entries'[t][i] = entries[t][i]
  BY <1>3, <1>4, EntryWritten
<1>7. TableOK(t, lvl, entries, tableCap) /\ ~tableCap[t].root
  BY <1>4 DEF TreeOK, TableOK
<1>8. DOMAIN entries[t] \subseteq Vpns /\ \A i \in DOMAIN entries[t] : entries[t][i] \in Pages
  BY <1>4, <1>7 DEF TableOK
<1>9. DOMAIN entries'[t] \subseteq Vpns /\ \A i \in DOMAIN entries'[t] : entries'[t][i] \in Pages
  BY <1>4, <1>5, <1>6, <1>8
<1>10. TreeOK(lvl, entries', tableCap')
  BY <1>4, <1>5, <1>6, <1>9, LeafTree
<1>11. \A i : i # a[0] => (i \in DOMAIN entries'[t] <=> i \in DOMAIN entries[t])
  BY <1>6
<1>12. WalkOf(lvl, r, a, 0, t, p) /\ Translation(r, a) = Found(entries, a, 0, t)
  BY <1>1, <1>3, Zenon DEF WalkOf
<1>13. ASSUME NEW s \in Roots, NEW b \in Addresses
       PROVE  /\ ~(s = r /\ b = a) => Translation(s, b)' = Translation(s, b)
              /\ s = r /\ b = a => Translation(s, b)' = Found(entries', a, 0, t)
  BY <1>5, <1>6, <1>10, <1>11, <1>12, LeafEffect
<1>14. Found(entries', a, 0, t) = pageCap[c].page
  BY <1>4, <1>6 DEF Found, Valid
<1>15. Translation(r, a) = Unmapped
  BY <1>3, <1>12 DEF Found
<1>16. Roots' = Roots
  BY <1>5 DEF Roots
<1>. QED  BY <1>10, <1>13, <1>14, <1>15, <1>16

\* PageCap::unmap takes the page from one address in one address space.
LEMMA PageUnMapStep ==
    ASSUME NEW lvl, TreeOK(lvl, entries, tableCap), PageCapsOK,
           NEW c \in DOMAIN pageCap, NEW r \in Roots, PageUnMap(c, r)
    PROVE  /\ TreeOK(lvl, entries', tableCap')
           /\ Roots' = Roots
           /\ \E a \in Addresses :
                /\ a = pageCap[c].at
                /\ Translation(r, a) = pageCap[c].page /\ Translation(r, a)' = Unmapped
                /\ \A s \in Roots, b \in Addresses :
                     ~(s = r /\ b = a) => Translation(s, b)' = Translation(s, b)
<1>1. PICK a : a = pageCap[c].at
  OBVIOUS
<1>2. a \in Addresses /\ pageCap[c].page \in Pages /\ tableCap' = tableCap
  BY <1>1 DEF PageCapsOK, PageUnMap
<1>3. PICK l, t, p : WalkOf(lvl, r, a, l, t, p)
  BY <1>2, OldTranslation
<1>4. /\ l \in 0..Top /\ t \in Tables /\ lvl[t] = l /\ tableCap[t].mapped /\ a[l] \in Vpns
      /\ walk(r, a).level = l /\ walk(r, a).table = t
  BY <1>2, <1>3, WalkFacts
<1>5. /\ l = 0 /\ Valid(entries, t, a[0]) /\ entries[t][a[0]] = pageCap[c].page
      /\ entries' = Clear(t, a[0])
  BY <1>1, <1>4, Zenon DEF PageUnMap, IsPage, IsValid, Valid
<1>6. t \in Tables /\ tableCap[t].mapped /\ lvl[t] = 0 /\ a[0] \in Vpns /\ Top \in Nat \ {0}
  BY <1>4, <1>5, VSpaceAssumption
<1>7. /\ entries' = [q \in Tables |-> entries'[q]]
      /\ \A q \in Tables : entries'[q] = [i \in DOMAIN entries'[q] |-> entries'[q][i]]
      /\ \A q \in Tables : q # t => entries'[q] = entries[q]
      /\ DOMAIN entries'[t] = DOMAIN entries[t] \ {a[0]}
      /\ \A i \in DOMAIN entries[t] : i # a[0] => entries'[t][i] = entries[t][i]
  BY <1>5, <1>6, Cleared
<1>8. TableOK(t, lvl, entries, tableCap) /\ ~tableCap[t].root
  BY <1>6 DEF TreeOK, TableOK
<1>9. DOMAIN entries[t] \subseteq Vpns /\ \A i \in DOMAIN entries[t] : entries[t][i] \in Pages
  BY <1>6, <1>8 DEF TableOK
<1>10. DOMAIN entries'[t] \subseteq Vpns /\ \A i \in DOMAIN entries'[t] : entries'[t][i] \in Pages
  BY <1>7, <1>9
<1>11. TreeOK(lvl, entries', tableCap')
  BY <1>2, <1>6, <1>7, <1>10, LeafTree
<1>12. \A i : i # a[0] => (i \in DOMAIN entries'[t] <=> i \in DOMAIN entries[t])
  BY <1>7
<1>13. WalkOf(lvl, r, a, 0, t, p) /\ Translation(r, a) = Found(entries, a, 0, t)
  BY <1>3, <1>5, Zenon DEF WalkOf
<1>14. ASSUME NEW s \in Roots, NEW b \in Addresses
       PROVE  /\ ~(s = r /\ b = a) => Translation(s, b)' = Translation(s, b)
              /\ s = r /\ b = a => Translation(s, b)' = Found(entries', a, 0, t)
  BY <1>2, <1>7, <1>11, <1>12, <1>13, LeafEffect
<1>15. Found(entries', a, 0, t) = Unmapped
  BY <1>7 DEF Found, Valid
<1>16. Translation(r, a) = pageCap[c].page
  BY <1>5, <1>13 DEF Found
<1>17. Roots' = Roots
  BY <1>2 DEF Roots
<1>18. Translation(r, a)' = Unmapped
  BY <1>2, <1>14, <1>15
<1>. QED  BY <1>1, <1>2, <1>11, <1>14, <1>16, <1>17, <1>18

-----------------------------------------------------------------------------
(***************************************************************************)
(* Counting capabilities and mappings.                                     *)
(***************************************************************************)

CapsAt(caps, p, a) == {c \in DOMAIN caps : caps[c] = [page |-> p, at |-> a]}
RootsAt(p, a) == {r \in Roots : Translation(r, a) = p}

Counted(p, a) == Cardinality(CapsAt(pageCap, p, a)) <= Cardinality(RootsAt(p, a))

\* MappingsCounted, one page and address at a time.
LEMMA CountedEach == MappingsCounted <=> \A p \in Pages, a \in Addresses : Counted(p, a)
BY DEF MappingsCounted, Counted, CapsAt, RootsAt

\* The sets that are counted are finite.
LEMMA CountedFinite ==
    ASSUME PageCapsOK, NEW p, NEW a
    PROVE  IsFiniteSet(CapsAt(pageCap, p, a)) /\ IsFiniteSet(RootsAt(p, a))
<1>1. CapsAt(pageCap, p, a) \subseteq PageCaps /\ RootsAt(p, a) \subseteq Tables
  BY DEF CapsAt, RootsAt, Roots, PageCapsOK
<1>2. IsFiniteSet(PageCaps) /\ IsFiniteSet(Tables)
  BY VSpaceAssumption
<1>. QED  BY <1>1, <1>2, FS_Subset

\* One more on both sides keeps two counts in order.
LEMMA OneMore ==
    ASSUME NEW A, NEW B, IsFiniteSet(A), IsFiniteSet(B), Cardinality(A) <= Cardinality(B),
           NEW x, x \notin A, NEW y, y \notin B
    PROVE  Cardinality(A \cup {x}) <= Cardinality(B \cup {y})
<1>1. Cardinality(A \cup {x}) = Cardinality(A) + 1
  BY FS_AddElement
<1>2. Cardinality(B \cup {y}) = Cardinality(B) + 1
  BY FS_AddElement
<1>. QED  BY <1>1, <1>2, FS_CardinalityType

\* One less on both sides keeps two counts in order.
LEMMA OneLess ==
    ASSUME NEW A, NEW B, IsFiniteSet(A), IsFiniteSet(B), Cardinality(A) <= Cardinality(B),
           NEW x, x \in A, NEW y, y \in B
    PROVE  Cardinality(A \ {x}) <= Cardinality(B \ {y})
<1>1. Cardinality(A \ {x}) = Cardinality(A) - 1
  BY Zenon, FS_RemoveElement
<1>2. Cardinality(B \ {y}) = Cardinality(B) - 1
  BY Zenon, FS_RemoveElement
<1>. QED  BY <1>1, <1>2, FS_CardinalityType

\* The counts after a step.
LEMMA CountedAfter ==
    ASSUME \A p \in Pages, a \in Addresses :
              Cardinality(CapsAt(pageCap', p, a)) <= Cardinality(RootsAt(p, a)')
    PROVE  MappingsCounted'
BY DEF MappingsCounted, CapsAt, RootsAt, Addresses

\* A step that changes no mapping and no mapped capability keeps the counts.
LEMMA CountedSame ==
    ASSUME MappingsCounted,
           \A p \in Pages, a \in Addresses :
              CapsAt(pageCap', p, a) = CapsAt(pageCap, p, a) /\ RootsAt(p, a)' = RootsAt(p, a)
    PROVE  MappingsCounted'
<1>1. \A p \in Pages, a \in Addresses :
         Cardinality(CapsAt(pageCap, p, a)) <= Cardinality(RootsAt(p, a))
  BY CountedEach DEF Counted
<1>. QED  BY <1>1, CountedAfter

\* set_mapped and set_unmapped change the address of one capability.
LEMMA AddressSet ==
    ASSUME NEW caps, caps = [d \in DOMAIN caps |-> caps[d]], NEW c \in DOMAIN caps,
           NEW p, NEW b, caps[c] = [page |-> p, at |-> b], NEW a
    PROVE  [caps EXCEPT ![c].at = a] = [d \in DOMAIN caps |-> IF d = c THEN [page |-> p, at |-> a] ELSE caps[d]]
<1>1. [caps[c] EXCEPT !.at = a] = [page |-> p, at |-> a]
  OBVIOUS
<1>2. [caps EXCEPT ![c].at = a] = [caps EXCEPT ![c] = [caps[c] EXCEPT !.at = a]]
  OBVIOUS
<1>3. [caps EXCEPT ![c] = [page |-> p, at |-> a]]
        = [d \in DOMAIN caps |-> IF d = c THEN [page |-> p, at |-> a] ELSE caps[d]]
  OBVIOUS
<1>. QED  BY Zenon, <1>1, <1>2, <1>3

\* A page mapped by PageCap::map is counted once on both sides.
LEMMA PageMapCounted ==
    ASSUME NEW lvl, TreeOK(lvl, entries, tableCap), PageCapsOK, MappingsCounted,
           NEW c \in DOMAIN pageCap, NEW r \in Roots, NEW a \in Addresses, PageMap(c, r, a)
    PROVE  MappingsCounted'
<1>. DEFINE pg == pageCap[c].page
<1>1. /\ Roots' = Roots
      /\ Translation(r, a) = Unmapped /\ Translation(r, a)' = pg
      /\ \A s \in Roots, b \in Addresses :
             ~(s = r /\ b = a) => Translation(s, b)' = Translation(s, b)
  BY PageMapStep
<1>2. /\ pageCap = [d \in DOMAIN pageCap |-> pageCap[d]]
      /\ pageCap[c] = [page |-> pg, at |-> Unmapped] /\ pg \in Pages
  BY DEF PageCapsOK, PageMap, CanMap
<1>3. pageCap' = [d \in DOMAIN pageCap |-> IF d = c THEN [page |-> pg, at |-> a] ELSE pageCap[d]]
  <2>1. pageCap' = [pageCap EXCEPT ![c].at = a]
    BY DEF PageMap
  <2>. HIDE DEF pg
  <2>2. [pageCap EXCEPT ![c].at = a]
          = [d \in DOMAIN pageCap |-> IF d = c THEN [page |-> pg, at |-> a] ELSE pageCap[d]]
    BY <1>2, AddressSet
  <2>. QED  BY <2>1, <2>2
<1>4. Unmapped \notin Pages /\ Unmapped \notin Addresses
  BY VSpaceAssumption DEF Addresses
<1>. HIDE DEF pg
<1>5. ASSUME NEW p \in Pages, NEW b \in Addresses
      PROVE  Cardinality(CapsAt(pageCap', p, b)) <= Cardinality(RootsAt(p, b)')
  <2>1. Cardinality(CapsAt(pageCap, p, b)) <= Cardinality(RootsAt(p, b))
    BY CountedEach DEF Counted
  <2>2. c \notin CapsAt(pageCap, p, b)
    BY <1>2, <1>4 DEF CapsAt
  <2>3. CASE p = pg /\ b = a
    <3>1. CapsAt(pageCap', p, b) = CapsAt(pageCap, p, b) \cup {c}
      BY <2>3, <1>3 DEF CapsAt
    <3>2. RootsAt(p, b)' = RootsAt(p, b) \cup {r}
      BY <2>3, <1>1 DEF RootsAt
    <3>3. r \notin RootsAt(p, b)
      BY <2>3, <1>1, <1>4 DEF RootsAt
    <3>4. IsFiniteSet(CapsAt(pageCap, p, b)) /\ IsFiniteSet(RootsAt(p, b))
      BY CountedFinite
    <3>5. Cardinality(CapsAt(pageCap, p, b) \cup {c}) <= Cardinality(RootsAt(p, b) \cup {r})
      BY <3>3, <3>4, <2>1, <2>2, OneMore
    <3>. QED  BY <3>1, <3>2, <3>5
  <2>4. CASE ~(p = pg /\ b = a)
    <3>1. CapsAt(pageCap', p, b) = CapsAt(pageCap, p, b)
      BY <2>2, <2>4, <1>3 DEF CapsAt
    <3>2. \A s \in Roots : Translation(s, b)' = p <=> Translation(s, b) = p
      BY <2>4, <1>1, <1>4
    <3>3. RootsAt(p, b)' = RootsAt(p, b)
      BY <3>2, <1>1 DEF RootsAt
    <3>. QED  BY <3>1, <3>3, <2>1
  <2>. QED  BY <2>3, <2>4
<1>. QED  BY <1>5, CountedAfter

\* A page unmapped by PageCap::unmap is counted no more on both sides.
LEMMA PageUnMapCounted ==
    ASSUME NEW lvl, TreeOK(lvl, entries, tableCap), PageCapsOK, MappingsCounted,
           NEW c \in DOMAIN pageCap, NEW r \in Roots, PageUnMap(c, r)
    PROVE  MappingsCounted'
<1>. DEFINE pg == pageCap[c].page
<1>1. Roots' = Roots
  BY PageUnMapStep
<1>2. PICK a \in Addresses :
         /\ a = pageCap[c].at
         /\ Translation(r, a) = pg /\ Translation(r, a)' = Unmapped
         /\ \A s \in Roots, b \in Addresses :
                ~(s = r /\ b = a) => Translation(s, b)' = Translation(s, b)
  BY PageUnMapStep
<1>3. /\ pageCap = [d \in DOMAIN pageCap |-> pageCap[d]]
      /\ pageCap[c] = [page |-> pg, at |-> a] /\ pg \in Pages
  BY <1>2 DEF PageCapsOK
<1>4. pageCap' = [d \in DOMAIN pageCap |->
                     IF d = c THEN [page |-> pg, at |-> Unmapped] ELSE pageCap[d]]
  <2>1. pageCap' = [pageCap EXCEPT ![c].at = Unmapped]
    BY DEF PageUnMap
  <2>. HIDE DEF pg
  <2>2. [pageCap EXCEPT ![c].at = Unmapped]
          = [d \in DOMAIN pageCap |->
               IF d = c THEN [page |-> pg, at |-> Unmapped] ELSE pageCap[d]]
    BY <1>3, AddressSet
  <2>. QED  BY <2>1, <2>2
<1>5. Unmapped \notin Pages /\ Unmapped \notin Addresses
  BY VSpaceAssumption DEF Addresses
<1>. HIDE DEF pg
<1>6. ASSUME NEW p \in Pages, NEW b \in Addresses
      PROVE  Cardinality(CapsAt(pageCap', p, b)) <= Cardinality(RootsAt(p, b)')
  <2>1. Cardinality(CapsAt(pageCap, p, b)) <= Cardinality(RootsAt(p, b))
    BY CountedEach DEF Counted
  <2>2. c \notin CapsAt(pageCap', p, b)
    BY <1>4, <1>5 DEF CapsAt
  <2>3. CASE p = pg /\ b = a
    <3>1. CapsAt(pageCap', p, b) = CapsAt(pageCap, p, b) \ {c}
      BY <2>2, <1>4 DEF CapsAt
    <3>2. RootsAt(p, b)' = RootsAt(p, b) \ {r}
      BY <2>3, <1>1, <1>2, <1>5 DEF RootsAt
    <3>3. r \in RootsAt(p, b) /\ c \in CapsAt(pageCap, p, b)
      BY Zenon, <2>3, <1>2, <1>3 DEF RootsAt, CapsAt
    <3>4. IsFiniteSet(CapsAt(pageCap, p, b)) /\ IsFiniteSet(RootsAt(p, b))
      BY CountedFinite
    <3>5. Cardinality(CapsAt(pageCap, p, b) \ {c}) <= Cardinality(RootsAt(p, b) \ {r})
      BY <3>3, <3>4, <2>1, OneLess
    <3>. QED  BY <3>1, <3>2, <3>5
  <2>4. CASE ~(p = pg /\ b = a)
    <3>1. CapsAt(pageCap', p, b) = CapsAt(pageCap, p, b)
      BY <2>2, <2>4, <1>3, <1>4 DEF CapsAt
    <3>2. \A s \in Roots : Translation(s, b)' = p <=> Translation(s, b) = p
      BY <2>4, <1>2, <1>5
    <3>3. RootsAt(p, b)' = RootsAt(p, b)
      BY <3>2, <1>1 DEF RootsAt
    <3>. QED  BY <3>1, <3>3, <2>1
  <2>. QED  BY <2>3, <2>4
<1>. QED  BY <1>6, CountedAfter

\* A mapped capability that is moved is counted no more; its mapping still is.
LEMMA PageMoveCounted ==
    ASSUME PageCapsOK, MappingsCounted, NEW c \in DOMAIN pageCap, PageMove(c)
    PROVE  MappingsCounted' /\ PageCapsOK'
<1>1. /\ pageCap = [d \in DOMAIN pageCap |-> pageCap[d]]
      /\ pageCap[c].page \in Pages /\ Unmapped \notin Addresses
  BY VSpaceAssumption DEF PageCapsOK, Addresses
<1>2. /\ pageCap' = [pageCap EXCEPT ![c] = [page |-> pageCap[c].page, at |-> Unmapped]]
      /\ UNCHANGED <<entries, tableCap>>
  BY DEF PageMove, derive
<1>3. ASSUME NEW p \in Pages, NEW a \in Addresses
      PROVE  Cardinality(CapsAt(pageCap', p, a)) <= Cardinality(RootsAt(p, a)')
  <2>1. Cardinality(CapsAt(pageCap, p, a)) <= Cardinality(RootsAt(p, a))
    BY CountedEach DEF Counted
  <2>2. CapsAt(pageCap', p, a) \subseteq CapsAt(pageCap, p, a)
    BY <1>1, <1>2 DEF CapsAt
  <2>3. RootsAt(p, a)' = RootsAt(p, a)
    BY <1>2, SameTables DEF RootsAt
  <2>4. IsFiniteSet(CapsAt(pageCap, p, a)) /\ IsFiniteSet(RootsAt(p, a))
    BY CountedFinite
  <2>5. /\ Cardinality(CapsAt(pageCap', p, a)) <= Cardinality(CapsAt(pageCap, p, a))
        /\ IsFiniteSet(CapsAt(pageCap', p, a))
    BY <2>2, <2>4, FS_Subset
  <2>6. /\ Cardinality(CapsAt(pageCap', p, a)) \in Nat
        /\ Cardinality(CapsAt(pageCap, p, a)) \in Nat /\ Cardinality(RootsAt(p, a)) \in Nat
    BY <2>4, <2>5, FS_CardinalityType
  <2>. QED  BY <2>1, <2>3, <2>5, <2>6
<1>4. MappingsCounted'
  BY <1>3, CountedAfter
<1>5. PageCapsOK'
  BY <1>1, <1>2 DEF PageCapsOK, Addresses
<1>. QED  BY <1>4, <1>5

\* A new capability that is not mapped, from PageCap::derive or retype, is not counted.
LEMMA NewCapCounted ==
    ASSUME PageCapsOK, MappingsCounted, UNCHANGED <<entries, tableCap>>,
           NEW new \in PageCaps \ DOMAIN pageCap, NEW p \in Pages,
           pageCap' = [c \in DOMAIN pageCap \cup {new} |->
                          IF c = new THEN [page |-> p, at |-> Unmapped] ELSE pageCap[c]]
    PROVE  MappingsCounted' /\ PageCapsOK'
<1>1. Unmapped \notin Addresses
  BY VSpaceAssumption DEF Addresses
<1>2. ASSUME NEW q \in Pages, NEW a \in Addresses
      PROVE  CapsAt(pageCap', q, a) = CapsAt(pageCap, q, a) /\ RootsAt(q, a)' = RootsAt(q, a)
  <2>1. CapsAt(pageCap', q, a) = CapsAt(pageCap, q, a)
    BY <1>1 DEF CapsAt
  <2>2. RootsAt(q, a)' = RootsAt(q, a)
    BY SameTables DEF RootsAt
  <2>. QED  BY <2>1, <2>2
<1>3. MappingsCounted'
  BY <1>2, CountedSame
<1>4. PageCapsOK'
  BY DEF PageCapsOK, Addresses
<1>. QED  BY <1>3, <1>4

-----------------------------------------------------------------------------
(***************************************************************************)
(* The theorems.                                                           *)
(***************************************************************************)

\* A step that keeps the translations or undoes some keeps the cache right.
LEMMA CachedKept ==
    ASSUME CachedAgrees, active \in Roots \cup {Kernel}, \A e \in tlb : e[1] \in Addresses,
           active' = active, tlb' = tlb,
           \A s \in Roots, b \in Addresses : Translation(s, b)' \in {Translation(s, b), Unmapped}
    PROVE  CachedAgrees'
<1>. SUFFICES ASSUME active' # Kernel, NEW e \in tlb'
              PROVE  Translation(active, e[1])' \in {e[2], Unmapped}
  BY DEF CachedAgrees
<1>1. active \in Roots /\ e \in tlb /\ e[1] \in Addresses
  OBVIOUS
<1>2. Translation(active, e[1]) \in {e[2], Unmapped}
  BY <1>1 DEF CachedAgrees
<1>3. PICK s \in Roots : s = active
  BY <1>1
<1>4. Translation(s, e[1])' \in {Translation(s, e[1]), Unmapped}
  BY <1>1
<1>5. Translation(active, e[1])' = Translation(s, e[1])'
  BY <1>3
<1>. QED  BY <1>2, <1>3, <1>4, <1>5

\* The root server's root table alone is a tree.
LEMMA InitIInv == Init => IInv
<1>. SUFFICES ASSUME Init  PROVE IInv
  OBVIOUS
<1>. DEFINE lvl == [t \in Tables |-> Top]
<1>1. Top \in Nat \ {0} /\ BootRoot \in Tables /\ KernelVpn \notin Vpns
  BY VSpaceAssumption
<1>2. DOMAIN KernelRoot = {KernelVpn} /\ KernelRoot[KernelVpn] = Kernel /\ DOMAIN Empty = {}
  BY DEF KernelRoot, Empty
<1>3. /\ KernelRoot = [i \in DOMAIN KernelRoot |-> KernelRoot[i]]
      /\ Empty = [i \in DOMAIN Empty |-> Empty[i]]
  BY DEF KernelRoot, Empty
<1>4. \A t \in Tables : entries[t] = IF t = BootRoot THEN KernelRoot ELSE Empty
  BY DEF Init
<1>5. \A t \in Tables : tableCap[t].mapped = (t = BootRoot) /\ tableCap[t].root = (t = BootRoot)
  BY DEF Init
<1>6. CapsOK(tableCap)
  BY DEF CapsOK, Init
<1>7. ASSUME NEW t \in Tables  PROVE DOMAIN entries[t] \cap Vpns = {}
  BY <1>1, <1>2, <1>4
<1>8. ASSUME NEW t \in Tables  PROVE TableOK(t, lvl, entries, tableCap)
  BY Zenon, <1>2, <1>4, <1>5, <1>7 DEF TableOK
<1>9. ParentsOK(entries, tableCap)
  BY <1>5, <1>7 DEF ParentsOK
<1>10. TreeOK(lvl, entries, tableCap)
  <2>1. lvl \in [Tables -> 0..Top]
    BY <1>1
  <2>2. entries = [t \in Tables |-> entries[t]]
    BY DEF Init
  <2>3. \A t \in Tables : entries[t] = [v \in DOMAIN entries[t] |-> entries[t][v]]
    BY <1>3, <1>4
  <2>. QED  BY <2>1, <2>2, <2>3, <1>6, <1>8, <1>9 DEF TreeOK
<1>11. PageCapsOK
  BY <1>2, <1>3 DEF PageCapsOK, Init
<1>12. active \in Roots \cup {Kernel} /\ (\A e \in tlb : e[1] \in Addresses) /\ CachedAgrees
  BY Zenon, <1>1, <1>5 DEF Init, Roots, CachedAgrees
<1>13. ASSUME NEW r \in Roots, NEW a \in Addresses  PROVE Translation(r, a) = Unmapped
  <2>1. PICK l, t, q : WalkOf(lvl, r, a, l, t, q)
    BY <1>10, OldTranslation
  <2>2. /\ l \in 0..Top /\ t \in Tables /\ lvl[t] = l /\ tableCap[t].mapped /\ a[l] \in Vpns
        /\ walk(r, a).level = l /\ walk(r, a).table = t
    BY <2>1, WalkFacts
  <2>3. l = Top /\ Translation(r, a) = Found(entries, a, l, t)
    BY <2>1, <2>2, Zenon DEF WalkOf
  <2>. QED  BY <2>3, <1>1 DEF Found
<1>14. MappingsCounted
  <2>. SUFFICES ASSUME NEW p \in Pages, NEW a \in Addresses  PROVE Counted(p, a)
    BY CountedEach
  <2>1. CapsAt(pageCap, p, a) = {}
    BY <1>2 DEF CapsAt, Init
  <2>2. RootsAt(p, a) = {}
    BY <1>13, VSpaceAssumption DEF RootsAt
  <2>3. Cardinality(CapsAt(pageCap, p, a)) = 0 /\ Cardinality(RootsAt(p, a)) = 0
    BY Zenon, <2>1, <2>2, FS_EmptySet
  <2>. QED  BY <2>3 DEF Counted
<1>15. MappedNamed
  BY <1>13, VSpaceAssumption DEF MappedNamed
<1>. QED  BY <1>10, <1>11, <1>12, <1>14, <1>15 DEF IInv

\* The calls of a caller that maps a table only while it is not mapped, and under a root.
DisciplinedNext ==
    \/ \E t \in Tables, r \in Roots, a \in Addresses : ~tableCap[t].mapped /\ PageTableMap(t, r, a)
    \/ \E t \in Tables : ~tableCap[t].mapped /\ make_as_root(t)
    \/ \E c \in DOMAIN pageCap, r \in Roots, a \in Addresses : PageMap(c, r, a)
    \/ \E c \in DOMAIN pageCap, r \in Roots : PageUnMap(c, r)
    \/ \E c \in DOMAIN pageCap : PageMove(c)
    \/ \E c \in DOMAIN pageCap, d \in PageCaps : PageCopy(c, d)
    \/ \E p \in Pages, d \in PageCaps : PageRetype(p, d)
    \/ \E r \in Roots \cup {Kernel} : Activate(r)
    \/ \E a \in Addresses : CacheTranslation(a)

\* Callers like those in libzoea make no other calls.
LEMMA Discipline ==
    ASSUME Disciplined
    PROVE  Next => DisciplinedNext
<1>1. RootArguments = Roots /\ \A t : HasUnmapped(t) => ~tableCap[t].mapped
  BY DEF Disciplined, RootArguments, HasUnmapped
<1>2. /\ \A t, r, a : PageTableMap(t, r, a) => ~tableCap[t].mapped
      /\ \A t : make_as_root(t) => ~tableCap[t].mapped
  BY Zenon, <1>1 DEF PageTableMap, make_as_root, MakeRootAllowed
<1>. QED  BY <1>1, <1>2 DEF Next, DisciplinedNext

\* A step that keeps the capabilities, and maps only what a capability names.
LEMMA NamedKept ==
    ASSUME MappedNamed,
           \A c \in DOMAIN pageCap : c \in DOMAIN pageCap' /\ pageCap'[c].page = pageCap[c].page,
           \A s \in Roots', b \in Addresses :
              \/ Translation(s, b)' = Unmapped
              \/ s \in Roots /\ Translation(s, b)' = Translation(s, b)
              \/ \E c \in DOMAIN pageCap : Translation(s, b)' = pageCap[c].page
    PROVE  MappedNamed'
<1>. SUFFICES ASSUME NEW s \in Roots', NEW b \in Addresses, Translation(s, b)' \in Pages
              PROVE  \E c \in DOMAIN pageCap' : pageCap'[c].page = Translation(s, b)'
  BY DEF MappedNamed, Addresses
<1>1. \E c \in DOMAIN pageCap : pageCap[c].page = Translation(s, b)'
  BY VSpaceAssumption DEF MappedNamed
<1>. QED  BY <1>1

\* Every call keeps the invariant.
LEMMA NextIInv == IInv /\ [DisciplinedNext]_vars => IInv'
<1>. SUFFICES ASSUME IInv, [DisciplinedNext]_vars  PROVE IInv'
  OBVIOUS
<1>. USE DEF IInv
<1>1. PICK lvl : TreeOK(lvl, entries, tableCap)
  OBVIOUS
<1>2. ASSUME NEW t \in Tables, ~tableCap[t].mapped,
             NEW r \in Roots, NEW a \in Addresses, PageTableMap(t, r, a)
      PROVE  IInv'
  <2>1. /\ \E new : TreeOK(new, entries', tableCap')
        /\ Roots' = Roots
        /\ \A s \in Roots, b \in Addresses : Translation(s, b)' = Translation(s, b)
    BY <1>1, <1>2, TableMapStep
  <2>2. pageCap' = pageCap /\ active' = active /\ tlb' = tlb
    BY <1>2 DEF PageTableMap
  <2>3. PageCapsOK' /\ active' \in (Roots \cup {Kernel})' /\ \A e \in tlb' : e[1] \in Addresses'
    BY <2>1, <2>2 DEF PageCapsOK, Addresses
  <2>4. CachedAgrees'
    BY <2>1, <2>2, CachedKept
  <2>5. MappingsCounted'
    BY <2>1, <2>2, CountedSame DEF RootsAt
  <2>6. MappedNamed'
    BY <2>1, <2>2, NamedKept
  <2>. QED  BY Zenon, <2>1, <2>3, <2>4, <2>5, <2>6
<1>3. ASSUME NEW t \in Tables, ~tableCap[t].mapped, make_as_root(t)  PROVE IInv'
  <2>1. /\ \E new : TreeOK(new, entries', tableCap')
        /\ Roots' = Roots \cup {t}
        /\ \A b \in Addresses : Translation(t, b)' = Unmapped
        /\ \A s \in Roots, b \in Addresses : Translation(s, b)' = Translation(s, b)
    BY <1>1, <1>3, MakeRootStep
  <2>2. pageCap' = pageCap /\ active' = active /\ tlb' = tlb
    BY <1>3 DEF make_as_root
  <2>3. PageCapsOK' /\ active' \in (Roots \cup {Kernel})' /\ \A e \in tlb' : e[1] \in Addresses'
    BY <2>1, <2>2 DEF PageCapsOK, Addresses
  <2>4. CachedAgrees'
    BY <2>1, <2>2, CachedKept
  <2>5. ASSUME NEW p \in Pages, NEW a \in Addresses  PROVE RootsAt(p, a)' = RootsAt(p, a)
    <3>1. t \notin Roots
      BY <1>1, <1>3 DEF Roots, TreeOK, CapsOK
    <3>2. Unmapped # p
      BY VSpaceAssumption
    <3>. QED  BY <3>1, <3>2, <2>1 DEF RootsAt
  <2>6. MappingsCounted'
    BY <2>2, <2>5, CountedSame
  <2>7. MappedNamed'
    BY <2>1, <2>2, NamedKept
  <2>. QED  BY <2>1, <2>3, <2>4, <2>6, <2>7
<1>4. ASSUME NEW c \in DOMAIN pageCap, NEW r \in Roots, NEW a \in Addresses, PageMap(c, r, a)
      PROVE  IInv'
  <2>1. TreeOK(lvl, entries', tableCap') /\ Roots' = Roots
    BY <1>1, <1>4, PageMapStep
  <2>2. pageCap' = [pageCap EXCEPT ![c].at = a] /\ active' = active /\ tlb' = {}
    BY <1>4 DEF PageMap, sfence
  <2>3. PageCapsOK'
    BY <2>2 DEF PageCapsOK, Addresses
  <2>4. MappingsCounted'
    BY <1>1, <1>4, PageMapCounted
  <2>5. MappedNamed'
    <3>1. /\ Translation(r, a)' = pageCap[c].page
          /\ \A s \in Roots, b \in Addresses :
                 ~(s = r /\ b = a) => Translation(s, b)' = Translation(s, b)
      BY <1>1, <1>4, PageMapStep
    <3>2. \A e \in DOMAIN pageCap : e \in DOMAIN pageCap' /\ pageCap'[e].page = pageCap[e].page
      BY <2>2 DEF PageCapsOK
    <3>. QED  BY <2>1, <3>1, <3>2, NamedKept
  <2>. QED  BY <2>1, <2>2, <2>3, <2>4, <2>5 DEF CachedAgrees
<1>5. ASSUME NEW c \in DOMAIN pageCap, NEW r \in Roots, PageUnMap(c, r)  PROVE IInv'
  <2>1. TreeOK(lvl, entries', tableCap') /\ Roots' = Roots
    BY <1>1, <1>5, PageUnMapStep
  <2>2. pageCap' = [pageCap EXCEPT ![c].at = Unmapped] /\ active' = active /\ tlb' = tlb
    BY <1>5 DEF PageUnMap
  <2>3. PageCapsOK' /\ active' \in (Roots \cup {Kernel})' /\ \A e \in tlb' : e[1] \in Addresses'
    BY <2>1, <2>2 DEF PageCapsOK, Addresses
  <2>4. \A s \in Roots, b \in Addresses : Translation(s, b)' \in {Translation(s, b), Unmapped}
    BY <1>1, <1>5, PageUnMapStep
  <2>5. CachedAgrees'
    BY <2>2, <2>4, CachedKept
  <2>6. MappingsCounted'
    BY <1>1, <1>5, PageUnMapCounted
  <2>7. MappedNamed'
    <3>1. \A e \in DOMAIN pageCap : e \in DOMAIN pageCap' /\ pageCap'[e].page = pageCap[e].page
      BY <2>2 DEF PageCapsOK
    <3>. QED  BY <2>1, <2>4, <3>1, NamedKept
  <2>. QED  BY <2>1, <2>3, <2>5, <2>6, <2>7
<1>6. ASSUME UNCHANGED <<entries, tableCap, active, tlb>>, PageCapsOK', MappingsCounted',
             \A e \in DOMAIN pageCap : e \in DOMAIN pageCap' /\ pageCap'[e].page = pageCap[e].page
      PROVE  IInv'
  <2>1. Roots' = Roots /\ \A s, b : Translation(s, b)' = Translation(s, b)
    BY <1>6, SameTables
  <2>2. CachedAgrees'
    BY <2>1, <1>6, CachedKept
  <2>3. TreeOK(lvl, entries', tableCap')
    BY <1>1, <1>6
  <2>4. active' \in (Roots \cup {Kernel})' /\ \A e \in tlb' : e[1] \in Addresses'
    BY <2>1, <1>6 DEF Addresses
  <2>5. MappedNamed'
    BY <2>1, <1>6, NamedKept
  <2>. QED  BY <2>2, <2>3, <2>4, <2>5, <1>6
<1>7. ASSUME NEW c \in DOMAIN pageCap, NEW d \in PageCaps, PageCopy(c, d)  PROVE IInv'
  <2>1. pageCap[c].page \in Pages
    BY DEF PageCapsOK
  <2>2. /\ d \in PageCaps \ DOMAIN pageCap /\ UNCHANGED <<entries, tableCap, active, tlb>>
        /\ pageCap' = [e \in DOMAIN pageCap \cup {d} |->
              IF e = d THEN [page |-> pageCap[c].page, at |-> Unmapped] ELSE pageCap[e]]
    BY <1>7 DEF PageCopy, derive
  <2>3. MappingsCounted' /\ PageCapsOK'
    BY <2>1, <2>2, NewCapCounted
  <2>. QED  BY <2>2, <2>3, <1>6
<1>8. ASSUME NEW p \in Pages, NEW d \in PageCaps, PageRetype(p, d)  PROVE IInv'
  <2>1. /\ d \in PageCaps \ DOMAIN pageCap /\ UNCHANGED <<entries, tableCap, active, tlb>>
        /\ pageCap' = [e \in DOMAIN pageCap \cup {d} |->
              IF e = d THEN [page |-> p, at |-> Unmapped] ELSE pageCap[e]]
    BY <1>8 DEF PageRetype
  <2>2. MappingsCounted' /\ PageCapsOK'
    BY <2>1, NewCapCounted
  <2>. QED  BY <2>1, <2>2, <1>6
<1>9. ASSUME UNCHANGED <<entries, tableCap, pageCap>>
      PROVE  /\ TreeOK(lvl, entries', tableCap') /\ PageCapsOK' /\ MappingsCounted' /\ MappedNamed'
             /\ Roots' = Roots /\ \A s, b : Translation(s, b)' = Translation(s, b)
  <2>1. Roots' = Roots /\ \A s, b : Translation(s, b)' = Translation(s, b)
    BY <1>9, SameTables
  <2>2. MappingsCounted'
    BY <2>1, <1>9, CountedSame DEF RootsAt
  <2>3. PageCapsOK'
    BY <1>9 DEF PageCapsOK, Addresses
  <2>4. MappedNamed'
    BY <2>1, <1>9, NamedKept
  <2>. QED  BY <2>1, <2>2, <2>3, <2>4, <1>1, <1>9
<1>10. ASSUME NEW r \in Roots \cup {Kernel}, Activate(r)  PROVE IInv'
  <2>1. active' = r /\ tlb' = {} /\ UNCHANGED <<entries, tableCap, pageCap>>
    BY <1>10 DEF Activate, sfence
  <2>. QED  BY <2>1, <1>9 DEF CachedAgrees
<1>11. ASSUME NEW a \in Addresses, CacheTranslation(a)  PROVE IInv'
  <2>1. /\ active' = active /\ tlb' = tlb \cup {<<a, Translation(active, a)>>}
        /\ UNCHANGED <<entries, tableCap, pageCap>>
    BY <1>11 DEF CacheTranslation
  <2>2. ASSUME NEW e \in tlb', active' # Kernel
        PROVE  Translation(active, e[1])' \in {e[2], Unmapped} /\ e[1] \in Addresses
    <3>1. Translation(active, e[1])' = Translation(active, e[1])
      BY <2>1, <1>9
    <3>2. CASE e \in tlb
      BY <3>1, <3>2, <2>1, <2>2 DEF CachedAgrees
    <3>3. CASE e = <<a, Translation(active, a)>>
      BY <3>1, <3>3
    <3>. QED  BY <3>2, <3>3, <2>1
  <2>3. CachedAgrees'
    BY <2>2 DEF CachedAgrees
  <2>4. \A e \in tlb' : e[1] \in Addresses'
    BY <2>1 DEF Addresses
  <2>. QED  BY <2>1, <2>3, <2>4, <1>9
<1>12. ASSUME NEW c \in DOMAIN pageCap, PageMove(c)  PROVE IInv'
  <2>1. UNCHANGED <<entries, tableCap, active, tlb>>
    BY <1>12 DEF PageMove
  <2>2. MappingsCounted' /\ PageCapsOK'
    BY <1>12, PageMoveCounted
  <2>3. \A e \in DOMAIN pageCap : e \in DOMAIN pageCap' /\ pageCap'[e].page = pageCap[e].page
    BY <1>12 DEF PageMove, derive, PageCapsOK
  <2>. QED  BY <2>1, <2>2, <2>3, <1>6
<1>13. CASE UNCHANGED vars
  <2>1. UNCHANGED <<entries, tableCap, pageCap, active, tlb>>
    BY <1>13 DEF vars
  <2>. QED  BY <2>1, <1>6, <1>9
<1>. HIDE DEF IInv
<1>. QED  BY <1>2, <1>3, <1>4, <1>5, <1>7, <1>8, <1>10, <1>11, <1>12, <1>13 DEF DisciplinedNext

\* The invariant holds from the start of the root server on.
LEMMA VSpaceInvariant ==
    ASSUME Disciplined
    PROVE  Spec => []IInv
BY InitIInv, NextIInv, Discipline, PTL DEF Spec

\* A root translates an address to a page or not at all: walk never takes a table for a
\* page.
LEMMA TranslatesToPage ==
    ASSUME NEW lvl, TreeOK(lvl, entries, tableCap), NEW r \in Roots, NEW a \in Addresses
    PROVE  Translation(r, a) \in Pages \cup {Unmapped}
<1>1. PICK l, t, p : WalkOf(lvl, r, a, l, t, p)
  BY OldTranslation
<1>2. Translation(r, a) = Found(entries, a, l, t)
  BY <1>1, Zenon DEF WalkOf
<1>3. CASE l = 0 /\ Valid(entries, t, a[0])
  <2>1. /\ l \in 0..Top /\ t \in Tables /\ lvl[t] = l /\ tableCap[t].mapped /\ a[l] \in Vpns
        /\ walk(r, a).level = l /\ walk(r, a).table = t
    BY <1>1, WalkFacts
  <2>2. TableOK(t, lvl, entries, tableCap) /\ a[0] \in DOMAIN entries[t] \cap Vpns
    BY <2>1, <1>3 DEF TreeOK, Valid
  <2>3. entries[t][a[0]] \in Pages
    BY ZenonT(30), <2>1, <2>2, <1>3 DEF TableOK
  <2>. QED  BY <2>3, <1>2, <1>3 DEF Found
<1>4. CASE ~(l = 0 /\ Valid(entries, t, a[0]))
  BY <1>2, <1>4 DEF Found
<1>. QED  BY <1>3, <1>4

\* walk never takes a page for a table, and every mapped table is under one entry of
\* one table: PageTableCap::map makes trees, for any number of levels and tables, when
\* callers keep no unmapped copy of a table's capability and name roots as root_table.
THEOREM TreesCorrect ==
    ASSUME Disciplined
    PROVE  Spec => []TablesFormTrees
<1>1. ASSUME NEW lvl, TreeOK(lvl, entries, tableCap), NEW r \in Roots, NEW a \in Addresses
      PROVE  Translation(r, a) \in Pages \cup {Unmapped}
  BY <1>1, TranslatesToPage
<1>2. ASSUME NEW lvl, TreeOK(lvl, entries, tableCap), NEW t \in Tables
      PROVE  Cardinality({e \in Tables \X Vpns : IsValid(e[1], e[2]) /\ entries[e[1]][e[2]] = t})
               = IF tableCap[t].mapped /\ ~tableCap[t].root THEN 1 ELSE 0
  <2>. DEFINE E == {e \in Tables \X Vpns : IsValid(e[1], e[2]) /\ entries[e[1]][e[2]] = t}
  <2>1. CASE tableCap[t].mapped /\ ~tableCap[t].root
    <3>1. PICK u \in Tables : \E v \in DOMAIN entries[u] \cap Vpns : entries[u][v] = t
      BY <1>2, <2>1 DEF TreeOK, ParentsOK
    <3>2. PICK v \in DOMAIN entries[u] \cap Vpns : entries[u][v] = t
      BY <3>1
    <3>3. <<u, v>> \in E
      BY <3>2 DEF IsValid
    <3>4. ASSUME NEW e \in E  PROVE e = <<u, v>>
      <4>1. /\ e[1] \in Tables /\ e[2] \in DOMAIN entries[e[1]] \cap Vpns
            /\ entries[e[1]][e[2]] = t /\ e = <<e[1], e[2]>>
        BY DEF IsValid
      <4>2. ParentsOK(entries, tableCap)
        BY <1>2 DEF TreeOK
      <4>3. e[1] = u /\ e[2] = v
        <5>1. entries[e[1]][e[2]] = entries[u][v] /\ entries[e[1]][e[2]] \in Tables
          BY <4>1, <3>2
        <5>. QED  BY <5>1, <4>1, <4>2, <3>2, OneParent, ZenonT(40)
      <4>. QED  BY <4>1, <4>3
    <3>. HIDE DEF E
    <3>5. E = {<<u, v>>}
      BY <3>3, <3>4
    <3>6. Cardinality(E) = 1
      BY Zenon, <3>5, FS_Singleton
    <3>. QED  BY <3>6, <2>1 DEF E
  <2>2. CASE ~(tableCap[t].mapped /\ ~tableCap[t].root)
    <3>1. ASSUME NEW e \in E  PROVE FALSE
      <4>1. e[1] \in Tables /\ e[2] \in DOMAIN entries[e[1]] \cap Vpns /\ entries[e[1]][e[2]] = t
        BY DEF IsValid
      <4>2. TableOK(e[1], lvl, entries, tableCap)
        BY <4>1, <1>2 DEF TreeOK
      <4>. QED  BY <4>1, <4>2, <2>2, VSpaceAssumption DEF TableOK
    <3>. HIDE DEF E
    <3>2. Cardinality(E) = 0
      BY <3>1, FS_EmptySet
    <3>. QED  BY <3>2, <2>2 DEF E
  <2>. QED  BY <2>1, <2>2
<1>3. IInv => TablesFormTrees
  BY Zenon, <1>1, <1>2 DEF IInv, TablesFormTrees
<1>. QED  BY <1>3, VSpaceInvariant, PTL

\* Every capability that says it is mapped has an entry of its own, although
\* PageCap::unmap trusts the caller to name the root and a move forgets a mapping.
THEOREM CountedCorrect ==
    ASSUME Disciplined
    PROVE  Spec => []MappingsCounted
<1>1. IInv => MappingsCounted
  BY DEF IInv
<1>. QED  BY <1>1, VSpaceInvariant, PTL

\* No access uses a stale translation for an address that is mapped again, although
\* PageCap::unmap and PageTableCap::map do not flush the TLB.
THEOREM CachedCorrect ==
    ASSUME Disciplined
    PROVE  Spec => []CachedAgrees
<1>1. IInv => CachedAgrees
  BY DEF IInv
<1>. QED  BY <1>1, VSpaceInvariant, PTL

\* A call of such callers changes the translation of at most one address in one address
\* space: no table is shared, and make_as_root overwrites no table that is in use.
THEOREM OneTranslationCorrect ==
    ASSUME Disciplined
    PROVE  Spec => OneTranslationPerCall
<1>1. IInv /\ [Next]_vars => [OneTranslationChanges]_vars
  <2>. SUFFICES ASSUME IInv, DisciplinedNext  PROVE OneTranslationChanges
    BY Discipline
  <2>1. PICK lvl : TreeOK(lvl, entries, tableCap)
    BY DEF IInv
  <2>2. PageCapsOK
    BY DEF IInv
  <2>3. ASSUME \A s \in Roots, b \in Addresses : Translation(s, b)' = Translation(s, b)
        PROVE  OneTranslationChanges
    BY <2>3 DEF OneTranslationChanges
  <2>4. ASSUME NEW r \in Roots, NEW a \in Addresses,
               \A s \in Roots, b \in Addresses :
                   ~(s = r /\ b = a) => Translation(s, b)' = Translation(s, b)
        PROVE  OneTranslationChanges
    BY <2>4 DEF OneTranslationChanges
  <2>5. ASSUME NEW t \in Tables, ~tableCap[t].mapped,
               NEW r \in Roots, NEW a \in Addresses, PageTableMap(t, r, a)
        PROVE  OneTranslationChanges
    BY <2>1, <2>3, <2>5, TableMapStep
  <2>6. ASSUME NEW t \in Tables, ~tableCap[t].mapped, make_as_root(t)  PROVE OneTranslationChanges
    BY <2>1, <2>3, <2>6, MakeRootStep
  <2>7. ASSUME NEW c \in DOMAIN pageCap, NEW r \in Roots, NEW a \in Addresses, PageMap(c, r, a)
        PROVE  OneTranslationChanges
    BY <2>1, <2>2, <2>4, <2>7, PageMapStep
  <2>8. ASSUME NEW c \in DOMAIN pageCap, NEW r \in Roots, PageUnMap(c, r)
        PROVE  OneTranslationChanges
    BY <2>1, <2>2, <2>4, <2>8, PageUnMapStep
  <2>9. ASSUME UNCHANGED <<entries, tableCap>>  PROVE OneTranslationChanges
    BY <2>3, <2>9, SameTables
  <2>10. ASSUME NEW c \in DOMAIN pageCap, NEW d \in PageCaps, PageCopy(c, d)
         PROVE  OneTranslationChanges
    BY <2>9, <2>10 DEF PageCopy
  <2>11. ASSUME NEW p \in Pages, NEW d \in PageCaps, PageRetype(p, d)
         PROVE  OneTranslationChanges
    BY <2>9, <2>11 DEF PageRetype
  <2>12. ASSUME NEW r \in Roots \cup {Kernel}, Activate(r)  PROVE OneTranslationChanges
    BY <2>9, <2>12 DEF Activate
  <2>13. ASSUME NEW a \in Addresses, CacheTranslation(a)  PROVE OneTranslationChanges
    BY <2>9, <2>13 DEF CacheTranslation
  <2>14. ASSUME NEW c \in DOMAIN pageCap, PageMove(c)  PROVE OneTranslationChanges
    BY <2>9, <2>14 DEF PageMove
  <2>. QED  BY <2>5, <2>6, <2>7, <2>8, <2>10, <2>11, <2>12, <2>13, <2>14
    DEF DisciplinedNext
<1>. QED  BY <1>1, VSpaceInvariant, PTL DEF Spec, OneTranslationPerCall

=============================================================================
