------------------------- MODULE TrapContextProofs --------------------------
(***************************************************************************)
(* Proofs about TrapContext, for any threads and any registers: trap_entry *)
(* and return_to_user, instruction by instruction, keep the registers and  *)
(* the mode of every thread, and the idle thread can be interrupted.       *)
(***************************************************************************)
EXTENDS TrapContext, TLAPS

\* The backends of a leaf that names none, in the order they are tried.
USE SMTT(20), ZenonT(10), SMTT(30), SMTT(40), SMTT(50)

-----------------------------------------------------------------------------
(* The shape of the registers and of the memory *)

Csrs == {"sepc", "scause", "sstatus", "sscratch", "pc", "priv", "sie"}
HartNames == GPR \cup Csrs
Objects == TCBs \cup {CPU_VAR}
FieldsOf(o) == IF o = CPU_VAR THEN {"sptop", "sscratch", "cur_reg_base"} ELSE Fields

IsHart(r) == r = [x \in HartNames |-> r[x]]
IsMem(m) ==
    /\ m = [o \in Objects |-> m[o]]
    /\ \A o \in Objects : m[o] = [x \in FieldsOf(o) |-> m[o][x]]
Machine(s) == IsHart(s.r) /\ IsMem(s.m)

-----------------------------------------------------------------------------
(* What one instruction does *)

\* The memory n is m with a new area for one object.
Replaced(m, n, o, area) == IsMem(n) /\ n[o] = area /\ \A p \in Objects \ {o} : n[p] = m[p]

\* An assignment to the whole area of an object.
LEMMA NewArea ==
    ASSUME NEW m, IsMem(m), NEW o \in Objects, NEW area, area = [x \in FieldsOf(o) |-> area[x]]
    PROVE  Replaced(m, [m EXCEPT ![o] = area], o, area)
<1>. DEFINE n == [m EXCEPT ![o] = area]
<1>1. DOMAIN m = Objects
  BY DEF IsMem
<1>2. n = [p \in Objects |-> IF p = o THEN area ELSE m[p]]
  BY Zenon, <1>1
<1>3. n = [p \in Objects |-> n[p]] /\ n[o] = area /\ \A p \in Objects \ {o} : n[p] = m[p]
  BY <1>2
<1>. HIDE DEF n
<1>4. ASSUME NEW p \in Objects PROVE n[p] = [x \in FieldsOf(p) |-> n[p][x]]
  <2>1. CASE p = o
    BY <1>3, <2>1
  <2>2. CASE p # o
    BY <1>3, <2>2 DEF IsMem
  <2>. QED  BY <2>1, <2>2
<1>5. IsMem(n)
  BY <1>3, <1>4 DEF IsMem
<1>6. Replaced(m, n, o, area)
  BY <1>3, <1>5 DEF Replaced
<1>. QED  BY <1>6 DEF n

\* A store to one field, and stores to the fields of several registers.
OneField(s, n, o, field, value) ==
    /\ Machine(n) /\ n.r = s.r
    /\ n.m[o][field] = value
    /\ \A x \in FieldsOf(o) \ {field} : n.m[o][x] = s.m[o][x]
    /\ \A p \in Objects \ {o} : n.m[p] = s.m[p]
SomeFields(s, n, o, names) ==
    /\ Machine(n) /\ n.r = s.r
    /\ \A x \in FieldsOf(o) \cap names : n.m[o][x] = s.r[x]
    /\ \A p \in Objects \ {o} : n.m[p] = s.m[p]

\* sd changes one field of the object that its base register points to.
LEMMA StoreOne ==
    ASSUME NEW s, Machine(s), NEW rs, NEW base, NEW o \in Objects, s.r[base] = Address(o),
           NEW field \in FieldsOf(o)
    PROVE  OneField(s, sd(s, rs, field, base), o, field, s.r[rs])
<1>. DEFINE n == sd(s, rs, field, base)
            area == [s.m[o] EXCEPT ![field] = s.r[rs]]
<1>1. Base(s, base) = o
  BY DEF Base, Address
<1>2. n.r = s.r /\ n.m = [s.m EXCEPT ![o] = area]
  BY <1>1 DEF sd
<1>3. IsMem(s.m) /\ IsHart(s.r) /\ DOMAIN s.m[o] = FieldsOf(o)
  BY Zenon DEF Machine, IsMem
<1>4. /\ area = [x \in FieldsOf(o) |-> area[x]] /\ area[field] = s.r[rs]
      /\ \A x \in FieldsOf(o) \ {field} : area[x] = s.m[o][x]
  BY <1>3
<1>. HIDE DEF n, area
<1>5. IsMem(n.m) /\ n.m[o] = area /\ \A p \in Objects \ {o} : n.m[p] = s.m[p]
  <2>1. Replaced(s.m, n.m, o, area)
    BY <1>2, <1>3, <1>4, NewArea
  <2>. QED  BY <2>1 DEF Replaced
<1>6. Machine(n)
  BY <1>2, <1>3, <1>5 DEF Machine
<1>7. OneField(s, n, o, field, s.r[rs])
  BY <1>2, <1>4, <1>5, <1>6 DEF OneField
<1>. QED  BY <1>7 DEF n

\* So does a block of sd instructions, for the fields of its registers.
LEMMA StoreAll ==
    ASSUME NEW s, Machine(s), NEW names, NEW base, NEW o \in Objects, s.r[base] = Address(o)
    PROVE  SomeFields(s, sdAll(s, names, base), o, names)
<1>. DEFINE n == sdAll(s, names, base)
            area == Merge(s.m[o], s.r, names)
<1>1. Base(s, base) = o
  BY DEF Base, Address
<1>2. n.r = s.r /\ n.m = [s.m EXCEPT ![o] = area]
  BY <1>1 DEF sdAll
<1>3. IsMem(s.m) /\ IsHart(s.r) /\ DOMAIN s.m[o] = FieldsOf(o)
  BY Zenon DEF Machine, IsMem
<1>4. /\ area = [x \in FieldsOf(o) |-> area[x]]
      /\ \A x \in FieldsOf(o) \cap names : area[x] = s.r[x]
      /\ \A x \in FieldsOf(o) \ names : area[x] = s.m[o][x]
  BY <1>3 DEF Merge
<1>. HIDE DEF n, area
<1>5. IsMem(n.m) /\ n.m[o] = area /\ \A p \in Objects \ {o} : n.m[p] = s.m[p]
  <2>1. Replaced(s.m, n.m, o, area)
    BY <1>2, <1>3, <1>4, NewArea
  <2>. QED  BY <2>1 DEF Replaced
<1>6. Machine(n)
  BY <1>2, <1>3, <1>5 DEF Machine
<1>7. SomeFields(s, n, o, names)
  BY <1>2, <1>4, <1>5, <1>6 DEF SomeFields
<1>. QED  BY <1>7 DEF n

\* Instructions that write one register, and leave the memory alone.
OneRegister(s, n, rd, value) ==
    /\ Machine(n) /\ n.m = s.m
    /\ n.r[rd] = value
    /\ \A x \in HartNames \ {rd} : n.r[x] = s.r[x]

\* ld loads a field of the object that its base register points to.
LEMMA LoadOne ==
    ASSUME NEW s, Machine(s), NEW rd \in HartNames, NEW field, NEW base, NEW o,
           s.r[base] = Address(o)
    PROVE  OneRegister(s, ld(s, rd, field, base), rd, s.m[o][field])
<1>1. Base(s, base) = o
  BY DEF Base, Address
<1>. QED  BY <1>1 DEF ld, Machine, IsHart, OneRegister

\* csrr reads a control register, csrw writes one.
LEMMA ReadCsr ==
    ASSUME NEW s, Machine(s), NEW rd \in HartNames, NEW csr
    PROVE  /\ OneRegister(s, csrr(s, rd, csr), rd, s.r[csr])
           /\ OneRegister(s, csrw(s, rd, csr), rd, s.r[csr])
BY DEF csrr, csrw, Machine, IsHart, OneRegister

\* csrrw writes a control register and reads what it held before.
LEMMA SwapCsr ==
    ASSUME NEW s, Machine(s), NEW rd \in HartNames, NEW csr \in HartNames, NEW rs, rd # csr
    PROVE  LET n == csrrw(s, rd, csr, rs)
           IN  /\ Machine(n) /\ n.m = s.m
               /\ n.r[csr] = s.r[rs] /\ n.r[rd] = s.r[csr]
               /\ \A x \in HartNames \ {rd, csr} : n.r[x] = s.r[x]
BY Zenon DEF csrrw, Machine, IsHart

\* A block of ld instructions loads the registers of names.
LEMMA LoadAll ==
    ASSUME NEW s, Machine(s), NEW names, NEW base, NEW o, s.r[base] = Address(o)
    PROVE  LET n == ldAll(s, names, base)
           IN  /\ Machine(n) /\ n.m = s.m
               /\ \A x \in HartNames \cap names : n.r[x] = s.m[o][x]
               /\ \A x \in HartNames \ names : n.r[x] = s.r[x]
<1>1. Base(s, base) = o
  BY DEF Base, Address
<1>. QED  BY <1>1 DEF ldAll, Merge, Machine, IsHart

-----------------------------------------------------------------------------
(* trap_entry *)

\* While trap_entry runs: tp and t0 point to CPU_VAR and to the area of thread a,
\* and the fields in done have the values that the registers had in s0.
Saving(s0, n, a, done) ==
    /\ Machine(n)
    /\ n.r["tp"] = Address(CPU_VAR) /\ n.r["t0"] = Address(a)
    /\ \A x \in {"sepc", "sstatus", "scause", "pc", "priv", "sie"} : n.r[x] = s0.r[x]
    /\ n.m[CPU_VAR]["cur_reg_base"] = Address(a)
    /\ n.m[CPU_VAR]["sscratch"] = s0.r["t0"]
    /\ \A x \in done : n.m[a][x] = s0.r[x]
    /\ \A t \in TCBs \ {a} : n.m[t] = s0.m[t]

\* The fields of the objects, and the names of the registers, are different.
LEMMA Names ==
    /\ \A t \in TCBs : t \in Objects /\ t # CPU_VAR /\ FieldsOf(t) = Fields
    /\ CPU_VAR \in Objects /\ FieldsOf(CPU_VAR) = {"sptop", "sscratch", "cur_reg_base"}
    /\ {"ra", "sp", "tp", "t0", "t1", "a0", "a1"} \subseteq GPR /\ GPR \subseteq HartNames
    /\ {"ra", "sp", "tp", "t0", "t1", "a0", "a1"} \subseteq HartNames
    /\ Csrs \subseteq HartNames /\ GPR \cap Csrs = {}
    /\ GPR \subseteq Fields /\ {"sepc", "scause", "sstatus"} \subseteq Fields
BY TrapAssumption DEF TCBs, Objects, FieldsOf, Fields, HartNames, Csrs

\* A store from a1 adds the field to those that are done.
LEMMA SavingStore ==
    ASSUME NEW s0, NEW n, NEW a \in TCBs, NEW done \in SUBSET Fields, Saving(s0, n, a, done),
           NEW field \in Fields, n.r["a1"] = s0.r[field], NEW k, k = sd(n, "a1", field, "t0")
    PROVE  Saving(s0, k, a, done \cup {field}) /\ k.r = n.r
<1>1. Machine(n) /\ a \in Objects /\ n.r["t0"] = Address(a) /\ field \in FieldsOf(a)
  BY Names DEF Saving
<1>2. /\ Machine(k) /\ k.r = n.r
      /\ k.m[a][field] = n.r["a1"]
      /\ \A x \in FieldsOf(a) \ {field} : k.m[a][x] = n.m[a][x]
      /\ \A p \in Objects \ {a} : k.m[p] = n.m[p]
  <2>1. OneField(n, k, a, field, n.r["a1"])
    BY <1>1, StoreOne
  <2>. QED  BY <2>1 DEF OneField
<1>3. k.m[CPU_VAR] = n.m[CPU_VAR] /\ \A t \in TCBs \ {a} : k.m[t] = n.m[t]
  BY <1>2, Names
<1>4. \A x \in done \cup {field} : k.m[a][x] = s0.r[x]
  BY <1>2, Names DEF Saving
<1>5. Saving(s0, k, a, done \cup {field})
  BY <1>2, <1>3, <1>4 DEF Saving
<1>. QED  BY <1>2, <1>5

\* An instruction that writes to a1 or sp keeps all that.
LEMMA SavingRegister ==
    ASSUME NEW s0, NEW n, NEW a, NEW done, Saving(s0, n, a, done),
           NEW k, NEW rd \in {"a1", "sp"}, NEW value, OneRegister(n, k, rd, value)
    PROVE  Saving(s0, k, a, done) /\ k.r[rd] = value /\ k.r["sscratch"] = n.r["sscratch"]
<1>1. /\ Machine(k) /\ k.m = n.m /\ k.r[rd] = value
      /\ \A x \in {"tp", "t0"} \cup Csrs : k.r[x] = n.r[x]
  <2>1. {"tp", "t0"} \cup Csrs \subseteq HartNames \ {rd}
    BY Names DEF Csrs
  <2>. QED  BY <2>1 DEF OneRegister
<1>. QED  BY <1>1 DEF Saving, Csrs

\* trap_entry saves all registers of the program, t0, tp and a1 included, to the
\* area that CPU_VAR names, changes no other area, and leaves sscratch and CPU_VAR
\* ready for the next trap.
LEMMA TrapEntrySaves ==
    ASSUME NEW s, Machine(s), NEW a \in TCBs,
           s.r["sscratch"] = Address(CPU_VAR), s.m[CPU_VAR]["cur_reg_base"] = Address(a)
    PROVE  LET n == trap_entry(s)
           IN  /\ Machine(n)
               /\ n.r["sscratch"] = Address(CPU_VAR)
               /\ n.m[CPU_VAR]["cur_reg_base"] = Address(a)
               /\ \A x \in GPR \cup {"sepc", "sstatus"} : n.m[a][x] = s.r[x]
               /\ \A t \in TCBs \ {a} : n.m[t] = s.m[t]
<1>. DEFINE s1 == csrrw(s, "tp", "sscratch", "tp")
            s2 == sd(s1, "t0", "sscratch", "tp")
            s3 == ld(s2, "t0", "cur_reg_base", "tp")
            d4 == GPR \ {"t0", "tp"}
            s4 == sdAll(s3, d4, "t0")
            s5 == csrr(s4, "a1", "sepc")
            s6 == sd(s5, "a1", "sepc", "t0")
            s7 == csrr(s6, "a1", "sstatus")
            s8 == sd(s7, "a1", "sstatus", "t0")
            s9 == csrrw(s8, "a1", "sscratch", "tp")
            s10 == sd(s9, "a1", "tp", "t0")
            s11 == ld(s10, "a1", "sscratch", "tp")
            s12 == sd(s11, "a1", "t0", "t0")
            s13 == ld(s12, "sp", "sptop", "tp")
            s14 == csrr(s13, "a1", "scause")
            n == sd(s14, "a1", "scause", "t0")
            d6 == d4 \cup {"sepc"}
            d8 == d6 \cup {"sstatus"}
            d10 == d8 \cup {"tp"}
            d12 == d10 \cup {"t0"}
            d15 == d12 \cup {"scause"}
<1>0. trap_entry(s) = n
  BY Zenon DEF trap_entry
<1>d. /\ d4 \in SUBSET Fields /\ d6 \in SUBSET Fields /\ d8 \in SUBSET Fields
      /\ d10 \in SUBSET Fields /\ d12 \in SUBSET Fields
      /\ GPR \cup {"sepc", "sstatus"} \subseteq d15
  BY Names
<1>f. "sepc" \in Fields /\ "sstatus" \in Fields /\ "scause" \in Fields /\ "tp" \in Fields
      /\ "t0" \in Fields
  BY Names
<1>n. {"tp", "sscratch", "t0", "a1", "sp"} \subseteq HartNames
  BY Names DEF Csrs
<1>1. /\ Machine(s1) /\ s1.m = s.m
      /\ s1.r["sscratch"] = s.r["tp"] /\ s1.r["tp"] = Address(CPU_VAR)
      /\ \A x \in HartNames \ {"tp", "sscratch"} : s1.r[x] = s.r[x]
  BY <1>n, SwapCsr
<1>. HIDE DEF s1
<1>2. /\ Machine(s2) /\ s2.r = s1.r
      /\ s2.m[CPU_VAR]["sscratch"] = s1.r["t0"]
      /\ s2.m[CPU_VAR]["cur_reg_base"] = Address(a)
      /\ \A t \in TCBs : s2.m[t] = s.m[t]
  <2>1. "sscratch" \in FieldsOf(CPU_VAR) /\ CPU_VAR \in Objects
        /\ "cur_reg_base" \in FieldsOf(CPU_VAR) \ {"sscratch"}
    BY Names
  <2>2. /\ Machine(s2) /\ s2.r = s1.r
        /\ s2.m[CPU_VAR]["sscratch"] = s1.r["t0"]
        /\ \A x \in FieldsOf(CPU_VAR) \ {"sscratch"} : s2.m[CPU_VAR][x] = s1.m[CPU_VAR][x]
        /\ \A p \in Objects \ {CPU_VAR} : s2.m[p] = s1.m[p]
    <3>1. OneField(s1, s2, CPU_VAR, "sscratch", s1.r["t0"])
      BY <1>1, <2>1, StoreOne
    <3>. HIDE DEF s2
    <3>. QED  BY <3>1 DEF OneField
  <2>. HIDE DEF s2
  <2>. QED  BY <1>1, <2>1, <2>2, Names
<1>. HIDE DEF s2
<1>3. OneRegister(s2, s3, "t0", Address(a))
  <2>1. OneRegister(s2, s3, "t0", s2.m[CPU_VAR]["cur_reg_base"])
    BY Zenon, <1>n, <1>1, <1>2, LoadOne
  <2>. QED  BY <1>2, <2>1
<1>. HIDE DEF s3
<1>4. Saving(s, s4, a, d4) /\ s4.r["sscratch"] = s.r["tp"]
  <2>1. /\ Machine(s3) /\ s3.m = s2.m /\ s3.r["t0"] = Address(a)
        /\ s3.r["tp"] = Address(CPU_VAR) /\ s3.r["sscratch"] = s.r["tp"]
        /\ \A x \in d4 \cup (Csrs \ {"sscratch"}) : s3.r[x] = s.r[x]
    <3>1. d4 \cup (Csrs \ {"sscratch"}) \subseteq HartNames \ {"tp", "sscratch", "t0"}
      BY Names DEF Csrs
    <3>. QED  BY <1>n, <1>1, <1>2, <1>3, <3>1 DEF OneRegister
  <2>2. /\ Machine(s4) /\ s4.r = s3.r
        /\ \A x \in FieldsOf(a) \cap d4 : s4.m[a][x] = s3.r[x]
        /\ \A p \in Objects \ {a} : s4.m[p] = s3.m[p]
    <3>1. SomeFields(s3, s4, a, d4)
      BY <2>1, Names, StoreAll
    <3>. HIDE DEF s4
    <3>. QED  BY <3>1 DEF SomeFields
  <2>. HIDE DEF s4
  <2>3. /\ s4.m[CPU_VAR] = s2.m[CPU_VAR] /\ \A t \in TCBs \ {a} : s4.m[t] = s.m[t]
        /\ \A x \in d4 : s4.m[a][x] = s.r[x]
    BY <1>2, <2>1, <2>2, <1>d, Names
  <2>4. s2.m[CPU_VAR]["sscratch"] = s.r["t0"]
    <3>1. "t0" \in HartNames \ {"tp", "sscratch"}
      BY <1>n
    <3>. QED  BY <1>1, <1>2, <3>1
  <2>. QED  BY <1>2, <2>1, <2>2, <2>3, <2>4 DEF Saving, Csrs
<1>. HIDE DEF s4, d4
<1>5. Saving(s, s5, a, d4) /\ s5.r["a1"] = s.r["sepc"] /\ s5.r["sscratch"] = s.r["tp"]
  <2>1. OneRegister(s4, s5, "a1", s4.r["sepc"]) /\ s4.r["sepc"] = s.r["sepc"]
    BY <1>n, <1>4, ReadCsr DEF Saving
  <2>. HIDE DEF s5
  <2>. QED  BY <1>4, <2>1, SavingRegister
<1>. HIDE DEF s5
<1>6. Saving(s, s6, a, d6) /\ s6.r["sscratch"] = s.r["tp"]
  <2>1. s6 = sd(s5, "a1", "sepc", "t0")
    OBVIOUS
  <2>. HIDE DEF s6
  <2>. QED  BY <1>5, <1>d, <1>f, <2>1, SavingStore
<1>. HIDE DEF s6, d6
<1>7. Saving(s, s7, a, d6) /\ s7.r["a1"] = s.r["sstatus"] /\ s7.r["sscratch"] = s.r["tp"]
  <2>1. OneRegister(s6, s7, "a1", s6.r["sstatus"]) /\ s6.r["sstatus"] = s.r["sstatus"]
    BY <1>n, <1>6, ReadCsr DEF Saving
  <2>. HIDE DEF s7
  <2>. QED  BY <1>6, <2>1, SavingRegister
<1>. HIDE DEF s7
<1>8. Saving(s, s8, a, d8) /\ s8.r["sscratch"] = s.r["tp"]
  <2>1. s8 = sd(s7, "a1", "sstatus", "t0")
    OBVIOUS
  <2>. HIDE DEF s8
  <2>. QED  BY <1>7, <1>d, <1>f, <2>1, SavingStore
<1>. HIDE DEF s8, d8

<1>9. /\ Saving(s, s9, a, d8) /\ s9.r["a1"] = s.r["tp"]
      /\ s9.r["sscratch"] = Address(CPU_VAR)
  <2>1. Machine(s8) /\ s8.r["tp"] = Address(CPU_VAR)
    BY <1>8 DEF Saving
  <2>2. /\ Machine(s9) /\ s9.m = s8.m
        /\ s9.r["sscratch"] = s8.r["tp"] /\ s9.r["a1"] = s8.r["sscratch"]
        /\ \A x \in HartNames \ {"a1", "sscratch"} : s9.r[x] = s8.r[x]
    BY <1>n, <2>1, SwapCsr
  <2>. HIDE DEF s9
  <2>3. {"tp", "t0", "sepc", "sstatus", "scause", "pc", "priv", "sie"}
          \subseteq HartNames \ {"a1", "sscratch"}
    BY Names DEF Csrs
  <2>4. \A x \in {"tp", "t0", "sepc", "sstatus", "scause", "pc", "priv", "sie"} : s9.r[x] = s8.r[x]
    BY <2>2, <2>3
  <2>. QED  BY <1>8, <2>1, <2>2, <2>4 DEF Saving
<1>. HIDE DEF s9
<1>10. Saving(s, s10, a, d10) /\ s10.r["sscratch"] = Address(CPU_VAR)
  <2>1. s10 = sd(s9, "a1", "tp", "t0")
    OBVIOUS
  <2>. HIDE DEF s10
  <2>. QED  BY <1>9, <1>d, <1>f, <2>1, SavingStore
<1>. HIDE DEF s10, d10
<1>11. /\ Saving(s, s11, a, d10) /\ s11.r["a1"] = s.r["t0"]
       /\ s11.r["sscratch"] = Address(CPU_VAR)
  <2>1. Machine(s10) /\ s10.r["tp"] = Address(CPU_VAR) /\ s10.m[CPU_VAR]["sscratch"] = s.r["t0"]
    BY <1>10 DEF Saving
  <2>2. OneRegister(s10, s11, "a1", s10.m[CPU_VAR]["sscratch"])
    BY <1>n, <2>1, LoadOne
  <2>. HIDE DEF s11
  <2>. QED  BY <1>10, <2>1, <2>2, SavingRegister
<1>. HIDE DEF s11
<1>12. Saving(s, s12, a, d12) /\ s12.r["sscratch"] = Address(CPU_VAR)
  <2>1. s12 = sd(s11, "a1", "t0", "t0")
    OBVIOUS
  <2>. HIDE DEF s12
  <2>. QED  BY <1>11, <1>d, <1>f, <2>1, SavingStore
<1>. HIDE DEF s12, d12
<1>13. Saving(s, s13, a, d12) /\ s13.r["sscratch"] = Address(CPU_VAR)
  <2>1. Machine(s12) /\ s12.r["tp"] = Address(CPU_VAR)
    BY <1>12 DEF Saving
  <2>2. OneRegister(s12, s13, "sp", s12.m[CPU_VAR]["sptop"])
    BY <1>n, <2>1, LoadOne
  <2>. HIDE DEF s13
  <2>. QED  BY <1>12, <2>2, SavingRegister
<1>. HIDE DEF s13
<1>14. /\ Saving(s, s14, a, d12) /\ s14.r["a1"] = s.r["scause"]
       /\ s14.r["sscratch"] = Address(CPU_VAR)
  <2>1. OneRegister(s13, s14, "a1", s13.r["scause"]) /\ s13.r["scause"] = s.r["scause"]
    BY <1>n, <1>13, ReadCsr DEF Saving
  <2>. HIDE DEF s14
  <2>. QED  BY <1>13, <2>1, SavingRegister
<1>. HIDE DEF s14
<1>15. Saving(s, n, a, d15) /\ n.r["sscratch"] = Address(CPU_VAR)
  <2>1. n = sd(s14, "a1", "scause", "t0")
    OBVIOUS
  <2>. HIDE DEF n
  <2>. QED  BY <1>14, <1>d, <1>f, <2>1, SavingStore
<1>. HIDE DEF n
<1>16. \A x \in GPR \cup {"sepc", "sstatus"} : n.m[a][x] = s.r[x]
  BY <1>15, <1>d DEF Saving
<1>17. /\ Machine(n) /\ n.m[CPU_VAR]["cur_reg_base"] = Address(a)
       /\ \A t \in TCBs \ {a} : n.m[t] = s.m[t]
  BY <1>15 DEF Saving
<1>. QED  BY Zenon, <1>0, <1>15, <1>16, <1>17

-----------------------------------------------------------------------------
(* return_to_user *)

\* While return_to_user runs: t0 points to the area of thread a, and the registers in
\* done have the values of that area.
Loading(s, n, a, done) ==
    /\ Machine(n) /\ n.m = s.m
    /\ n.r["t0"] = Address(a) /\ n.r["sscratch"] = s.r["sscratch"]
    /\ \A x \in done : n.r[x] = s.m[a][x]

\* An instruction that writes another register keeps that.
LEMMA LoadingRegister ==
    ASSUME NEW s, NEW n, NEW a, NEW done \in SUBSET HartNames, Loading(s, n, a, done),
           NEW k, NEW rd \in HartNames, rd \notin done, rd # "t0", rd # "sscratch", NEW value,
           OneRegister(n, k, rd, value)
    PROVE  Loading(s, k, a, done) /\ k.r[rd] = value
<1>1. /\ Machine(k) /\ k.m = n.m /\ k.r[rd] = value
      /\ k.r["t0"] = n.r["t0"] /\ k.r["sscratch"] = n.r["sscratch"]
      /\ \A x \in done : k.r[x] = n.r[x]
  <2>1. {"t0", "sscratch"} \cup done \subseteq HartNames \ {rd}
    BY Names DEF Csrs
  <2>. QED  BY <2>1 DEF OneRegister
<1>. QED  BY <1>1 DEF Loading

\* When the register gets its value of the area, it is loaded.
LEMMA LoadingMore ==
    ASSUME NEW s, NEW n, NEW a, NEW done \in SUBSET HartNames, Loading(s, n, a, done),
           NEW k, NEW rd \in HartNames, rd \notin done, rd # "t0", rd # "sscratch",
           OneRegister(n, k, rd, s.m[a][rd])
    PROVE  Loading(s, k, a, done \cup {rd})
<1>1. Loading(s, k, a, done) /\ k.r[rd] = s.m[a][rd]
  BY LoadingRegister
<1>. QED  BY <1>1 DEF Loading

\* return_to_user gives the hart the registers of the thread whose area t0 points to.
LEMMA ReturnLoads ==
    ASSUME NEW s, Machine(s), NEW a \in TCBs, s.r["t0"] = Address(a)
    PROVE  LET n == return_to_user(s)
           IN  /\ IsHart(n.r) /\ n.r["sscratch"] = s.r["sscratch"]
               /\ \A x \in GPR \cup {"sepc", "sstatus"} : n.r[x] = s.m[a][x]
<1>. DEFINE d1 == GPR \ {"t0", "t1"}
            s1 == ldAll(s, d1, "t0")
            s2 == ld(s1, "t1", "sepc", "t0")
            s3 == csrw(s2, "sepc", "t1")
            s4 == ld(s3, "t1", "sstatus", "t0")
            s5 == csrw(s4, "sstatus", "t1")
            s6 == ld(s5, "t1", "t1", "t0")
            n == ld(s6, "t0", "t0", "t0")
            d3 == d1 \cup {"sepc"}
            d5 == d3 \cup {"sstatus"}
            d6 == d5 \cup {"t1"}
<1>0. return_to_user(s) = n
  BY Zenon DEF return_to_user
<1>d. /\ d1 \in SUBSET HartNames /\ d3 \in SUBSET HartNames /\ d5 \in SUBSET HartNames
      /\ GPR \cup {"sepc", "sstatus"} \subseteq d6 \cup {"t0"}
      /\ d6 \in SUBSET HartNames
  BY Names DEF Csrs
<1>n. /\ "t1" \in HartNames /\ "t1" \notin d1 /\ "t1" \notin d3 /\ "t1" \notin d5
      /\ "sepc" \in HartNames /\ "sepc" \notin d1
      /\ "sstatus" \in HartNames /\ "sstatus" \notin d3
      /\ "t0" \in HartNames /\ "t0" \notin d6 /\ "sscratch" \in HartNames
  BY Names DEF Csrs
<1>1. Loading(s, s1, a, d1)
  <2>1. /\ Machine(s1) /\ s1.m = s.m
        /\ \A x \in HartNames \cap d1 : s1.r[x] = s.m[a][x]
        /\ \A x \in HartNames \ d1 : s1.r[x] = s.r[x]
    BY LoadAll
  <2>2. "t0" \in HartNames \ d1 /\ "sscratch" \in HartNames \ d1
    BY Names DEF Csrs
  <2>. HIDE DEF s1
  <2>. QED  BY <1>d, <2>1, <2>2 DEF Loading
<1>. HIDE DEF s1, d1
<1>2. Loading(s, s2, a, d1) /\ s2.r["t1"] = s.m[a]["sepc"]
  <2>1. OneRegister(s1, s2, "t1", s.m[a]["sepc"])
    BY <1>n, <1>1, LoadOne DEF Loading
  <2>. HIDE DEF s2
  <2>2. d1 \in SUBSET HartNames /\ "t1" \in HartNames /\ "t1" \notin d1
    BY <1>d, <1>n
  <2>. QED  BY <1>1, <2>1, <2>2, LoadingRegister
<1>. HIDE DEF s2
<1>3. Loading(s, s3, a, d3)
  <2>1. OneRegister(s2, s3, "sepc", s.m[a]["sepc"])
    BY <1>n, <1>2, ReadCsr DEF Loading
  <2>. HIDE DEF s3
  <2>. QED  BY <1>d, <1>n, <1>2, <2>1, LoadingMore
<1>. HIDE DEF s3, d3
<1>4. Loading(s, s4, a, d3) /\ s4.r["t1"] = s.m[a]["sstatus"]
  <2>1. OneRegister(s3, s4, "t1", s.m[a]["sstatus"])
    BY Zenon, <1>n, <1>3, LoadOne DEF Loading
  <2>. HIDE DEF s4
  <2>2. d3 \in SUBSET HartNames /\ "t1" \in HartNames /\ "t1" \notin d3
    BY <1>d, <1>n
  <2>. QED  BY <1>3, <2>1, <2>2, LoadingRegister
<1>. HIDE DEF s4
<1>5. Loading(s, s5, a, d5)
  <2>1. OneRegister(s4, s5, "sstatus", s.m[a]["sstatus"])
    BY <1>n, <1>4, ReadCsr DEF Loading
  <2>. HIDE DEF s5
  <2>. QED  BY <1>d, <1>n, <1>4, <2>1, LoadingMore
<1>. HIDE DEF s5, d5
<1>6. Loading(s, s6, a, d6)
  <2>1. OneRegister(s5, s6, "t1", s.m[a]["t1"])
    BY Zenon, <1>n, <1>5, LoadOne DEF Loading
  <2>. HIDE DEF s6
  <2>. QED  BY <1>d, <1>n, <1>5, <2>1, LoadingMore
<1>. HIDE DEF s6, d6
<1>7. OneRegister(s6, n, "t0", s6.m[a]["t0"]) /\ s6.m = s.m
  BY Zenon, <1>n, <1>6, LoadOne DEF Loading
<1>. HIDE DEF n
<1>8. /\ IsHart(n.r) /\ n.r["t0"] = s.m[a]["t0"] /\ n.r["sscratch"] = s.r["sscratch"]
      /\ \A x \in d6 : n.r[x] = s.m[a][x]
  <2>1. d6 \cup {"sscratch"} \subseteq HartNames \ {"t0"}
    BY <1>d, <1>n
  <2>. QED  BY <1>6, <1>7, <2>1 DEF OneRegister, Loading, Machine
<1>. QED  BY Zenon, <1>0, <1>8, <1>d

-----------------------------------------------------------------------------
(* The actions *)

\* The inductive invariant.  Between two traps sscratch points to CPU_VAR and
\* CPU_VAR to the registers of the current thread, and the status that is saved for
\* the idle thread returns to the mode it runs in.  A thread that makes a call stands
\* at its ecall.
TInv ==
    /\ IsHart(hart) /\ IsMem(mem)
    /\ CURRENT_PROC \in TCBs
    /\ mode \in {"user", "timer", "call", "fault", "leave"}
    /\ hart["sscratch"] = Address(CPU_VAR)
    /\ mem[CPU_VAR]["cur_reg_base"] = Address(CURRENT_PROC)
    /\ \A t \in TCBs : mem[t]["sstatus"] \in Statuses
    /\ mem[IDLE]["sstatus"] = Status("S", 1)
    /\ mode = "user" => Status(hart["priv"], hart["sie"]) \in Statuses
    /\ mode = "call" => CURRENT_PROC # IDLE /\ mem[CURRENT_PROC]["sepc"][2] = "sepc"
    /\ IdleInterruptible

\* A status is its two bits.
LEMMA StatusBits == \A s \in Statuses : Status(s[1], s[3]) = s
BY DEF Statuses, Status

\* What a trap does: the registers of the program go to its area.
TrapEffect ==
    /\ IsHart(hart') /\ IsMem(mem')
    /\ hart'["sscratch"] = Address(CPU_VAR)
    /\ mem'[CPU_VAR]["cur_reg_base"] = Address(CURRENT_PROC)
    /\ \A x \in GPR : mem'[CURRENT_PROC][x] = hart[x]
    /\ mem'[CURRENT_PROC]["sepc"] = hart["pc"]
    /\ mem'[CURRENT_PROC]["sstatus"] = Status(hart["priv"], hart["sie"])
    /\ \A t \in TCBs \ {CURRENT_PROC} : mem'[t] = mem[t]

\* trap_entry, behind what the processor does, has that effect.
LEMMA TrapSaves ==
    ASSUME TInv, NEW cause, Trap(cause)
    PROVE  TrapEffect
<1>. DEFINE s == [r |-> Trapped(cause), m |-> mem]
            n == trap_entry(s)
<1>1. /\ IsHart(Trapped(cause))
      /\ \A x \in GPR : Trapped(cause)[x] = hart[x]
      /\ Trapped(cause)["sepc"] = hart["pc"]
      /\ Trapped(cause)["sstatus"] = Status(hart["priv"], hart["sie"])
      /\ Trapped(cause)["sscratch"] = Address(CPU_VAR)
  <2>1. /\ IsHart(hart) /\ hart["sscratch"] = Address(CPU_VAR)
        /\ Csrs \subseteq HartNames /\ GPR \subseteq HartNames /\ GPR \cap Csrs = {}
    BY Names DEF TInv
  <2>. QED  BY Zenon, <2>1 DEF Trapped, IsHart, Csrs
<1>2. s.r = Trapped(cause) /\ s.m = mem
  OBVIOUS
<1>3. Machine(s) /\ CURRENT_PROC \in TCBs /\ s.m[CPU_VAR]["cur_reg_base"] = Address(CURRENT_PROC)
  BY <1>1, <1>2 DEF Machine, TInv
<1>4. /\ hart' = [x \in DOMAIN hart |-> IF x \in GPR THEN Junk ELSE n.r[x]]
      /\ mem' = n.m
  BY Zenon DEF Trap
<1>. HIDE DEF s
<1>5. /\ Machine(n)
      /\ n.r["sscratch"] = Address(CPU_VAR)
      /\ n.m[CPU_VAR]["cur_reg_base"] = Address(CURRENT_PROC)
      /\ \A x \in GPR \cup {"sepc", "sstatus"} : n.m[CURRENT_PROC][x] = s.r[x]
      /\ \A t \in TCBs \ {CURRENT_PROC} : n.m[t] = s.m[t]
  BY <1>1, <1>2, <1>3, TrapEntrySaves
<1>. HIDE DEF n
<1>6. IsHart(hart') /\ hart'["sscratch"] = Address(CPU_VAR)
  <2>1. DOMAIN hart = HartNames /\ "sscratch" \in HartNames /\ "sscratch" \notin GPR
    BY Names DEF TInv, IsHart, Csrs
  <2>. QED  BY <1>4, <1>5, <2>1 DEF IsHart
<1>7. /\ \A x \in GPR : mem'[CURRENT_PROC][x] = hart[x]
      /\ mem'[CURRENT_PROC]["sepc"] = hart["pc"]
      /\ mem'[CURRENT_PROC]["sstatus"] = Status(hart["priv"], hart["sie"])
  BY <1>1, <1>2, <1>4, <1>5
<1>. QED  BY <1>2, <1>4, <1>5, <1>6, <1>7 DEF TrapEffect, Machine

\* A trap keeps the invariant.
LEMMA TrapKeeps ==
    ASSUME TInv, NEW cause \in {"timer", "call", "fault"}, Trap(cause),
           cause = "call" => CURRENT_PROC # IDLE /\ hart["pc"][2] = "sepc"
    PROVE  TInv'
<1>1. TrapEffect
  BY TrapSaves
<1>2. mode = "user" /\ mode' = cause /\ CURRENT_PROC' = CURRENT_PROC
  BY DEF Trap
<1>3. \A t \in TCBs : mem'[t]["sstatus"] \in Statuses
  <2>. SUFFICES ASSUME NEW t \in TCBs PROVE mem'[t]["sstatus"] \in Statuses
    OBVIOUS
  <2>1. CASE t = CURRENT_PROC
    BY <1>1, <1>2, <2>1 DEF TrapEffect, TInv
  <2>2. CASE t # CURRENT_PROC
    BY <1>1, <2>2 DEF TrapEffect, TInv
  <2>. QED  BY <2>1, <2>2
<1>4. mem'[IDLE]["sstatus"] = Status("S", 1)
  <2>1. CASE CURRENT_PROC = IDLE
    <3>1. hart["priv"] = "S" /\ hart["sie"] = 1
      BY <1>2, <2>1 DEF TInv, IdleInterruptible
    <3>. QED  BY <1>1, <2>1, <3>1 DEF TrapEffect
  <2>2. CASE CURRENT_PROC # IDLE
    BY <1>1, <2>2 DEF TrapEffect, TInv, TCBs
  <2>. QED  BY <2>1, <2>2
<1>5. mode' = "call" => CURRENT_PROC' # IDLE /\ mem'[CURRENT_PROC']["sepc"][2] = "sepc"
  BY <1>1, <1>2 DEF TrapEffect
<1>6. IdleInterruptible'
  BY <1>2 DEF IdleInterruptible
<1>7. CURRENT_PROC' \in TCBs /\ mode' \in {"timer", "call", "fault"}
  BY <1>2 DEF TInv
<1>. QED  BY <1>1, <1>2, <1>3, <1>4, <1>5, <1>6, <1>7 DEF TInv, TrapEffect

\* What return_to_user does: the hart gets the registers of the current thread.
ReturnEffect ==
    /\ IsHart(hart') /\ hart'["sscratch"] = hart["sscratch"]
    /\ \A x \in GPR : hart'[x] = mem[CURRENT_PROC][x]
    /\ hart'["pc"] = mem[CURRENT_PROC]["sepc"]
    /\ hart'["priv"] = mem[CURRENT_PROC]["sstatus"][1]
    /\ hart'["sie"] = mem[CURRENT_PROC]["sstatus"][3]

\* return_to_user has that effect.
LEMMA ReturnRestores ==
    ASSUME TInv, ReturnToUser
    PROVE  ReturnEffect
<1>. DEFINE start == [hart EXCEPT !["t0"] = Address(CURRENT_PROC)]
            s == [r |-> start, m |-> mem]
            after == return_to_user(s).r
<1>1. IsHart(hart) /\ "t0" \in HartNames /\ "sscratch" \in HartNames
  BY Names DEF TInv, Csrs
<1>2. IsHart(start) /\ start["t0"] = Address(CURRENT_PROC) /\ start["sscratch"] = hart["sscratch"]
  BY <1>1 DEF IsHart
<1>3. hart' = [after EXCEPT !["pc"] = after["sepc"],
                            !["priv"] = after["sstatus"][1], !["sie"] = after["sstatus"][3],
                            !["sstatus"] = Status("U", 1)]
  BY Zenon DEF ReturnToUser
<1>. HIDE DEF start
<1>4. s.r = start /\ s.m = mem /\ CURRENT_PROC \in TCBs /\ IsMem(mem)
  BY DEF TInv
<1>5. Machine(s) /\ s.r["t0"] = Address(CURRENT_PROC)
  BY <1>2, <1>4 DEF Machine
<1>. HIDE DEF s
<1>6. /\ IsHart(after) /\ after["sscratch"] = s.r["sscratch"]
      /\ \A x \in GPR \cup {"sepc", "sstatus"} : after[x] = s.m[CURRENT_PROC][x]
  BY <1>4, <1>5, ReturnLoads
<1>. HIDE DEF after
<1>7. Csrs \subseteq HartNames /\ GPR \subseteq HartNames /\ GPR \cap Csrs = {}
  BY Names
<1>8. /\ IsHart(hart') /\ hart'["sscratch"] = after["sscratch"]
      /\ \A x \in GPR : hart'[x] = after[x]
      /\ hart'["pc"] = after["sepc"]
      /\ hart'["priv"] = after["sstatus"][1] /\ hart'["sie"] = after["sstatus"][3]
  BY Zenon, <1>3, <1>6, <1>7 DEF IsHart, Csrs
<1>. QED  BY <1>2, <1>4, <1>6, <1>8 DEF ReturnEffect

\* It keeps the invariant.
LEMMA ReturnKeeps ==
    ASSUME TInv, ReturnToUser
    PROVE  TInv'
<1>1. ReturnEffect
  BY ReturnRestores
<1>2. mode' = "user" /\ CURRENT_PROC' = CURRENT_PROC /\ mem' = mem
  BY DEF ReturnToUser
<1>3. IdleInterruptible'
  BY <1>1, <1>2 DEF ReturnEffect, TInv, IdleInterruptible, Status
<1>4. mode' = "call" => CURRENT_PROC' # IDLE /\ mem'[CURRENT_PROC']["sepc"][2] = "sepc"
  BY <1>2
<1>5. Status(hart'["priv"], hart'["sie"]) \in Statuses
  <2>1. mem[CURRENT_PROC]["sstatus"] \in Statuses
    BY DEF TInv
  <2>. QED  BY <1>1, <2>1, StatusBits DEF ReturnEffect
<1>. QED  BY <1>1, <1>2, <1>3, <1>4, <1>5 DEF TInv, ReturnEffect

\* schedule with the memory m: some thread is current afterwards, CPU_VAR names its
\* area, and no area changes.
ScheduleEffect(m) ==
    /\ CURRENT_PROC' \in TCBs /\ IsMem(mem')
    /\ mem'[CPU_VAR]["cur_reg_base"] = Address(CURRENT_PROC')
    /\ \A t \in TCBs : mem'[t] = m[t]

\* schedule has that effect, whether or not the thread changes.
LEMMA ScheduleSwitches ==
    ASSUME NEW m, IsMem(m), m[CPU_VAR]["cur_reg_base"] = Address(CURRENT_PROC), schedule(m)
    PROVE  ScheduleEffect(m)
<1>1. PICK next \in TCBs : /\ CURRENT_PROC' = next
                           /\ mem' = IF next = CURRENT_PROC THEN m ELSE SwitchTo(next, m)
  BY DEF schedule
<1>2. CASE next = CURRENT_PROC
  BY <1>1, <1>2 DEF ScheduleEffect
<1>3. CASE next # CURRENT_PROC
  <2>. DEFINE area == [m[CPU_VAR] EXCEPT !["cur_reg_base"] = Address(next)]
  <2>1. mem' = [m EXCEPT ![CPU_VAR] = area]
    BY <1>1, <1>3 DEF SwitchTo
  <2>2. m[CPU_VAR] = [x \in FieldsOf(CPU_VAR) |-> m[CPU_VAR][x]] /\ "cur_reg_base" \in FieldsOf(CPU_VAR)
        /\ CPU_VAR \in Objects
    BY Zenon, Names DEF IsMem
  <2>3. area = [x \in FieldsOf(CPU_VAR) |-> area[x]] /\ area["cur_reg_base"] = Address(next)
    BY <2>2
  <2>. HIDE DEF area
  <2>4. IsMem(mem') /\ mem'[CPU_VAR] = area /\ \A p \in Objects \ {CPU_VAR} : mem'[p] = m[p]
    <3>1. Replaced(m, mem', CPU_VAR, area)
      BY Zenon, <2>1, <2>2, <2>3, NewArea
    <3>. QED  BY <3>1 DEF Replaced
  <2>. QED  BY <1>1, <2>3, <2>4, Names DEF ScheduleEffect
<1>. QED  BY <1>2, <1>3

\* A tick keeps the invariant.
LEMMA TimerKeeps ==
    ASSUME TInv, HandleTimer
    PROVE  TInv' /\ ScheduleEffect(mem)
<1>1. mode' = "leave" /\ hart' = hart /\ schedule(mem)
  BY DEF HandleTimer
<1>2. ScheduleEffect(mem)
  BY <1>1, ScheduleSwitches DEF TInv
<1>3. (\A t \in TCBs : mem'[t]["sstatus"] \in Statuses) /\ mem'[IDLE]["sstatus"] = Status("S", 1)
  BY <1>2 DEF ScheduleEffect, TInv, TCBs
<1>4. IdleInterruptible' /\ (mode' = "call" => CURRENT_PROC' # IDLE /\ mem'[CURRENT_PROC']["sepc"][2] = "sepc")
  BY <1>1 DEF IdleInterruptible
<1>. QED  BY <1>1, <1>2, <1>3, <1>4 DEF TInv, ScheduleEffect

\* The memory n is m with a new value for one register of a thread.
OneValue(m, n, t, field, value) ==
    /\ IsMem(n) /\ n[t][field] = value
    /\ \A x \in Fields \ {field} : n[t][x] = m[t][x]
    /\ \A p \in Objects \ {t} : n[p] = m[p]

\* A write to a register of one thread.
LEMMA SetRegister ==
    ASSUME NEW m, IsMem(m), NEW t \in TCBs, NEW field \in Fields, NEW value
    PROVE  OneValue(m, [m EXCEPT ![t][field] = value], t, field, value)
<1>. DEFINE area == [m[t] EXCEPT ![field] = value]
            n == [m EXCEPT ![t] = area]
<1>1. t \in Objects /\ m[t] = [x \in Fields |-> m[t][x]] /\ FieldsOf(t) = Fields
  BY Zenon, Names DEF IsMem
<1>2. /\ area = [x \in FieldsOf(t) |-> area[x]] /\ area[field] = value
      /\ \A x \in Fields \ {field} : area[x] = m[t][x]
  BY <1>1
<1>. HIDE DEF area
<1>3. IsMem(n) /\ n[t] = area /\ \A p \in Objects \ {t} : n[p] = m[p]
  <2>1. Replaced(m, n, t, area)
    BY <1>1, <1>2, NewArea
  <2>. HIDE DEF n
  <2>. QED  BY <2>1 DEF Replaced
<1>. HIDE DEF n
<1>4. [m EXCEPT ![t][field] = value] = n
  BY DEF n, area
<1>5. OneValue(m, n, t, field, value)
  BY <1>2, <1>3 DEF OneValue
<1>. QED  BY Zenon, <1>4, <1>5

\* What the invocation of a call leaves: the registers of one thread may be new.
InvocationEffect(m, target) ==
    /\ IsMem(m) /\ target \in TCBs
    /\ m[CPU_VAR] = mem[CPU_VAR]
    /\ \A t \in TCBs \ {target} : m[t] = mem[t]
    /\ \A t \in TCBs : m[t]["sstatus"] \in Statuses
    /\ m[IDLE]["sstatus"] = Status("S", 1)
    /\ m[CURRENT_PROC]["sepc"][2] = "sepc"

\* set_registers and the set_registers of one register have that effect.
LEMMA Invoked ==
    ASSUME TInv, mode = "call", NEW m \in Invocations
    PROVE  \E target \in TCBs : InvocationEffect(m, target)
<1>1. /\ IsMem(mem) /\ CURRENT_PROC \in TCBs
      /\ \A t \in TCBs : mem[t]["sstatus"] \in Statuses
      /\ mem[IDLE]["sstatus"] = Status("S", 1)
      /\ mem[CURRENT_PROC]["sepc"][2] = "sepc"
  BY DEF TInv
<1>2. \A t \in Threads : t \in TCBs /\ t # IDLE
  BY TrapAssumption DEF TCBs
<1>3. CASE m = mem
  <2>1. InvocationEffect(mem, CURRENT_PROC)
    BY <1>1 DEF InvocationEffect
  <2>. QED  BY <1>1, <1>3, <2>1
<1>4. CASE \E t \in Threads, n \in Versions, st \in Statuses : m = [mem EXCEPT ![t] = File(t, n, st)]
  <2>0. PICK t \in Threads, n \in Versions, st \in Statuses : m = [mem EXCEPT ![t] = File(t, n, st)]
    BY Zenon, <1>4
  <2>. DEFINE file == File(t, n, st)
  <2>1. m = [mem EXCEPT ![t] = file]
    BY <2>0
  <2>2. t \in TCBs /\ t \in Objects /\ FieldsOf(t) = Fields /\ t # CPU_VAR
    BY <1>2, Names
  <2>3. /\ file = [x \in FieldsOf(t) |-> file[x]]
        /\ file["sstatus"] \in Statuses
        /\ file["sepc"][2] = "sepc"
    <3>1. "sstatus" \in Fields /\ "sepc" \in Fields /\ "sstatus" \notin GPR \cup {"sepc"}
      BY Names DEF Csrs
    <3>. QED  BY <2>2, <3>1 DEF File
  <2>. HIDE DEF file
  <2>4. IsMem(m) /\ m[t] = file /\ \A p \in Objects \ {t} : m[p] = mem[p]
    <3>1. Replaced(mem, m, t, file)
      BY Zenon, <1>1, <2>1, <2>2, <2>3, NewArea
    <3>. QED  BY <3>1 DEF Replaced
  <2>5. m[CPU_VAR] = mem[CPU_VAR] /\ \A p \in TCBs \ {t} : m[p] = mem[p]
    BY <2>2, <2>4, Names
  <2>6. InvocationEffect(m, t)
    BY <1>1, <1>2, <2>2, <2>3, <2>4, <2>5 DEF InvocationEffect, TCBs
  <2>. QED  BY <2>2, <2>6
<1>5. CASE \E t \in Threads : m = [mem EXCEPT ![t]["a1"] = <<t, "badge", 0>>]
  <2>1. PICK t \in Threads : m = [mem EXCEPT ![t]["a1"] = <<t, "badge", 0>>]
    BY Zenon, <1>5
  <2>2. /\ t \in TCBs /\ t \in Objects /\ t # CPU_VAR /\ "a1" \in Fields
        /\ "sstatus" \in Fields \ {"a1"} /\ "sepc" \in Fields \ {"a1"}
    BY <1>2, Names
  <2>3. /\ IsMem(m) /\ \A x \in Fields \ {"a1"} : m[t][x] = mem[t][x]
        /\ \A p \in Objects \ {t} : m[p] = mem[p]
    <3>1. OneValue(mem, m, t, "a1", <<t, "badge", 0>>)
      BY Zenon, <1>1, <2>1, <2>2, SetRegister
    <3>. QED  BY <3>1 DEF OneValue
  <2>4. m[CPU_VAR] = mem[CPU_VAR] /\ \A p \in TCBs \ {t} : m[p] = mem[p]
    BY <2>2, <2>3, Names
  <2>5. InvocationEffect(m, t)
    BY <1>1, <1>2, <2>2, <2>3, <2>4 DEF InvocationEffect, TCBs
  <2>. QED  BY <2>2, <2>5
<1>. QED  BY <1>3, <1>4, <1>5 DEF Invocations

\* What a system call does, down to the next thread: the caller gets its result, and
\* one other thread at most new registers.
CallEffect(target) ==
    /\ target \in TCBs
    /\ \A t \in TCBs \ {target, CURRENT_PROC} : mem'[t] = mem[t]
    /\ target # CURRENT_PROC =>
        \A x \in Fields \ {"a0", "a1", "sepc"} : mem'[CURRENT_PROC][x] = mem[CURRENT_PROC][x]
    /\ mem'[CURRENT_PROC]["sepc"][2] = "sepc+4"

\* handle_syscall has that effect, and keeps the invariant.
LEMMA CallKeeps ==
    ASSUME TInv, HandleSyscall
    PROVE  TInv' /\ \E target \in TCBs : CallEffect(target)
<1>. DEFINE c == CURRENT_PROC
            result == <<c, "result", 0>>
<1>1. mode = "call" /\ mode' = "leave" /\ hart' = hart /\ mem[CPU_VAR]["cur_reg_base"][1] = c
  BY DEF HandleSyscall, TInv, Address
<1>2. PICK m \in Invocations :
        \E a1 \in {m[c]["a1"], result} :
            schedule([m EXCEPT ![c]["a0"] = result, ![c]["a1"] = a1,
                               ![c]["sepc"] = Advance(m[c]["sepc"])])
  BY Zenon, <1>1 DEF HandleSyscall
<1>a. PICK a1 : schedule([m EXCEPT ![c]["a0"] = result, ![c]["a1"] = a1,
                                   ![c]["sepc"] = Advance(m[c]["sepc"])])
  BY Zenon, <1>2
<1>3. PICK target \in TCBs : InvocationEffect(m, target)
  BY <1>1, <1>2, Invoked
<1>. DEFINE m1 == [m EXCEPT ![c]["a0"] = result]
            m2 == [m1 EXCEPT ![c]["a1"] = a1]
            m3 == [m2 EXCEPT ![c]["sepc"] = Advance(m[c]["sepc"])]
<1>4. schedule(m3)
  BY Zenon, <1>a
<1>5. /\ c \in TCBs /\ IsMem(m) /\ c \in Objects /\ c # CPU_VAR /\ c # IDLE
      /\ "a0" \in Fields /\ "a1" \in Fields /\ "sepc" \in Fields
  BY <1>1, <1>3, Names DEF TInv, InvocationEffect
<1>. HIDE DEF result, c
<1>6. OneValue(m, m1, c, "a0", result)
  BY <1>5, SetRegister
<1>. HIDE DEF m1
<1>7. OneValue(m1, m2, c, "a1", a1)
  <2>1. IsMem(m1)
    BY <1>6 DEF OneValue
  <2>. QED  BY <1>5, <2>1, SetRegister
<1>. HIDE DEF m2
<1>8. OneValue(m2, m3, c, "sepc", Advance(m[c]["sepc"]))
  <2>1. IsMem(m2)
    BY <1>7 DEF OneValue
  <2>. QED  BY <1>5, <2>1, SetRegister
<1>. HIDE DEF m3
<1>9. /\ IsMem(m3) /\ m3[CPU_VAR] = m[CPU_VAR]
      /\ \A t \in TCBs \ {c} : m3[t] = m[t]
      /\ \A x \in Fields \ {"a0", "a1", "sepc"} : m3[c][x] = m[c][x]
      /\ m3[c]["sepc"][2] = "sepc+4"
  <2>1. \A p \in Objects \ {c} : m3[p] = m[p]
    BY <1>6, <1>7, <1>8 DEF OneValue
  <2>2. \A x \in Fields \ {"a0", "a1", "sepc"} : m3[c][x] = m[c][x]
    BY <1>6, <1>7, <1>8 DEF OneValue
  <2>3. m3[c]["sepc"][2] = "sepc+4"
    BY <1>8 DEF OneValue, Advance
  <2>. QED  BY <1>5, <1>8, <2>1, <2>2, <2>3, Names DEF OneValue
<1>10. ScheduleEffect(m3)
  <2>1. m3[CPU_VAR]["cur_reg_base"] = Address(CURRENT_PROC)
    BY <1>3, <1>9 DEF InvocationEffect, TInv
  <2>. QED  BY <1>4, <1>9, <2>1, ScheduleSwitches
<1>11. \A t \in TCBs : mem'[t]["sstatus"] \in Statuses
  <2>. SUFFICES ASSUME NEW t \in TCBs PROVE mem'[t]["sstatus"] \in Statuses
    OBVIOUS
  <2>1. m[t]["sstatus"] \in Statuses /\ "sstatus" \in Fields \ {"a0", "a1", "sepc"}
    BY <1>3, Names DEF InvocationEffect
  <2>2. mem'[t] = m3[t]
    BY <1>10 DEF ScheduleEffect
  <2>3. m3[t]["sstatus"] = m[t]["sstatus"]
    BY <1>9, <2>1
  <2>. QED  BY <2>1, <2>2, <2>3
<1>12. mem'[IDLE]["sstatus"] = Status("S", 1)
  BY <1>3, <1>5, <1>9, <1>10 DEF ScheduleEffect, InvocationEffect, TCBs
<1>13. TInv'
  <2>1. IdleInterruptible' /\ (mode' = "call" => CURRENT_PROC' # IDLE /\ mem'[CURRENT_PROC']["sepc"][2] = "sepc")
    BY <1>1 DEF IdleInterruptible
  <2>. QED  BY <1>1, <1>10, <1>11, <1>12, <2>1 DEF TInv, ScheduleEffect
<1>14. CallEffect(target)
  <2>1. \A t \in TCBs \ {target, c} : mem'[t] = mem[t]
    BY <1>3, <1>9, <1>10 DEF ScheduleEffect, InvocationEffect
  <2>2. ASSUME target # c
        PROVE  \A x \in Fields \ {"a0", "a1", "sepc"} : mem'[c][x] = mem[c][x]
    <3>1. m[c] = mem[c] /\ mem'[c] = m3[c]
      BY <1>3, <1>5, <1>10, <2>2 DEF ScheduleEffect, InvocationEffect
    <3>. QED  BY <1>9, <3>1
  <2>3. mem'[c]["sepc"][2] = "sepc+4"
    BY <1>5, <1>9, <1>10 DEF ScheduleEffect
  <2>. QED  BY <2>1, <2>2, <2>3 DEF CallEffect, c
<1>. QED  BY <1>13, <1>14

\* A step of a program changes the registers of the hart only, and not its mode.
OwnRegisters ==
    /\ mode = "user" /\ mode' = mode /\ CURRENT_PROC' = CURRENT_PROC /\ mem' = mem
    /\ hart'["priv"] = hart["priv"] /\ hart'["sie"] = hart["sie"]

\* A program computes and the idle thread goes on: the invariant is kept.
LEMMA ProgramKeeps ==
    ASSUME TInv, Compute \/ idle
    PROVE  TInv' /\ OwnRegisters
<1>1. mode = "user" /\ mode' = mode /\ CURRENT_PROC' = CURRENT_PROC /\ mem' = mem
  BY DEF Compute, idle
<1>2. /\ IsHart(hart) /\ Csrs \subseteq HartNames /\ GPR \subseteq HartNames
      /\ GPR \cap Csrs = {} /\ "ra" \in GPR
  BY Names DEF TInv
<1>3. /\ IsHart(hart') /\ hart'["sscratch"] = hart["sscratch"] /\ hart'["priv"] = hart["priv"]
      /\ hart'["sie"] = hart["sie"]
  <2>1. CASE Compute
    BY <1>2, <2>1 DEF Compute, IsHart, Csrs
  <2>2. CASE idle
    <3>1. hart["sie"] = 1
      BY <2>2 DEF idle, TInv, IdleInterruptible
    <3>. QED  BY <1>2, <2>2, <3>1 DEF idle, IsHart, Csrs
  <2>. QED  BY <2>1, <2>2
<1>4. IdleInterruptible'
  BY <1>1, <1>3 DEF TInv, IdleInterruptible
<1>5. OwnRegisters
  BY <1>1, <1>3 DEF OwnRegisters
<1>. QED  BY <1>3, <1>4, <1>5 DEF TInv, OwnRegisters

\* What the boot code leaves satisfies the invariant.
LEMMA InitTInv == Init => TInv
<1>. SUFFICES ASSUME Init PROVE TInv
  OBVIOUS
<1>1. IsHart(hart) /\ hart["sscratch"] = Address(CPU_VAR)
  <2>1. /\ Csrs \subseteq HartNames /\ GPR \cap Csrs = {}
    BY Names
  <2>. DEFINE csrs == [sepc |-> Zero, scause |-> Zero, sstatus |-> Status("S", 0), pc |-> Junk,
                       sscratch |-> Address(CPU_VAR), priv |-> "S", sie |-> 0]
  <2>2. DOMAIN csrs = Csrs /\ csrs["sscratch"] = Address(CPU_VAR)
    BY DEF Csrs
  <2>3. hart = [x \in GPR \cup DOMAIN csrs |-> IF x \in GPR THEN Junk ELSE csrs[x]]
    BY Zenon DEF Init
  <2>. HIDE DEF csrs
  <2>. QED  BY <2>1, <2>2, <2>3 DEF IsHart, HartNames, Csrs
<1>2. /\ mem = [o \in Objects |-> mem[o]]
      /\ mem[CPU_VAR] = [sptop |-> StackTop, sscratch |-> Zero, cur_reg_base |-> Address(Root)]
      /\ mem[IDLE] = create_idle_thread /\ mem[Root] = create_root_tcb
      /\ \A t \in Threads \ {Root} : mem[t] = null
  BY Zenon, TrapAssumption DEF Init, Objects, TCBs
<1>3. /\ null = [x \in Fields |-> null[x]] /\ null["sstatus"] = Status("U", 0)
      /\ {"sepc", "sp", "a0", "sstatus"} \subseteq Fields
  BY Names DEF null
<1>4. /\ create_idle_thread = [x \in Fields |-> create_idle_thread[x]]
      /\ create_idle_thread["sstatus"] = Status("S", 1)
      /\ create_root_tcb = [x \in Fields |-> create_root_tcb[x]]
      /\ create_root_tcb["sstatus"] = Status("U", 1)
  BY Zenon, <1>3 DEF create_idle_thread, create_root_tcb, IdleStatus
<1>5. \A t \in TCBs : t \in Threads \ {Root} \/ t = Root \/ t = IDLE
  BY DEF TCBs
<1>6. ASSUME NEW o \in Objects PROVE mem[o] = [x \in FieldsOf(o) |-> mem[o][x]]
  <2>1. CASE o = CPU_VAR
    BY <1>2, <2>1, Names
  <2>2. CASE o \in TCBs
    <3>1. mem[o] = [x \in Fields |-> mem[o][x]]
      BY <1>2, <1>3, <1>4, <1>5, <2>2
    <3>. QED  BY <2>2, <3>1, Names
  <2>. QED  BY <2>1, <2>2 DEF Objects
<1>7. IsMem(mem)
  BY <1>2, <1>6 DEF IsMem
<1>8. /\ \A t \in TCBs : mem[t]["sstatus"] \in Statuses
      /\ mem[IDLE]["sstatus"] = Status("S", 1)
  <2>1. Status("U", 0) \in Statuses /\ Status("U", 1) \in Statuses /\ Status("S", 1) \in Statuses
    BY DEF Statuses
  <2>. QED  BY <1>2, <1>3, <1>4, <1>5, <2>1
<1>9. /\ CURRENT_PROC = Root /\ Root \in TCBs /\ mode = "leave"
      /\ mem[CPU_VAR]["cur_reg_base"] = Address(Root)
  BY <1>2, TrapAssumption DEF Init, TCBs
<1>. QED  BY <1>1, <1>7, <1>8, <1>9 DEF TInv, IdleInterruptible

\* The invariant is inductive.
LEMMA TInvInductive == TInv /\ [Next]_vars => TInv'
<1>1. ASSUME TInv, TimerInterrupt PROVE TInv'
  BY <1>1, TrapKeeps DEF TimerInterrupt
<1>2. ASSUME TInv, Ecall PROVE TInv'
  BY <1>2, TrapKeeps DEF Ecall
<1>3. ASSUME TInv, Fault PROVE TInv'
  BY <1>3, TrapKeeps DEF Fault
<1>4. ASSUME TInv, UNCHANGED vars PROVE TInv'
  BY <1>4 DEF vars, TInv, IdleInterruptible
<1>. QED  BY <1>1, <1>2, <1>3, <1>4, TimerKeeps, CallKeeps, ReturnKeeps, ProgramKeeps DEF Next

\* Every reachable state satisfies it.
LEMMA TInvHolds == Spec => []TInv
BY InitTInv, TInvInductive, PTL DEF Spec

\* The idle thread runs in supervisor mode with interrupts on, whatever traps, calls
\* and switches happen and whatever set_registers gives to threads (IdleInterruptible).
THEOREM IdleCorrect == Spec => []IdleInterruptible
<1>1. TInv => IdleInterruptible
  BY DEF TInv
<1>. QED  BY <1>1, TInvHolds, PTL

-----------------------------------------------------------------------------
(* The refinement: what the trap code promises the threads *)

\* A thread that runs is seen in the hart, all others in their areas.
LEMMA ContextIs ==
    ASSUME NEW t \in TCBs
    PROVE  /\ mode = "user" /\ t = CURRENT_PROC => Context[t] = [x \in Seen |-> Live(x)]
           /\ ~(mode = "user" /\ t = CURRENT_PROC) => Context[t] = [x \in Seen |-> mem[t][x]]
BY DEF Context

\* The same in the state behind a step.
LEMMA ContextIsNext ==
    ASSUME NEW t \in TCBs
    PROVE  /\ mode' = "user" /\ t = CURRENT_PROC' => Context'[t] = [x \in Seen |-> Live(x)']
           /\ ~(mode' = "user" /\ t = CURRENT_PROC') => Context'[t] = [x \in Seen |-> mem'[t][x]]
BY DEF Context

\* One register of a thread, while none runs and while it runs.
LEMMA ContextAt ==
    ASSUME NEW t \in TCBs, NEW x \in Seen
    PROVE  /\ mode # "user" => Context[t][x] = mem[t][x]
           /\ mode = "user" /\ t = CURRENT_PROC => Context[t][x] = Live(x)
BY DEF Context

\* The same in the state behind a step.
LEMMA ContextAtNext ==
    ASSUME NEW t \in TCBs, NEW x \in Seen
    PROVE  /\ mode' # "user" => Context'[t][x] = mem'[t][x]
           /\ mode' = "user" /\ t = CURRENT_PROC' => Context'[t][x] = Live(x)'
BY DEF Context

\* Two states agree on all registers when they do so thread by thread.
LEMMA ContextStays ==
    ASSUME \A t \in TCBs : Context'[t] = Context[t]
    PROVE  Context' = Context
<1>1. /\ Context = [t \in TCBs |-> Context[t]]
      /\ Context' = [t \in TCBs |-> Context'[t]]
  BY Zenon DEF Context
<1>. HIDE DEF Context
<1>. QED  BY <1>1

\* A trap is an Enter step: it changes no register that a program sees.
LEMMA EnterStep ==
    ASSUME TInv, NEW cause \in {"timer", "call", "fault"}, Trap(cause)
    PROVE  Registers!Enter
<1>1. TrapEffect
  BY TrapSaves
<1>2. mode = "user" /\ mode' = cause /\ CURRENT_PROC' = CURRENT_PROC
  BY DEF Trap
<1>3. ASSUME NEW t \in TCBs PROVE Context'[t] = Context[t]
  <2>1. Context'[t] = [x \in Seen |-> mem'[t][x]]
    BY Zenon, <1>2, ContextIsNext
  <2>2. CASE t = CURRENT_PROC
    <3>1. Context[t] = [x \in Seen |-> Live(x)]
      BY Zenon, <1>2, <2>2, ContextIs
    <3>2. \A x \in Seen : mem'[t][x] = Live(x)
      BY <1>1, <2>2, Names DEF TrapEffect, Seen, Live, Csrs
    <3>. QED  BY <2>1, <3>1, <3>2
  <2>3. CASE t # CURRENT_PROC
    <3>1. Context[t] = [x \in Seen |-> mem[t][x]]
      BY Zenon, <2>3, ContextIs
    <3>. QED  BY <1>1, <2>1, <2>3, <3>1 DEF TrapEffect
  <2>. QED  BY <2>2, <2>3
<1>4. Context' = Context
  BY <1>3, ContextStays
<1>. QED  BY <1>2, <1>4 DEF Registers!Enter

\* return_to_user is a Leave step.
LEMMA LeaveStep ==
    ASSUME TInv, ReturnToUser
    PROVE  Registers!Leave
<1>1. ReturnEffect
  BY ReturnRestores
<1>2. mode = "leave" /\ mode' = "user" /\ CURRENT_PROC' = CURRENT_PROC /\ mem' = mem
  BY DEF ReturnToUser
<1>3. ASSUME NEW t \in TCBs PROVE Context'[t] = Context[t]
  <2>1. Context[t] = [x \in Seen |-> mem[t][x]]
    BY <1>2, ContextIs
  <2>2. CASE t = CURRENT_PROC
    <3>1. Context'[t] = [x \in Seen |-> Live(x)']
      BY Zenon, <1>2, <2>2, ContextIsNext
    <3>2. mem[t]["sstatus"] = Status(hart'["priv"], hart'["sie"])
      <4>1. mem[t]["sstatus"] \in Statuses
        BY DEF TInv
      <4>. QED  BY <1>1, <2>2, <4>1, StatusBits DEF ReturnEffect
    <3>3. \A x \in Seen : mem[t][x] = Live(x)'
      BY Zenon, <1>1, <2>2, <3>2, Names DEF ReturnEffect, Seen, Live, Csrs
    <3>. QED  BY <2>1, <3>1, <3>3
  <2>3. CASE t # CURRENT_PROC
    <3>1. Context'[t] = [x \in Seen |-> mem'[t][x]]
      BY Zenon, <1>2, <2>3, ContextIsNext
    <3>. QED  BY <1>2, <2>1, <3>1
  <2>. QED  BY <2>2, <2>3
<1>4. Context' = Context
  BY <1>3, ContextStays
<1>. QED  BY <1>2, <1>4 DEF Registers!Leave

\* A tick is a Preempt step, whichever thread is next.
LEMMA PreemptStep ==
    ASSUME TInv, HandleTimer
    PROVE  Registers!Preempt
<1>1. ScheduleEffect(mem) /\ mode = "timer" /\ mode' = "leave"
  BY TimerKeeps DEF HandleTimer
<1>2. ASSUME NEW t \in TCBs PROVE Context'[t] = Context[t]
  <2>1. Context[t] = [x \in Seen |-> mem[t][x]] /\ Context'[t] = [x \in Seen |-> mem'[t][x]]
    BY <1>1, ContextIs, ContextIsNext
  <2>. QED  BY <1>1, <2>1 DEF ScheduleEffect
<1>3. Context' = Context
  BY <1>2, ContextStays
<1>. QED  BY <1>1, <1>3 DEF Registers!Preempt, ScheduleEffect

\* handle_syscall is a Serve step: it changes a0, a1 and the program counter of the
\* caller, and at most one thread besides.
LEMMA ServeStep ==
    ASSUME TInv, HandleSyscall
    PROVE  Registers!Serve
<1>1. /\ mode = "call" /\ mode' = "leave" /\ CURRENT_PROC \in TCBs
      /\ mem[CURRENT_PROC]["sepc"][2] = "sepc"
  BY DEF HandleSyscall, TInv
<1>2. CURRENT_PROC' \in TCBs
  BY CallKeeps DEF TInv
<1>3. PICK target \in TCBs : CallEffect(target)
  BY CallKeeps
<1>4. \A t \in TCBs : /\ Context[t] = [x \in Seen |-> mem[t][x]]
                      /\ Context'[t] = [x \in Seen |-> mem'[t][x]]
  BY <1>1, ContextIs, ContextIsNext
<1>5. \A t \in TCBs \ {CURRENT_PROC, target} : Context'[t] = Context[t]
  <2>. SUFFICES ASSUME NEW t \in TCBs \ {CURRENT_PROC, target} PROVE Context'[t] = Context[t]
    OBVIOUS
  <2>1. mem'[t] = mem[t]
    BY <1>3 DEF CallEffect
  <2>2. Context[t] = [x \in Seen |-> mem[t][x]] /\ Context'[t] = [x \in Seen |-> mem'[t][x]]
    BY <1>4
  <2>. QED  BY <2>1, <2>2
<1>6. ASSUME target # CURRENT_PROC
      PROVE  \A x \in Seen \ {"a0", "a1", "sepc"} :
                Context'[CURRENT_PROC][x] = Context[CURRENT_PROC][x]
  <2>1. Seen \subseteq Fields
    BY Names DEF Seen
  <2>2. \A x \in Seen : /\ Context[CURRENT_PROC][x] = mem[CURRENT_PROC][x]
                        /\ Context'[CURRENT_PROC][x] = mem'[CURRENT_PROC][x]
    BY <1>1, ContextAt, ContextAtNext
  <2>3. \A x \in Fields \ {"a0", "a1", "sepc"} : mem'[CURRENT_PROC][x] = mem[CURRENT_PROC][x]
    BY <1>3, <1>6 DEF CallEffect
  <2>. QED  BY <2>1, <2>2, <2>3
<1>7. Context'[CURRENT_PROC]["sepc"] # Context[CURRENT_PROC]["sepc"]
  <2>1. "sepc" \in Seen
    BY DEF Seen
  <2>2. /\ Context'[CURRENT_PROC]["sepc"] = mem'[CURRENT_PROC]["sepc"]
        /\ Context[CURRENT_PROC]["sepc"] = mem[CURRENT_PROC]["sepc"]
    BY <1>1, <2>1, ContextAt, ContextAtNext
  <2>3. mem'[CURRENT_PROC]["sepc"][2] = "sepc+4"
    BY <1>3 DEF CallEffect
  <2>4. mem'[CURRENT_PROC]["sepc"] # mem[CURRENT_PROC]["sepc"]
    BY <1>1, <2>3
  <2>. QED  BY <2>2, <2>4
<1>8. /\ Registers!Unchanged(TCBs \ {CURRENT_PROC, target})
      /\ target # CURRENT_PROC =>
            \A x \in Seen \ {"a0", "a1", "sepc"} : Context'[CURRENT_PROC][x] = Context[CURRENT_PROC][x]
  BY <1>5, <1>6 DEF Registers!Unchanged
<1>. QED  BY Zenon, <1>1, <1>2, <1>7, <1>8 DEF Registers!Serve, Seen

\* A program changes its own registers only.
LEMMA ComputeStep ==
    ASSUME TInv, Compute \/ idle
    PROVE  Registers!Compute
<1>1. OwnRegisters
  BY ProgramKeeps
<1>2. CURRENT_PROC \in TCBs /\ "sstatus" \in Seen
  BY DEF TInv, Seen
<1>3. \A t \in TCBs \ {CURRENT_PROC} : Context'[t] = Context[t]
  <2>. SUFFICES ASSUME NEW t \in TCBs \ {CURRENT_PROC} PROVE Context'[t] = Context[t]
    OBVIOUS
  <2>1. Context[t] = [x \in Seen |-> mem[t][x]] /\ Context'[t] = [x \in Seen |-> mem'[t][x]]
    BY Zenon, <1>1, ContextIs, ContextIsNext DEF OwnRegisters
  <2>. QED  BY <1>1, <2>1 DEF OwnRegisters
<1>4. Context'[CURRENT_PROC]["sstatus"] = Context[CURRENT_PROC]["sstatus"]
  <2>1. /\ Context[CURRENT_PROC]["sstatus"] = Live("sstatus")
        /\ Context'[CURRENT_PROC]["sstatus"] = Live("sstatus")'
    BY <1>1, <1>2, ContextAt, ContextAtNext DEF OwnRegisters
  <2>2. Live("sstatus")' = Live("sstatus")
    BY <1>1 DEF OwnRegisters, Live
  <2>. QED  BY <2>1, <2>2
<1>. QED  BY <1>1, <1>3, <1>4 DEF OwnRegisters, Registers!Compute, Registers!Unchanged

\* trap_entry, handle_trap and return_to_user implement ThreadRegisters: the
\* registers and the mode of every thread are kept over traps and switches
\* (RegistersKept).
THEOREM RegistersCorrect == Spec => RegistersKept
<1>1. Init => mode = "leave" /\ CURRENT_PROC \in TCBs
  BY TrapAssumption DEF Init, TCBs
<1>2. TInv /\ [Next]_vars => [Registers!Next]_(Registers!vars)
  <2>. SUFFICES ASSUME TInv, [Next]_vars PROVE [Registers!Next]_(Registers!vars)
    OBVIOUS
  <2>1. CASE TimerInterrupt \/ Ecall \/ Fault
    BY <2>1, EnterStep DEF TimerInterrupt, Ecall, Fault, Registers!Next
  <2>2. CASE HandleTimer
    BY <2>2, PreemptStep DEF Registers!Next
  <2>3. CASE HandleSyscall
    BY <2>3, ServeStep DEF Registers!Next
  <2>4. CASE ReturnToUser
    BY <2>4, LeaveStep DEF Registers!Next
  <2>5. CASE Compute \/ idle
    BY <2>5, ComputeStep DEF Registers!Next
  <2>6. CASE UNCHANGED vars
    BY <2>6 DEF vars, Registers!vars, Context, Live
  <2>. QED  BY <2>1, <2>2, <2>3, <2>4, <2>5, <2>6 DEF Next
<1>. QED  BY <1>1, <1>2, TInvHolds, PTL DEF Spec, RegistersKept, Registers!Spec

=============================================================================
