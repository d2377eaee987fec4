---------------------------- MODULE TrapContext -----------------------------
(***************************************************************************)
(* Trap entry and return: the registers of the hart, the register areas of *)
(* the threads, and CPU_VAR.  trap_entry and return_to_user run with       *)
(* interrupts disabled, so each is one action, which executes the          *)
(* instructions in order.                                                  *)
(*                                                                         *)
(* A value is a triple: whose it is, what it is and a number.  Every       *)
(* program puts values of its own into its registers, so a register that   *)
(* is lost, mixed up or shared is seen.                                    *)
(*                                                                         *)
(* Sources: kernel/src/handler.rs, scheduler.rs, init.rs, syscall.rs,      *)
(* shared/src/registers.rs.                                                *)
(***************************************************************************)
EXTENDS Naturals

CONSTANTS
    Threads,        \* threads of user programs
    Root,           \* the root server's thread
    IDLE,           \* IDLE_THREAD
    CPU_VAR,
    GPR,            \* the general purpose registers
    Versions        \* numbers of the values that programs compute

ASSUME TrapAssumption ==
    /\ Root \in Threads /\ IDLE \notin Threads /\ CPU_VAR \notin Threads \cup {IDLE}
    /\ {"ra", "sp", "tp", "t0", "t1", "a0", "a1"} \subseteq GPR
    /\ GPR \cap {"sepc", "scause", "sstatus", "sscratch", "pc", "priv", "sie"} = {}

VARIABLES
    hart,           \* general purpose registers, CSRs, pc, privilege and interrupt enable
    mem,            \* registers of every TCB, and CPU_VAR
    CURRENT_PROC,
    mode,           \* "user" (or idle); "timer", "call" or "fault" in handle_trap; "leave" behind it
    stack           \* whose frames are at the top of the kernel stack

vars == <<hart, mem, CURRENT_PROC, mode, stack>>

TCBs == Threads \cup {IDLE}

Zero == <<"zero", "zero", 0>>
Junk == <<"junk", "junk", 0>>
Address(object) == <<object, "address", 0>>
StackTop == <<"stack", "address", 0>>

\* sstatus: SPP, and 1 for SPIE.
Status(spp, spie) == <<spp, "status", spie>>
Statuses == {Status(spp, spie) : spp \in {"U", "S"}, spie \in {0, 1}}

\* Registers::null, and the registers that set_registers copies from an IPC buffer,
\* sstatus as the caller wrote it.
Fields == GPR \cup {"sepc", "scause", "sstatus"}
null == [x \in Fields |-> IF x = "sstatus" THEN Status("U", 0) ELSE Zero]
File(t, n, status) ==
    [x \in Fields |-> IF x \in GPR \cup {"sepc"} THEN <<t, x, n>>
                      ELSE IF x = "sstatus" THEN status ELSE null[x]]

----------------------------------------------------------------------------
(* Instructions, on the register file s.r and the memory s.m *)

csrrw(s, rd, csr, rs) == [r |-> [s.r EXCEPT ![csr] = s.r[rs], ![rd] = s.r[csr]], m |-> s.m]
csrr(s, rd, csr) == [r |-> [s.r EXCEPT ![rd] = s.r[csr]], m |-> s.m]
csrw(s, csr, rs) == [r |-> [s.r EXCEPT ![csr] = s.r[rs]], m |-> s.m]

\* Where a base register points.
Base(s, base) == s.r[base][1]

sd(s, rs, field, base) ==
    LET area == [s.m[Base(s, base)] EXCEPT ![field] = s.r[rs]]
    IN  [r |-> s.r, m |-> [s.m EXCEPT ![Base(s, base)] = area]]
ld(s, rd, field, base) == [r |-> [s.r EXCEPT ![rd] = s.m[Base(s, base)][field]], m |-> s.m]

\* sd and ld for registers that are each kept in the field of their own name.
Merge(old, new, names) == [x \in DOMAIN old |-> IF x \in names THEN new[x] ELSE old[x]]
sdAll(s, names, base) ==
    LET area == Merge(s.m[Base(s, base)], s.r, names)
    IN  [r |-> s.r, m |-> [s.m EXCEPT ![Base(s, base)] = area]]
ldAll(s, names, base) == [r |-> Merge(s.r, s.m[Base(s, base)], names), m |-> s.m]

----------------------------------------------------------------------------
(* trap_entry *)

\* t0 and tp, which hold addresses by then, are stored behind the others.
trap_entry(s) ==
    LET s1 == csrrw(s, "tp", "sscratch", "tp")
        s2 == sd(s1, "t0", "sscratch", "tp")
        s3 == ld(s2, "t0", "cur_reg_base", "tp")
        s4 == sdAll(s3, GPR \ {"t0", "tp"}, "t0")
        s5 == csrr(s4, "a1", "sepc")
        s6 == sd(s5, "a1", "sepc", "t0")
        s7 == csrr(s6, "a1", "sstatus")
        s8 == sd(s7, "a1", "sstatus", "t0")
        s9 == csrrw(s8, "a1", "sscratch", "tp")
        s10 == sd(s9, "a1", "tp", "t0")
        s11 == ld(s10, "a1", "sscratch", "tp")
        s12 == sd(s11, "a1", "t0", "t0")
        s13 == ld(s12, "sp", "sptop", "tp")
        s14 == csrr(s13, "a1", "scause")
    IN  sd(s14, "a1", "scause", "t0")

\* What the processor does before the first instruction: a timer interrupt is
\* taken in user mode and, when it is enabled, in the idle thread.
Trapped(cause) ==
    [hart EXCEPT !["sepc"] = hart["pc"], !["scause"] = <<"cause", cause, 0>>,
                 !["sstatus"] = Status(hart["priv"], hart["sie"]),
                 !["priv"] = "S", !["sie"] = 0]

\* handle_trap, which follows, writes its frames where sp points and uses the
\* general purpose registers as it likes.
Trap(cause) ==
    LET after == trap_entry([r |-> Trapped(cause), m |-> mem])
    IN  /\ mode = "user"
        /\ hart' = [x \in DOMAIN hart |-> IF x \in GPR THEN Junk ELSE after.r[x]]
        /\ mem' = after.m
        /\ stack' = IF after.r["sp"] = StackTop THEN CPU_VAR ELSE stack
        /\ mode' = cause
        /\ UNCHANGED CURRENT_PROC

TimerInterrupt == (hart["priv"] = "U" \/ hart["sie"] = 1) /\ Trap("timer")

\* A program computes between two calls.
Ecall == CURRENT_PROC # IDLE /\ hart["priv"] = "U" /\ hart["pc"][2] = "sepc" /\ Trap("call")

\* Any other exception of a program, for which handle_trap panics.
Fault == CURRENT_PROC # IDLE /\ Trap("fault")

----------------------------------------------------------------------------
(* handle_trap *)

\* Mutant: the next trap saves into the area of the thread before.
SwitchToKeeps(next, m) == m

\* The end of schedule for a thread that becomes current.
SwitchTo(next, m) == [m EXCEPT ![CPU_VAR]["cur_reg_base"] = Address(next)]

\* Which thread is next, Kernel decides; here it is any that has a program.
schedule(m) ==
    \E next \in {t \in TCBs : m[t]["sepc"] # Zero} :
        /\ CURRENT_PROC' = next
        /\ mem' = IF next = CURRENT_PROC THEN m ELSE SwitchTo(next, m)

HandleTimer ==
    /\ mode = "timer" /\ mode' = "leave"
    /\ schedule(mem)
    /\ UNCHANGED <<hart, stack>>

\* What a call does to the registers of a thread: nothing, set_registers with the
\* contents of an IPC buffer, or the a1 that endpoints and notifications set when
\* they wake a thread.
Invocations ==
    {mem}
    \cup {[mem EXCEPT ![t] = File(t, n, status)] :
            t \in Threads, n \in Versions, status \in Statuses}
    \cup {[mem EXCEPT ![t]["a1"] = <<t, "badge", 0>>] : t \in Threads}

\* reg.sepc += 4
Advance(sepc) == <<sepc[1], "sepc+4", sepc[3]>>

\* handle_syscall: reg, the current registers, gets the result after the
\* invocation wrote to the registers of its target, reg itself included.
HandleSyscall ==
    LET reg == mem[CPU_VAR]["cur_reg_base"][1]
    IN  /\ mode = "call" /\ mode' = "leave"
        /\ \E m \in Invocations :
            \E a1 \in {m[reg]["a1"], <<reg, "result", 0>>} :
                schedule([m EXCEPT ![reg]["a0"] = <<reg, "result", 0>>, ![reg]["a1"] = a1,
                                   ![reg]["sepc"] = Advance(m[reg]["sepc"])])
        /\ UNCHANGED <<hart, stack>>

----------------------------------------------------------------------------
(* return_to_user *)

return_to_user(s) ==
    LET s1 == ldAll(s, GPR \ {"t0", "t1"}, "t0")
        s2 == ld(s1, "t1", "sepc", "t0")
        s3 == csrw(s2, "sepc", "t1")
        s4 == ld(s3, "t1", "sstatus", "t0")
        s5 == csrw(s4, "sstatus", "t1")
        s6 == ld(s5, "t1", "t1", "t0")
    IN  ld(s6, "t0", "t0", "t0")

\* The compiler puts the address of the thread's registers into t0.
ReturnToUser ==
    LET start == [hart EXCEPT !["t0"] = Address(CURRENT_PROC)]
        after == return_to_user([r |-> start, m |-> mem]).r
    IN  /\ mode = "leave" /\ mode' = "user"
        /\ hart' = [after EXCEPT !["pc"] = after["sepc"],
                                 !["priv"] = after["sstatus"][1], !["sie"] = after["sstatus"][3],
                                 !["sstatus"] = Status("U", 1)]
        /\ UNCHANGED <<mem, CURRENT_PROC, stack>>

----------------------------------------------------------------------------
(* Programs *)

\* The pages of a program are user pages: in supervisor mode it only faults.
Compute ==
    /\ mode = "user" /\ CURRENT_PROC # IDLE /\ hart["priv"] = "U"
    /\ \E n \in Versions :
        hart' = [x \in DOMAIN hart |-> IF x \in GPR THEN <<CURRENT_PROC, x, n>>
                                      ELSE IF x = "pc" THEN <<CURRENT_PROC, "sepc", n>> ELSE hart[x]]
    /\ UNCHANGED <<mem, CURRENT_PROC, mode, stack>>

\* idle: a println, which needs its stack frames, and then a loop that enables
\* interrupts and waits.
idle ==
    /\ mode = "user" /\ CURRENT_PROC = IDLE
    /\ \/ /\ hart["pc"][2] = "idle"
          /\ hart' = [hart EXCEPT !["pc"] = <<IDLE, "println", 0>>, !["ra"] = <<IDLE, "ra", 0>>]
          /\ stack' = IF hart["sp"] = StackTop THEN IDLE ELSE stack
       \/ /\ hart["pc"][2] \in {"println", "loop"}
          /\ hart' = [hart EXCEPT !["pc"] = <<IDLE, "loop", 0>>, !["sie"] = 1]
          /\ UNCHANGED stack
    /\ UNCHANGED <<mem, CURRENT_PROC, mode>>

----------------------------------------------------------------------------
(* The specification *)

\* Mutant: interrupts stay off in the idle thread.
IdleStatusOff == Status("S", 0)

\* create_idle_thread: SSTATUS_SPP | SSTATUS_SPIE.
IdleStatus == Status("S", 1)

create_idle_thread ==
    [null EXCEPT !["sepc"] = <<IDLE, "idle", 0>>, !["sstatus"] = IdleStatus, !["sp"] = StackTop]

create_root_tcb ==
    [null EXCEPT !["sepc"] = <<Root, "sepc", 0>>, !["sstatus"] = Status("U", 1),
                 !["a0"] = <<Root, "boot_info", 0>>]

\* kernel_main before return_to_user.
Init ==
    /\ CURRENT_PROC = Root
    /\ mem = [o \in TCBs \cup {CPU_VAR} |->
                CASE o = CPU_VAR -> [sptop |-> StackTop, sscratch |-> Zero,
                                     cur_reg_base |-> Address(Root)]
                  [] o = IDLE -> create_idle_thread
                  [] o = Root -> create_root_tcb
                  [] OTHER -> null]
    /\ hart = LET csrs == [sepc |-> Zero, scause |-> Zero, sstatus |-> Status("S", 0), pc |-> Junk,
                           sscratch |-> Address(CPU_VAR), priv |-> "S", sie |-> 0]
              IN  [x \in GPR \cup DOMAIN csrs |-> IF x \in GPR THEN Junk ELSE csrs[x]]
    /\ mode = "leave"
    /\ stack = CPU_VAR

Next ==
    \/ TimerInterrupt \/ Ecall \/ Fault \/ HandleTimer \/ HandleSyscall \/ ReturnToUser
    \/ Compute \/ idle

Spec == Init /\ [][Next]_vars

----------------------------------------------------------------------------
(* Properties *)

\* The registers of a thread as its program sees them, and the mode it runs in: in
\* the hart while it runs, in its TCB otherwise.
Seen == GPR \cup {"sepc", "sstatus"}
Live(x) ==
    CASE x = "sepc" -> hart["pc"]
      [] x = "sstatus" -> Status(hart["priv"], hart["sie"])
      [] OTHER -> hart[x]

Context ==
    [t \in TCBs |->
        [x \in Seen |-> IF mode = "user" /\ t = CURRENT_PROC THEN Live(x) ELSE mem[t][x]]]

Registers == INSTANCE ThreadRegisters WITH
    Names <- Seen, ctx <- Context, running <- CURRENT_PROC, where <- mode

\* Saving and restoring keeps the registers and the mode of every thread: trap_entry,
\* handle_trap and return_to_user implement the abstract specification.
RegistersKept == Registers!Spec

\* The idle thread runs in supervisor mode with interrupts on: the timer, which alone
\* ends it, can always interrupt it, whatever calls wrote to the registers of threads.
IdleInterruptible ==
    mode = "user" /\ CURRENT_PROC = IDLE => hart["priv"] = "S" /\ hart["sie"] = 1

\* The context of the idle thread is kept over a trap, its stack included.
IdleStackKept ==
    (mode = "user" /\ CURRENT_PROC = IDLE /\ hart["pc"][2] = "println") => stack = IDLE

=============================================================================
