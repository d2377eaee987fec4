----------------------------- MODULE SyscallAbi -----------------------------
(***************************************************************************)
(* How a system call crosses the boundary: libzoea packs its arguments     *)
(* into a0 to a7, the kernel unpacks them by the type of the invoked       *)
(* capability, and the result comes back in a0 and a1.  A register has two *)
(* halves of HalfBits; the code packs two u32 into a usize.                *)
(*                                                                         *)
(* Sources: libzoea/src/syscall.rs, caps.rs, kernel/src/syscall.rs,        *)
(* shared/src/{err_kind,inv_labels,cap_type,syscall_no}.rs.                *)
(***************************************************************************)
EXTENDS Naturals, Sequences, FiniteSetsExt, SequencesExt

CONSTANTS
    HalfBits,
    Words,          \* values of usize arguments
    Halves,         \* values of u32 arguments
    Codes           \* values of the detail of an error, a u16

ASSUME AbiAssumption ==
    /\ Words \subseteq 0..(2^(2 * HalfBits) - 1)
    /\ Halves \subseteq 0..(2^HalfBits - 1)
    /\ 2^(2 * HalfBits) > 22

VARIABLES
    phase,          \* "program", "kernel", "back" in syscall(), or "result"
    call,           \* the call that the program makes, by the names of its parameters
    reg,            \* a0 to a7
    seen,           \* the parameters that the handler of the kernel works with
    syscall_ret,    \* its result
    ret             \* the SysCallRes that the program gets

vars == <<phase, call, reg, seen, syscall_ret, ret>>

----------------------------------------------------------------------------
(* Enumerations: a name and its number *)

InvLabel == <<"PutChar", "CNodeTraverse", "UntypedRetype", "TcbConfigure", "TcbWriteReg",
              "TcbResume", "TcbSetIpcBuffer", "NotifyWait", "NotifySend", "CNodeCopy",
              "CNodeMint", "CNodeMove", "PageMap", "PageUnMap", "PageTableMap",
              "PageTableUnMap", "PageTableMakeRoot", "EpSend", "EpRecv">>

LabelCode(label) == (CHOOSE i \in 1..Len(InvLabel) : InvLabel[i] = label) - 1

ErrKind == <<"NoMemory", "PteNotFound", "OutOfMemory", "InvalidUserAddress", "UnknownCapType",
             "UnexpectedCapType", "CanNotNewFromDeviceMemory", "NoEnoughSlot", "NotEmptySlot",
             "SlotIsEmpty", "VaddressAlreadyMapped", "PageTableAlreadyMapped",
             "PageTableNotMappedYet", "PageAlreadyMapped", "PageNotMappedYet",
             "UnknownInvocation", "CanNotDerivable", "InvalidOperation", "CapNotFound",
             "NotAligned", "UnknownSysCall", "NotRootPageTable">>

\* Mutant: the enumeration starts at 0.
ErrCodeFromZero(kind) == (CHOOSE i \in 1..Len(ErrKind) : ErrKind[i] = kind) - 1

ErrCode(kind) == CHOOSE i \in 1..Len(ErrKind) : ErrKind[i] = kind

\* ErrKind::try_from knows all kinds up to NotAligned; syscall() takes the others
\* for UnknownSysCall.
ErrKindOf(code) == IF code \in 1..20 THEN ErrKind[code] ELSE "UnknownSysCall"

\* The errors that a system call can end with: NotRootPageTable comes from
\* activate only, which no system call uses.
CallErrors == Range(ErrKind) \ {"NotRootPageTable"}

CapabilityType == [Untyped |-> 1, Tcb |-> 3, EndPoint |-> 5, CNode |-> 7, Notification |-> 9,
                   PageTable |-> 2, Page |-> 4]

SysCallNo(name) ==
    LET names == <<"Print", "Call", "Send", "Recv">>
    IN  (CHOOSE i \in 1..Len(names) : names[i] = name) - 1

Pack(high, low) == high * 2^HalfBits + low
High(word) == word \div 2^HalfBits
Low(word) == word % 2^HalfBits

\* A PageFlags as a number, and get_user_flags: execute, write and read.
FlagBit == [x |-> 1, w |-> 2, r |-> 4]
FlagsNumber(flags) == SumSet({FlagBit[f] : f \in flags})
get_user_flags(n) == {f \in {"x", "w", "r"} : (n \div FlagBit[f]) % 2 = 1}

----------------------------------------------------------------------------
(* libzoea: what each wrapper takes, and the registers that it fills *)

Call(labels, parameters) ==
    {[label |-> l, cap_ptr |-> p, cap_depth |-> d] @@ a :
        l \in labels, p \in Words, d \in Halves, a \in parameters}

Calls ==
    Call({"TcbWriteReg", "TcbResume", "NotifyWait", "NotifySend", "PageTableMakeRoot",
          "EpSend", "EpRecv"}, {<<>>})
    \cup {[label |-> "PutChar", cap_ptr |-> char, cap_depth |-> 0] : char \in Words}
    \cup {[label |-> "CNodeTraverse", cap_ptr |-> 0, cap_depth |-> 0]}
    \cup Call({"UntypedRetype"},
              [dest_ptr : Words, dest_depth : Halves, index : Halves, user_size : Halves,
               num : Halves, cap_type : DOMAIN CapabilityType])
    \cup Call({"TcbConfigure"}, [cnode_ptr : Words, cnode_depth : Halves,
                                 vspace_ptr : Words, vspace_depth : Halves])
    \cup Call({"TcbSetIpcBuffer"}, [page_ptr : Words, page_depth : Halves])
    \cup Call({"CNodeCopy", "CNodeMove"}, [src_index : Words, src_depth : Halves,
                                           dest_index : Words, dest_depth : Halves])
    \cup Call({"CNodeMint"}, [src_index : Words, src_depth : Halves, dest_index : Words,
                              dest_depth : Halves, cap_val : Words])
    \cup Call({"PageMap"}, [dest_ptr : Words, dest_depth : Halves, vaddr : Words,
                            flags : SUBSET {"x", "w", "r"}])
    \cup Call({"PageUnMap"}, [dest_ptr : Words, dest_depth : Halves])
    \cup Call({"PageTableMap"}, [dest_ptr : Words, dest_depth : Halves, vaddr : Words])

\* Mutant: the depths of the two paths are exchanged.
DepthsSwapped(c) == Pack(c.dest_depth, c.src_depth)

Depths(c) == Pack(c.src_depth, c.dest_depth)

\* The registers a3 to a6.
Arguments(c) ==
    CASE c.label = "UntypedRetype" ->
            <<c.dest_ptr, Pack(c.index, c.dest_depth), Pack(c.user_size, c.num),
              CapabilityType[c.cap_type]>>
      [] c.label = "TcbConfigure" ->
            <<c.cnode_ptr, c.cnode_depth, c.vspace_ptr, c.vspace_depth>>
      [] c.label = "TcbSetIpcBuffer" -> <<c.page_ptr, c.page_depth, 0, 0>>
      [] c.label \in {"CNodeCopy", "CNodeMove"} -> <<c.src_index, Depths(c), c.dest_index, 0>>
      [] c.label = "CNodeMint" -> <<c.src_index, Depths(c), c.dest_index, c.cap_val>>
      [] c.label = "PageMap" -> <<c.dest_ptr, c.dest_depth, c.vaddr, FlagsNumber(c.flags)>>
      [] c.label = "PageUnMap" -> <<c.dest_ptr, c.dest_depth, 0, 0>>
      [] c.label = "PageTableMap" -> <<c.dest_ptr, c.dest_depth, c.vaddr, 0>>
      [] OTHER -> <<0, 0, 0, 0>>

Number(label) ==
    CASE label \in {"PutChar", "CNodeTraverse"} -> SysCallNo("Print")
      [] label \in {"NotifySend", "EpSend"} -> SysCallNo("Send")
      [] label \in {"NotifyWait", "EpRecv"} -> SysCallNo("Recv")
      [] OTHER -> SysCallNo("Call")

\* A wrapper and the first half of syscall(), up to the ecall.
Ecall ==
    /\ phase = "program"
    /\ \E c \in Calls :
        LET a == Arguments(c)
        IN  /\ call' = c
            /\ reg' = [a0 |-> c.cap_ptr, a1 |-> c.cap_depth, a2 |-> LabelCode(c.label),
                       a3 |-> a[1], a4 |-> a[2], a5 |-> a[3], a6 |-> a[4], a7 |-> Number(c.label)]
    /\ phase' = "kernel"
    /\ UNCHANGED <<seen, syscall_ret, ret>>

----------------------------------------------------------------------------
(* The kernel *)

\* The capability that a wrapper is called with: Capability<K> has the type of it.
TypeOf(label) ==
    CASE label = "UntypedRetype" -> "Untyped"
      [] label \in {"TcbConfigure", "TcbWriteReg", "TcbResume", "TcbSetIpcBuffer"} -> "Tcb"
      [] label \in {"NotifyWait", "NotifySend"} -> "Notification"
      [] label \in {"EpSend", "EpRecv"} -> "EndPoint"
      [] label \in {"CNodeCopy", "CNodeMint", "CNodeMove"} -> "CNode"
      [] label \in {"PageMap", "PageUnMap"} -> "Page"
      [] OTHER -> "PageTable"

\* What handle_invocation reads from the registers for a capability of a type.
Parameters(type, label, r) ==
    CASE type = "Untyped" ->
            [dest_ptr |-> r.a3, dest_depth |-> Low(r.a4), index |-> High(r.a4),
             user_size |-> High(r.a5), num |-> Low(r.a5),
             cap_type |-> CHOOSE t \in DOMAIN CapabilityType : CapabilityType[t] = r.a6]
      [] type = "CNode" ->
            [src_index |-> r.a3, src_depth |-> High(r.a4), dest_depth |-> Low(r.a4),
             dest_index |-> r.a5] @@ (IF label = "CNodeMint" THEN [cap_val |-> r.a6] ELSE <<>>)
      [] label = "TcbConfigure" ->
            [cnode_ptr |-> r.a3, cnode_depth |-> Low(r.a4),
             vspace_ptr |-> r.a5, vspace_depth |-> Low(r.a6)]
      [] label = "TcbSetIpcBuffer" -> [page_ptr |-> r.a3, page_depth |-> Low(r.a4)]
      [] label = "PageMap" ->
            [dest_ptr |-> r.a3, dest_depth |-> Low(r.a4), vaddr |-> r.a5,
             flags |-> get_user_flags(r.a6)]
      [] label = "PageUnMap" -> [dest_ptr |-> r.a3, dest_depth |-> Low(r.a4)]
      [] label = "PageTableMap" ->
            [dest_ptr |-> r.a3, dest_depth |-> Low(r.a4), vaddr |-> r.a5]
      [] OTHER -> <<>>

\* Ok and the value that a1 gets, if any: the level of a mapped table, the badge
\* or the bits of a message; or an error and its detail.
Results(label) ==
    {[kind |-> "Ok", val |-> v] :
        v \in IF label \in {"PageTableMap", "NotifyWait", "EpRecv"} THEN {{w} : w \in Words} ELSE {{}}}
    \cup {[kind |-> k, val |-> {c}] : k \in CallErrors, c \in Codes}

\* handle_syscall and handle_invocation.
handle_syscall ==
    LET label == InvLabel[reg.a2 + 1]
    IN  /\ phase = "kernel" /\ phase' = "back"
        /\ seen' = [label |-> label, cap_ptr |-> reg.a0, cap_depth |-> reg.a1] @@
                   (IF reg.a7 = SysCallNo("Print") THEN <<>> ELSE Parameters(TypeOf(label), label, reg))
        /\ \E res \in Results(label) :
            /\ syscall_ret' = res
            /\ reg' = [reg EXCEPT !.a0 = IF res.kind = "Ok" THEN 0 ELSE ErrCode(res.kind),
                                  !.a1 = IF res.val = {} THEN @ ELSE CHOOSE v \in res.val : TRUE]
        /\ UNCHANGED <<call, ret>>

\* The second half of syscall().
Return ==
    /\ phase = "back" /\ phase' = "result"
    /\ ret' = [kind |-> IF reg.a0 = 0 THEN "Ok" ELSE ErrKindOf(reg.a0), val |-> reg.a1]
    /\ UNCHANGED <<call, reg, seen, syscall_ret>>

NoCall == <<>>
NoRegisters == [a \in {"a0", "a1", "a2", "a3", "a4", "a5", "a6", "a7"} |-> 0]

Init ==
    /\ phase = "program"
    /\ call = NoCall /\ seen = NoCall /\ reg = NoRegisters
    /\ syscall_ret = [kind |-> "Ok", val |-> {}] /\ ret = [kind |-> "Ok", val |-> 0]

\* The program goes on; a wrapper sets all registers, so nothing of this call
\* matters to the next.
Continue ==
    /\ phase = "result" /\ phase' = "program"
    /\ call' = NoCall /\ seen' = NoCall /\ reg' = NoRegisters
    /\ syscall_ret' = [kind |-> "Ok", val |-> {}] /\ ret' = [kind |-> "Ok", val |-> 0]

Next == Ecall \/ handle_syscall \/ Return \/ Continue

Spec == Init /\ [][Next]_vars

----------------------------------------------------------------------------
(* Properties *)

\* The kernel works with the arguments that the program passed, each under its own
\* name: for every wrapper of libzoea and every handler of handle_invocation.
ArgumentsArrive == phase = "back" => seen = call

\* The program gets the result of the kernel: an error is never taken for success,
\* keeps its kind and detail, and a value is the one that the kernel returned.
ResultArrives ==
    phase = "result" =>
        /\ ret.kind = syscall_ret.kind
        /\ syscall_ret.val # {} => syscall_ret.val = {ret.val}

=============================================================================
