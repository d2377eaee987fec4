-------------------------- MODULE ThreadRegisters ---------------------------
(***************************************************************************)
(* What the trap code promises the threads: a program that runs changes    *)
(* its own registers only and not the mode it runs in, a preemption        *)
(* changes nobody's, and a system call changes a0, a1 and the program      *)
(* counter of the caller and at most one other thread.  Nothing here       *)
(* mentions how registers are saved.                                       *)
(***************************************************************************)
CONSTANTS TCBs, Names       \* the threads, and the registers a program sees

VARIABLES
    ctx,        \* the registers and the mode (sstatus) of every thread
    running,    \* the thread that runs, or that the kernel works for
    where       \* "user", or why the kernel was entered, or "leave"

vars == <<ctx, running, where>>

Unchanged(threads) == \A t \in threads : ctx'[t] = ctx[t]

Compute ==
    /\ where = "user" /\ UNCHANGED <<running, where>>
    /\ Unchanged(TCBs \ {running})
    /\ ctx'[running]["sstatus"] = ctx[running]["sstatus"]

Enter ==
    /\ where = "user" /\ where' \in {"timer", "call", "fault"}
    /\ UNCHANGED <<ctx, running>>

Preempt ==
    /\ where = "timer" /\ where' = "leave"
    /\ running' \in TCBs
    /\ UNCHANGED ctx

Serve ==
    /\ where = "call" /\ where' = "leave"
    /\ running' \in TCBs
    /\ \E target \in TCBs :
        /\ Unchanged(TCBs \ {running, target})
        /\ target # running =>
            \A x \in Names \ {"a0", "a1", "sepc"} : ctx'[running][x] = ctx[running][x]
    /\ ctx'[running]["sepc"] # ctx[running]["sepc"]

Leave ==
    /\ where = "leave" /\ where' = "user"
    /\ UNCHANGED <<ctx, running>>

Next == Compute \/ Enter \/ Preempt \/ Serve \/ Leave

Spec == where = "leave" /\ running \in TCBs /\ [][Next]_vars

=============================================================================
