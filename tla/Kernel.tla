------------------------------ MODULE Kernel ------------------------------
(***************************************************************************)
(* Threads, scheduler, endpoints and notifications of the zoeax kernel.    *)
(*                                                                         *)
(* The kernel runs on one hart and is not preemptible: a trap is entered   *)
(* with interrupts disabled and runs to return_to_user.  One trap, that is *)
(* trap_entry, handle_trap with all it calls, schedule and return_to_user, *)
(* is therefore one action, and the behaviours are the interleavings of    *)
(* the timer with the system calls of whichever thread is current.         *)
(*                                                                         *)
(* Sources: kernel/src/scheduler.rs, handler.rs, syscall.rs,               *)
(* object/{tcb,endpoint,notification}.rs,                                  *)
(* capability/{tcb,endpoint,notification}.rs.                              *)
(***************************************************************************)
EXTENDS LinkedList

CONSTANTS
    Threads,        \* the TCBs that user code creates, the root server's included
    Root,           \* the root server's TCB, made runnable by the boot code
    IDLE,           \* IDLE_THREAD
    Endpoints,
    Notifications,
    Badges,         \* badges of endpoint capabilities
    Bits,           \* bits of a notification word; a notification badge is a set of bits
    Messages,       \* contents of an IPC buffer
    TASK_QUANTUM,   \* ticks of a time slice
    USIZE_MAX,      \* largest value of time_slice, for its wrap-around
    ConfigStates,   \* states of a thread in which user code writes its registers or resumes it
    UnhandledTraps  \* whether configured user code may raise a trap the kernel does not handle

TCBs == Threads \cup {IDLE}

ThreadState == {"Inactive", "Runnable", "Blocked", "Idle"}

\* A thread's vspace slot: empty, or a copy of a page-table capability taken by
\* TcbConfigure, which was or was not a root at that time.
VSpaceState == {"Empty", "NotRoot", "Root"}

EndpointState == {"Send", "Recv", "Idel"}

\* Why the kernel stopped: a failed assert!(tcb.next_is_none()), a failed
\* assert on a TCB slot that was already filled, or a trap that handle_trap
\* turns into a panic.
PanicReason == {"Next", "Slot", "Trap"}

ASSUME KernelAssumption ==
    /\ None \notin TCBs
    /\ IDLE \notin Threads
    /\ Root \in Threads
    /\ None \notin Badges /\ \A S \in SUBSET Bits : S # None
    /\ None \notin Messages
    /\ None \notin PanicReason
    /\ TASK_QUANTUM \in Nat \ {0}
    /\ USIZE_MAX \in Nat /\ USIZE_MAX >= TASK_QUANTUM
    /\ ConfigStates \subseteq ThreadState \ {"Idle"}
    /\ UnhandledTraps \in BOOLEAN

VARIABLES
    \* ThreadControlBlock = ListItem<ThreadInfo>
    next,           \* the list pointer of each TCB
    status,
    time_slice,
    badge,          \* badge of the endpoint capability the thread last sent through
    a1,             \* what the thread's last system call returned in a1; None for no value
    vspace,
    ipc_buffer,     \* contents of the IPC buffer; None when no buffer is set
    \* SCHEDULER, CURRENT_PROC (with CPU_VAR.cur_reg_base) and the satp register
    runqueue,
    requested,
    current,
    satp,           \* the thread whose address space is active; None for the kernel's
    \* Endpoint and Notification objects
    ep_state,
    ep_queue,
    notify_bit,
    bit_is_set,
    wait_queue,
    panic           \* None, or why the kernel stopped

schedVars  == <<runqueue, next, requested, current, satp, time_slice>>
setupVars  == <<vspace, ipc_buffer>>
epVars     == <<ep_state, ep_queue>>
notifyVars == <<notify_bit, bit_is_set, wait_queue>>
vars == <<schedVars, setupVars, epVars, notifyVars, status, badge, a1, panic>>

Values == Badges \cup SUBSET Bits   \* what a system call may return in a1

\* Every pointer leads to a thread of the system or is null, every field keeps
\* its type, and IDLE_THREAD alone has the state Idle: it is never resumed,
\* suspended or linked into a list.
TypeOK ==
    /\ next \in [Threads -> Threads \cup {None}]
    /\ status \in [TCBs -> ThreadState]
    /\ \A t \in TCBs : status[t] = "Idle" <=> t = IDLE
    /\ time_slice \in [TCBs -> 0..USIZE_MAX]
    /\ badge \in [Threads -> Badges \cup {None}]
    /\ a1 \in [Threads -> {None} \cup Badges \cup SUBSET Bits]
    /\ vspace \in [TCBs -> VSpaceState]
    /\ vspace[IDLE] = "Empty"
    /\ ipc_buffer \in [Threads -> Messages \cup {None}]
    /\ runqueue \in Lists(Threads)
    /\ requested \in BOOLEAN
    /\ current \in TCBs
    /\ satp \in Threads \cup {None}
    /\ ep_state \in [Endpoints -> EndpointState]
    /\ ep_queue \in [Endpoints -> Lists(Threads)]
    /\ notify_bit \in [Notifications -> SUBSET Bits]
    /\ bit_is_set \in [Notifications -> BOOLEAN]
    /\ wait_queue \in [Notifications -> Lists(Threads)]
    /\ panic \in PanicReason \cup {None}

-----------------------------------------------------------------------------
(***************************************************************************)
(* The scheduler.                                                          *)
(***************************************************************************)

\* Mutant: a blocked thread counts as runnable.
IsRunnableOrBlocked(st, t) == st[t] \in {"Runnable", "Blocked"}

IsRunnable(st, t) == st[t] = "Runnable"

\* Mutant: without a root page table the previous one stays active.
ActivateVSpaceNoFallback(t) == satp' = IF vspace'[t] = "Root" THEN t ELSE satp

\* activate_vspace: a thread without a root page table gets the kernel's table.
ActivateVSpace(t) == satp' = IF vspace'[t] = "Root" THEN t ELSE None

\* schedule() works on the state the handler has produced: the run queue rq, the
\* list pointers nx, the thread states st and the time slices ts.

\* A thread is queued: it gets the processor and a full quantum, and the current
\* thread goes to the end of the queue if it can still run.
SwitchToQueued(rq, nx, st, ts) ==
    LET rest == Pop(rq, nx)
    IN  /\ time_slice' = [ts EXCEPT ![rq.head] = TASK_QUANTUM]
        /\ \/ /\ IsRunnable(st, current)
              /\ runqueue' = Push(rest, current)
              /\ next' = PushNext(nx, rest, current)
           \/ /\ ~IsRunnable(st, current)
              /\ runqueue' = rest /\ next' = nx
        /\ current' = rq.head
        /\ ActivateVSpace(rq.head)
        /\ requested' = FALSE

\* Mutant: the quantum of the thread that keeps the processor is not renewed.
KeepRunningNoQuantum(rq, nx, ts) ==
    /\ runqueue' = Pop(rq, nx) /\ next' = nx /\ time_slice' = ts /\ requested' = TRUE
    /\ UNCHANGED <<current, satp>>

\* The early return: no other thread can run and the request stays pending.
KeepRunning(rq, nx, ts) ==
    /\ time_slice' = [ts EXCEPT ![current] = TASK_QUANTUM]
    /\ runqueue' = Pop(rq, nx) /\ next' = nx /\ requested' = TRUE
    /\ UNCHANGED <<current, satp>>

\* No thread can run.
SwitchToIdle(rq, nx, ts) ==
    /\ current' = IDLE
    /\ ActivateVSpace(IDLE)
    /\ runqueue' = Pop(rq, nx) /\ next' = nx /\ time_slice' = ts
    /\ requested' = FALSE

\* schedule(), called at the end of every trap; req is its request flag.
Schedule(req, rq, nx, st, ts) ==
    \/ /\ ~req
       /\ requested' = FALSE
       /\ runqueue' = rq /\ next' = nx /\ time_slice' = ts
       /\ UNCHANGED <<current, satp>>
    \/ req /\ ~IsEmpty(rq) /\ SwitchToQueued(rq, nx, st, ts)
    \/ req /\ IsEmpty(rq) /\ IsRunnable(st, current) /\ KeepRunning(rq, nx, ts)
    \/ req /\ IsEmpty(rq) /\ ~IsRunnable(st, current) /\ SwitchToIdle(rq, nx, ts)

\* panic!: the handler `loop {}` of main.rs never returns, and interrupts are
\* disabled, so neither the scheduler nor any other trap runs again.
Panic(reason) ==
    /\ panic' = reason
    /\ UNCHANGED <<schedVars, status>>

\* The end of a handler that touches neither the lists nor the thread states.
ReturnThroughSchedule ==
    /\ UNCHANGED <<status, panic>>
    /\ Schedule(requested, runqueue, next, status, time_slice)

\* Mutant: the thread becomes runnable and is not queued.
ResumeNotQueued(t) ==
    /\ status' = [status EXCEPT ![t] = "Runnable"]
    /\ UNCHANGED panic
    /\ Schedule(requested, runqueue, next, status', time_slice)

\* Mutant: the system call returns to the caller without schedule().
ResumeNoSchedule(t) ==
    /\ status' = [status EXCEPT ![t] = "Runnable"]
    /\ runqueue' = Push(runqueue, t) /\ next' = PushNext(next, runqueue, t)
    /\ UNCHANGED <<panic, requested, current, satp, time_slice>>

\* resume(): the thread becomes runnable and is pushed on the run queue,
\* whatever its state was.
Resume(t) ==
    /\ status' = [status EXCEPT ![t] = "Runnable"]
    /\ UNCHANGED panic
    /\ Schedule(requested, Push(runqueue, t), PushNext(next, runqueue, t),
                status', time_slice)

\* wake_up_thread(t)
WakeUpThread(t) ==
    \/ next[t] = None /\ Resume(t)
    \/ next[t] # None /\ Panic("Next")

\* Mutant: suspend() gives the thread the wrong state.
BlockThreadAsIdle(q) ==
    \/ /\ next[current] = None
       /\ status' = [status EXCEPT ![current] = "Idle"]
       /\ UNCHANGED panic
       /\ Schedule(TRUE, runqueue, PushNext(next, q, current), status', time_slice)
    \/ next[current] # None /\ Panic("Next")

\* block_thread(current), push on the wait list q, and require_schedule().
BlockThread(q) ==
    \/ /\ next[current] = None
       /\ status' = [status EXCEPT ![current] = "Blocked"]
       /\ UNCHANGED panic
       /\ Schedule(TRUE, runqueue, PushNext(next, q, current), status', time_slice)
    \/ next[current] # None /\ Panic("Next")

\* The list a blocked thread is pushed on, unless the assertion failed.
BlockedOn(q) == IF next[current] = None THEN Push(q, current) ELSE q

\* A trap is taken: the kernel is not halted.
Alive == panic = None

\* An ecall: the current thread runs user code, so it has an address space.
Ecall == Alive /\ current # IDLE /\ vspace[current] = "Root"

-----------------------------------------------------------------------------
(***************************************************************************)
(* Endpoints.                                                              *)
(***************************************************************************)

\* Mutant: the endpoint is not made idle when its last thread is taken out.
PopFromQueueKeepsState(e, dir) ==
    LET st == IF ep_state[e] = "Idel" THEN dir ELSE ep_state[e]
    IN  [thread |-> IF st = dir THEN None ELSE ep_queue[e].head,
         state  |-> st,
         queue  |-> IF st = dir THEN ep_queue[e] ELSE Pop(ep_queue[e], next)]

\* pop_from_queue: an idle endpoint takes the caller's direction; a thread is
\* taken out only if those queued wait in the other direction.
PopFromQueue(e, dir) ==
    LET st   == IF ep_state[e] = "Idel" THEN dir ELSE ep_state[e]
        rest == Pop(ep_queue[e], next)
    IN  IF st = dir
        THEN [thread |-> None, state |-> st, queue |-> ep_queue[e]]
        ELSE [thread |-> ep_queue[e].head,
              state  |-> IF IsEmpty(rest) THEN "Idel" ELSE st,
              queue  |-> rest]

\* Mutant: the message is not copied.
SetIpcMsgDropped(buf, from, to) == buf

\* set_ipc_msg: the message is copied if both threads have a buffer.
SetIpcMsg(buf, from, to) ==
    IF buf[from] # None /\ buf[to] # None THEN [buf EXCEPT ![to] = buf[from]] ELSE buf

\* The current thread puts msg in its IPC buffer, if it has one.
Fill(msg) == [ipc_buffer EXCEPT ![current] = IF @ = None THEN None ELSE msg]

\* EpSend through a capability with badge b, msg being in the sender's buffer.
EpSend(e, b, msg) ==
    /\ Ecall
    /\ badge' = [badge EXCEPT ![current] = b]
    /\ UNCHANGED <<notifyVars, vspace>>
    /\ LET p == PopFromQueue(e, "Send")
       IN  /\ ep_state' = [ep_state EXCEPT ![e] = p.state]
           /\ \/ /\ p.thread # None
                 /\ ep_queue' = [ep_queue EXCEPT ![e] = p.queue]
                 /\ ipc_buffer' = SetIpcMsg(Fill(msg), current, p.thread)
                 /\ a1' = [a1 EXCEPT ![current] = None, ![p.thread] = b]
                 /\ WakeUpThread(p.thread)
              \/ /\ p.thread = None
                 /\ ep_queue' = [ep_queue EXCEPT ![e] = BlockedOn(p.queue)]
                 /\ ipc_buffer' = Fill(msg)
                 /\ a1' = [a1 EXCEPT ![current] = None]
                 /\ BlockThread(p.queue)

EpRecv(e) ==
    /\ Ecall
    /\ UNCHANGED <<notifyVars, badge, vspace>>
    /\ LET p == PopFromQueue(e, "Recv")
       IN  /\ ep_state' = [ep_state EXCEPT ![e] = p.state]
           /\ \/ /\ p.thread # None
                 /\ ep_queue' = [ep_queue EXCEPT ![e] = p.queue]
                 /\ ipc_buffer' = SetIpcMsg(ipc_buffer, p.thread, current)
                 /\ a1' = [a1 EXCEPT ![current] = badge[p.thread]]
                 /\ WakeUpThread(p.thread)
              \/ /\ p.thread = None
                 /\ ep_queue' = [ep_queue EXCEPT ![e] = BlockedOn(p.queue)]
                 /\ a1' = [a1 EXCEPT ![current] = None]
                 /\ UNCHANGED ipc_buffer
                 /\ BlockThread(p.queue)

-----------------------------------------------------------------------------
(***************************************************************************)
(* Notifications.  A notification word is the set of its bits, so `|` is   *)
(* union and 0 is the empty set.                                           *)
(***************************************************************************)

\* NotifySend through a capability whose badge is the set of bits val.
NotifySend(n, val) ==
    /\ Ecall
    /\ UNCHANGED <<epVars, setupVars, badge>>
    /\ LET w == wait_queue[n].head
       IN  \/ /\ w # None
              /\ wait_queue' = [wait_queue EXCEPT ![n] = Pop(@, next)]
              /\ a1' = [a1 EXCEPT ![current] = None, ![w] = val]
              /\ UNCHANGED <<notify_bit, bit_is_set>>
              /\ WakeUpThread(w)
           \/ /\ w = None
              /\ wait_queue' = [wait_queue EXCEPT ![n] = Pop(@, next)]
              /\ notify_bit' = [notify_bit EXCEPT ![n] = @ \cup val]
              /\ bit_is_set' = [bit_is_set EXCEPT ![n] = TRUE]
              /\ a1' = [a1 EXCEPT ![current] = None]
              /\ ReturnThroughSchedule

\* Mutant: the word decides, not the flag; a signal with badge 0 is not seen.
SignalPendingByWord(n) == notify_bit[n] # {}

SignalPending(n) == bit_is_set[n]

NotifyWait(n) ==
    /\ Ecall
    /\ UNCHANGED <<epVars, setupVars, badge>>
    /\ \/ /\ SignalPending(n)
          /\ a1' = [a1 EXCEPT ![current] = notify_bit[n]]
          /\ notify_bit' = [notify_bit EXCEPT ![n] = {}]
          /\ bit_is_set' = [bit_is_set EXCEPT ![n] = FALSE]
          /\ UNCHANGED wait_queue
          /\ ReturnThroughSchedule
       \/ /\ ~SignalPending(n)
          /\ a1' = [a1 EXCEPT ![current] = None]
          /\ wait_queue' = [wait_queue EXCEPT ![n] = BlockedOn(@)]
          /\ UNCHANGED <<notify_bit, bit_is_set>>
          /\ BlockThread(wait_queue[n])

-----------------------------------------------------------------------------
(***************************************************************************)
(* TCB invocations.                                                        *)
(***************************************************************************)

\* TcbConfigure: set_cspace and set_vspace store copies of the capabilities and
\* assert that the slots were empty.  Both slots are filled together, so
\* vspace stands for the two.
TcbConfigure(t, root) ==
    /\ Ecall
    /\ UNCHANGED <<epVars, notifyVars, badge, ipc_buffer>>
    /\ a1' = [a1 EXCEPT ![current] = None]
    /\ \/ /\ vspace[t] = "Empty"
          /\ vspace' = [vspace EXCEPT ![t] = IF root THEN "Root" ELSE "NotRoot"]
          /\ ReturnThroughSchedule
       \/ /\ vspace[t] # "Empty"
          /\ UNCHANGED vspace
          /\ Panic("Slot")

\* TcbSetIpcBuffer with a mapped page that holds msg.
TcbSetIpcBuffer(t, msg) ==
    /\ Ecall
    /\ UNCHANGED <<epVars, notifyVars, badge, vspace>>
    /\ a1' = [a1 EXCEPT ![current] = None]
    /\ \/ /\ ipc_buffer[t] = None
          /\ ipc_buffer' = [ipc_buffer EXCEPT ![t] = msg]
          /\ ReturnThroughSchedule
       \/ /\ ipc_buffer[t] # None
          /\ UNCHANGED ipc_buffer
          /\ Panic("Slot")

\* TcbWriteReg: the registers of t are overwritten from the caller's IPC buffer.
TcbWriteReg(t, val) ==
    /\ Ecall
    /\ ipc_buffer[current] # None
    /\ status[t] \in ConfigStates
    /\ a1' = [a1 EXCEPT ![current] = None, ![t] = val]
    /\ UNCHANGED <<epVars, notifyVars, setupVars, badge>>
    /\ ReturnThroughSchedule

TcbResume(t) ==
    /\ Ecall
    /\ status[t] \in ConfigStates
    /\ a1' = [a1 EXCEPT ![current] = None]
    /\ UNCHANGED <<epVars, notifyVars, setupVars, badge>>
    /\ Resume(t)

-----------------------------------------------------------------------------
(***************************************************************************)
(* The other traps.                                                        *)
(***************************************************************************)

\* A system call that fails, or that works on objects outside this module
\* (output, untyped memory, capability slots, page tables).
OtherSyscall ==
    /\ Ecall
    /\ a1' = [a1 EXCEPT ![current] = None]
    /\ UNCHANGED <<epVars, notifyVars, setupVars, badge>>
    /\ ReturnThroughSchedule

\* time_slice -= 1 on a usize.
Decrement(x) == IF x = 0 THEN USIZE_MAX ELSE x - 1

\* The supervisor timer interrupt: timer_tick.  set_timer re-arms it on every tick.
TimerInterrupt ==
    /\ Alive
    /\ UNCHANGED <<epVars, notifyVars, setupVars, status, badge, a1, panic>>
    /\ LET ts == [time_slice EXCEPT ![current] = Decrement(@)]
       IN  \/ /\ current = IDLE
              /\ Schedule(requested, runqueue, next, status, time_slice)
           \/ /\ current # IDLE
              /\ Schedule(requested \/ ts[current] = 0, runqueue, next, status, ts)

\* Any other trap ends in panic!.  A thread that runs on the kernel's page table
\* can do nothing else: its first instruction fetch faults.
UnhandledTrap ==
    /\ Alive /\ current # IDLE
    /\ UnhandledTraps \/ vspace[current] # "Root"
    /\ UNCHANGED <<epVars, notifyVars, setupVars, badge, a1>>
    /\ Panic("Trap")

-----------------------------------------------------------------------------

\* The state in which the boot code enters the root server: make_runnable,
\* require_schedule and schedule have run once.
Init ==
    /\ next = [t \in Threads |-> None]
    /\ status = [t \in TCBs |-> CASE t = IDLE -> "Idle"
                                  [] t = Root -> "Runnable"
                                  [] OTHER    -> "Inactive"]
    /\ time_slice = [t \in TCBs |-> IF t = Root THEN TASK_QUANTUM ELSE 0]
    /\ badge = [t \in Threads |-> None]
    /\ a1 = [t \in Threads |-> None]
    /\ vspace = [t \in TCBs |-> IF t = Root THEN "Root" ELSE "Empty"]
    /\ ipc_buffer \in {[t \in Threads |-> IF t = Root THEN m ELSE None] : m \in Messages}
    /\ runqueue = NewList
    /\ requested = FALSE
    /\ current = Root
    /\ satp = Root
    /\ ep_state = [e \in Endpoints |-> "Idel"]
    /\ ep_queue = [e \in Endpoints |-> NewList]
    /\ notify_bit = [n \in Notifications |-> {}]
    /\ bit_is_set = [n \in Notifications |-> FALSE]
    /\ wait_queue = [n \in Notifications |-> NewList]
    /\ panic = None

IpcSyscall ==
    \/ \E e \in Endpoints, b \in Badges, m \in Messages : EpSend(e, b, m)
    \/ \E e \in Endpoints : EpRecv(e)
    \/ \E n \in Notifications, val \in SUBSET Bits : NotifySend(n, val)
    \/ \E n \in Notifications : NotifyWait(n)

TcbSyscall ==
    \/ \E t \in Threads, root \in BOOLEAN : TcbConfigure(t, root)
    \/ \E t \in Threads, m \in Messages : TcbSetIpcBuffer(t, m)
    \/ \E t \in Threads, val \in Values : TcbWriteReg(t, val)
    \/ \E t \in Threads : TcbResume(t)

Next == IpcSyscall \/ TcbSyscall \/ OtherSyscall \/ TimerInterrupt \/ UnhandledTrap

Spec == Init /\ [][Next]_vars

\* The timer is re-armed by every tick and, at boot, by init_kernel, and user
\* code cannot mask it: ticks keep coming.  Nothing obliges user code to make
\* system calls.
FairSpec == Spec /\ WF_vars(TimerInterrupt)

-----------------------------------------------------------------------------
(***************************************************************************)
(* Properties that hold for any number of threads and any use of resume.   *)
(***************************************************************************)

EndsAgree(l) == l.head = None <=> l.last = None

\* push and pop keep the two ends of every list in step: `head` is null exactly
\* when `last` is.  Were it not so, push would link a thread behind a list that
\* pop sees as empty (LinkedList::push, LinkedList::pop), whatever the stale
\* `next` pointers of the threads are.
QueueEnds ==
    /\ EndsAgree(runqueue)
    /\ \A e \in Endpoints : EndsAgree(ep_queue[e])
    /\ \A n \in Notifications : EndsAgree(wait_queue[n])

\* Between traps an endpoint is idle exactly when its queue is empty, so a
\* caller never finds a direction without a peer to rendezvous with, nor a peer
\* without a direction (Endpoint::pop_from_queue).
EndpointIdleIffEmpty ==
    Alive => \A e \in Endpoints : ep_state[e] = "Idel" <=> IsEmpty(ep_queue[e])

\* No wake-up is lost: a notification never holds a pending signal while a
\* thread waits on it, and it holds no bits once it is cleared
\* (Notification::send_signal, wait_signal).
NoLostWakeup ==
    \A n \in Notifications :
        /\ bit_is_set[n] => IsEmpty(wait_queue[n])
        /\ ~bit_is_set[n] => notify_bit[n] = {}

\* The running thread always has between one tick and a full quantum left: the
\* subtraction in timer_tick never wraps and no thread outstays its quantum.
TimeSliceInRange == current # IDLE => time_slice[current] \in 1..TASK_QUANTUM

\* schedule() leaves its request pending only while no other thread could run,
\* and the idle thread, under which timer_tick never asks for a reschedule, runs
\* only when no thread is queued: neither the early return nor the idle thread
\* can leave a queued thread waiting.
NoQueuedThreadForgotten ==
    /\ requested => IsEmpty(runqueue) /\ current # IDLE
    /\ current = IDLE => IsEmpty(runqueue)

\* The active page table is the current thread's own, or the kernel's when the
\* thread has no root page table: no thread runs in the address space of the
\* thread that was current before it (schedule, activate_vspace).
AddressSpaceOfCurrent ==
    satp = IF vspace[current] = "Root" THEN current ELSE None

\* A blocked thread becomes runnable only when another thread meets it at the
\* head of the queue it waits in.  A receiver then has the sender's badge in a1
\* and, if both have a buffer, its message; a notification waiter has a word of
\* the notification (Endpoint::send and recv, Notification::send_signal).
ServedByPeer(t) ==
    \/ \E e \in Endpoints :
          /\ t = ep_queue[e].head /\ t # current
          /\ ep_state[e] = "Recv" =>
                /\ a1'[t] = badge'[current]
                /\ ipc_buffer[t] # None /\ ipc_buffer[current] # None
                      => ipc_buffer'[t] = ipc_buffer'[current]
          /\ ep_state[e] = "Send" => a1'[current] = badge[t]
    \/ \E n \in Notifications :
          t = wait_queue[n].head /\ t # current /\ a1'[t] \in SUBSET Bits

-----------------------------------------------------------------------------
(***************************************************************************)
(* Properties of systems in which at most two threads have been started.   *)
(* Then every list has at most one item and no `next` pointer is written,  *)
(* until both threads wait in one queue and the idle thread runs for good. *)
(* From the third thread on, pop leaves pointers behind: see the           *)
(* properties of the last section.                                         *)
(***************************************************************************)

Started(t) == status[t] # "Inactive"

AtMostTwoStarted ==
    \E a, b \in Threads : \A t \in Threads : Started(t) => t \in {a, b}

WaitsAtEndpoint(t, e) == t = ep_queue[e].head
WaitsAtNotification(t, n) == t = wait_queue[n].head
Waits(t) ==
    \/ \E e \in Endpoints : WaitsAtEndpoint(t, e)
    \/ \E n \in Notifications : WaitsAtNotification(t, n)

\* The thread states and the lists tell the same story: no list has a second
\* item, a thread is runnable exactly when it runs or is queued to run, it is
\* blocked exactly when it waits at an object, and then at one object only; the
\* thread that runs is in no list.
ListsMatchStates ==
    /\ \A t \in Threads : next[t] = None
    /\ runqueue.last = runqueue.head
    /\ \A e \in Endpoints : ep_queue[e].last = ep_queue[e].head
    /\ \A n \in Notifications : wait_queue[n].last = wait_queue[n].head
    /\ \A t \in Threads :
          /\ status[t] = "Runnable" <=> t = current \/ t = runqueue.head
          /\ status[t] = "Blocked" <=> Waits(t)
    /\ runqueue.head # current
    /\ \A t \in Threads, e, f \in Endpoints :
          WaitsAtEndpoint(t, e) /\ WaitsAtEndpoint(t, f) => e = f
    /\ \A t \in Threads, n, m \in Notifications :
          WaitsAtNotification(t, n) /\ WaitsAtNotification(t, m) => n = m
    /\ \A t \in Threads, e \in Endpoints, n \in Notifications :
          ~(WaitsAtEndpoint(t, e) /\ WaitsAtNotification(t, n))

\* While at most two threads have been started, no assert!(tcb.next_is_none())
\* fails (wake_up_thread, block_thread), states and lists agree as long as one of
\* the threads runs, and the idle thread runs only when none of them could.
TwoThreadsSound ==
    AtMostTwoStarted =>
        /\ panic # "Next"
        /\ current # IDLE => ListsMatchStates
        /\ current = IDLE => \A t \in Threads : ~IsRunnable(status, t)

\* While at most two threads have been started, a thread that has been woken
\* keeps the value it was woken with until it runs: no other thread's system
\* call overwrites its a1.
ResultKeptUntilRun ==
    [][AtMostTwoStarted' =>
          \A t \in Threads \ {current} : IsRunnable(status, t) => a1'[t] = a1[t]]_vars

\* While at most two threads have been started, no blocked thread is woken except
\* by a peer (see ServedByPeer).  With three, a stale pointer can bring a blocked
\* thread to the processor, and it can then wake itself up.
WokenOnlyByPeer ==
    [][AtMostTwoStarted' =>
          \A t \in Threads :
             status[t] = "Blocked" /\ status'[t] = "Runnable" => ServedByPeer(t)]_vars

\* A runnable thread gets the processor, unless the kernel panics: the timer
\* takes it from the running thread, and schedule() gives it to the queued one.
RunnableEventuallyRuns ==
    \A t \in Threads : IsRunnable(status, t) ~> (current = t \/ ~Alive)

-----------------------------------------------------------------------------
(***************************************************************************)
(* What the code says of itself, and does not keep once a third thread has *)
(* been started.                                                           *)
(***************************************************************************)

\* The assertions of wake_up_thread and block_thread never fail.
NextIsNoneAsserted == panic # "Next"

\* block_thread: the thread that blocks is not in the run queue.
BlockedNotInRunqueue ==
    \A t \in Threads : status[t] = "Blocked" => t \notin ListItems(runqueue, next)

=============================================================================
