--------------------------- MODULE KernelProofs ---------------------------
(***************************************************************************)
(* Theorems about Kernel, for any number of threads, endpoints and         *)
(* notifications.                                                          *)
(***************************************************************************)
EXTENDS Kernel, TLAPS

\* The backends of a leaf that names none, in the order they are tried.
USE SMTT(20), ZenonT(10), SMTT(30), SMTT(40), SMTT(50)

-----------------------------------------------------------------------------
(***************************************************************************)
(* The list operations.                                                    *)
(***************************************************************************)

Pointers == [Threads -> Threads \cup {None}]

\* LinkedList::push leaves a list of threads whose ends agree, and not empty.
LEMMA PushFacts ==
  ASSUME NEW l \in Lists(Threads), NEW t \in Threads
  PROVE  /\ Push(l, t) \in Lists(Threads)
         /\ EndsAgree(l) => EndsAgree(Push(l, t)) /\ ~IsEmpty(Push(l, t))
BY KernelAssumption DEF Lists, Push, EndsAgree, IsEmpty, TCBs

\* LinkedList::push writes only pointers to threads.
LEMMA PushNextFacts ==
  ASSUME NEW l \in Lists(Threads), NEW t \in Threads, NEW nx \in Pointers
  PROVE  PushNext(nx, l, t) \in Pointers
BY DEF Lists, PushNext, Pointers

\* LinkedList::pop leaves a list of threads whose ends agree, whatever the
\* pointers are.
LEMMA PopFacts ==
  ASSUME NEW l \in Lists(Threads), NEW nx \in Pointers
  PROVE  /\ Pop(l, nx) \in Lists(Threads)
         /\ EndsAgree(l) => EndsAgree(Pop(l, nx))
         /\ IsEmpty(l) => IsEmpty(Pop(l, nx))
BY KernelAssumption DEF Lists, Pop, NextOf, Pointers, EndsAgree, IsEmpty, TCBs

-----------------------------------------------------------------------------
(***************************************************************************)
(* The scheduler.                                                          *)
(***************************************************************************)

StatusOK(st) == /\ st \in [TCBs -> ThreadState]
                /\ \A t \in TCBs : st[t] = "Idle" <=> t = IDLE

Slices == [TCBs -> 0..USIZE_MAX]

SchedOK ==
    /\ next \in Pointers
    /\ time_slice \in Slices
    /\ runqueue \in Lists(Threads)
    /\ requested \in BOOLEAN
    /\ current \in TCBs
    /\ satp \in Threads \cup {None}

SchedInv ==
    /\ EndsAgree(runqueue)
    /\ TimeSliceInRange
    /\ NoQueuedThreadForgotten
    /\ AddressSpaceOfCurrent

\* schedule() keeps the types of what it writes, and leaves a run queue whose
\* ends agree, a running thread with time left and its own address space, and no
\* request pending while a thread is queued.
LEMMA ScheduleStep ==
  ASSUME NEW req \in BOOLEAN, NEW rq \in Lists(Threads), NEW nx \in Pointers,
         NEW st, StatusOK(st), NEW ts \in Slices,
         current \in TCBs, satp \in Threads \cup {None}, vspace'[IDLE] = "Empty",
         EndsAgree(rq),
         current # IDLE => req \/ ts[current] \in 1..TASK_QUANTUM,
         current = IDLE => IsEmpty(rq),
         satp = IF vspace'[current] = "Root" THEN current ELSE None,
         Schedule(req, rq, nx, st, ts)
  PROVE  SchedOK' /\ SchedInv'
<1>. USE DEF Schedule, SwitchToQueued, KeepRunning, SwitchToIdle
<1>a. TASK_QUANTUM \in 0..USIZE_MAX /\ TASK_QUANTUM \in 1..TASK_QUANTUM
  BY KernelAssumption
<1>b. IsRunnable(st, current) => current \in Threads
  BY DEF IsRunnable, StatusOK, TCBs
<1>c. IDLE \notin Threads
  BY KernelAssumption
<1>1. CASE ~req
  <2>1. SchedOK'
    BY Zenon, <1>1 DEF SchedOK
  <2>2. SchedInv'
    BY <1>1 DEF SchedInv, TimeSliceInRange, NoQueuedThreadForgotten, AddressSpaceOfCurrent
  <2>. QED  BY <2>1, <2>2
<1>2. CASE req /\ ~IsEmpty(rq)
  <2>1. rq.head \in Threads
    BY <1>2 DEF IsEmpty, Lists
  <2>2. time_slice' \in Slices /\ time_slice'[rq.head] = TASK_QUANTUM
    BY <1>2, <2>1, <1>a DEF Slices, TCBs
  <2>3. /\ runqueue' \in Lists(Threads) /\ next' \in Pointers
        /\ EndsAgree(runqueue')
    BY <1>2, <1>b, PushFacts, PushNextFacts, PopFacts
  <2>4. /\ current' = rq.head /\ requested' = FALSE
        /\ satp' = IF vspace'[rq.head] = "Root" THEN rq.head ELSE None
    BY <1>2 DEF ActivateVSpace
  <2>5. SchedOK'
    BY Zenon, <2>1, <2>2, <2>3, <2>4 DEF SchedOK, TCBs
  <2>6. SchedInv'
    BY <1>a, <1>c, <2>1, <2>2, <2>3, <2>4
       DEF SchedInv, TimeSliceInRange, NoQueuedThreadForgotten, AddressSpaceOfCurrent, EndsAgree
  <2>. QED  BY <2>5, <2>6
<1>3. CASE req /\ IsEmpty(rq) /\ IsRunnable(st, current)
  <2>1. /\ time_slice' \in Slices /\ time_slice'[current] = TASK_QUANTUM
        /\ UNCHANGED <<current, satp>> /\ requested' = TRUE /\ next' = nx
    BY <1>3, <1>a DEF Slices
  <2>2. runqueue' \in Lists(Threads) /\ EndsAgree(runqueue') /\ IsEmpty(runqueue')
    BY <1>3, PopFacts
  <2>3. SchedOK'
    BY <2>1, <2>2 DEF SchedOK
  <2>4. SchedInv'
    BY <1>a, <1>b, <1>c, <1>3, <2>1, <2>2
       DEF SchedInv, TimeSliceInRange, NoQueuedThreadForgotten, AddressSpaceOfCurrent, EndsAgree
  <2>. QED  BY <2>3, <2>4
<1>4. CASE req /\ IsEmpty(rq) /\ ~IsRunnable(st, current)
  <2>1. /\ current' = IDLE /\ satp' = None /\ requested' = FALSE
        /\ next' = nx /\ time_slice' = ts
    BY <1>4 DEF ActivateVSpace
  <2>2. runqueue' \in Lists(Threads) /\ EndsAgree(runqueue') /\ IsEmpty(runqueue')
    BY <1>4, PopFacts
  <2>3. SchedOK'
    BY Zenon, <2>1, <2>2 DEF SchedOK, TCBs
  <2>4. SchedInv'
    BY <2>1, <2>2
       DEF SchedInv, TimeSliceInRange, NoQueuedThreadForgotten, AddressSpaceOfCurrent, EndsAgree
  <2>. QED  BY <2>3, <2>4
<1>. QED
  BY <1>1, <1>2, <1>3, <1>4

-----------------------------------------------------------------------------
(***************************************************************************)
(* The ends of the handlers: each leaves the scheduler's state sound.      *)
(***************************************************************************)

TailOK ==
    /\ SchedOK /\ SchedInv
    /\ StatusOK(status)
    /\ panic \in PanicReason \cup {None}

\* What a handler may have done to the address spaces before its end.
VSpaceKept == vspace'[IDLE] = "Empty" /\ vspace'[current] = vspace[current]

\* A failed assertion leaves the scheduler's state as it was.
LEMMA PanicTail ==
  ASSUME TailOK, VSpaceKept, NEW reason \in PanicReason, Panic(reason)
  PROVE  TailOK'
BY DEF TailOK, VSpaceKept, Panic, schedVars, SchedOK, SchedInv, TimeSliceInRange,
       NoQueuedThreadForgotten, AddressSpaceOfCurrent, StatusOK

\* A handler that ends in schedule() alone.
LEMMA ReturnTail ==
  ASSUME TailOK, VSpaceKept, ReturnThroughSchedule
  PROVE  TailOK'
<1>1. SchedOK' /\ SchedInv'
  BY ScheduleStep DEF TailOK, VSpaceKept, ReturnThroughSchedule, SchedOK, SchedInv,
     TimeSliceInRange, NoQueuedThreadForgotten, AddressSpaceOfCurrent
<1>. QED
  BY <1>1 DEF TailOK, ReturnThroughSchedule, StatusOK

\* A thread is made runnable and queued by a running thread.
LEMMA ResumeTail ==
  ASSUME TailOK, VSpaceKept, current # IDLE, NEW t \in Threads, Resume(t)
  PROVE  TailOK'
<1>1. StatusOK(status')
  BY KernelAssumption DEF Resume, TailOK, StatusOK, ThreadState, TCBs
<1>2. /\ Push(runqueue, t) \in Lists(Threads) /\ EndsAgree(Push(runqueue, t))
      /\ PushNext(next, runqueue, t) \in Pointers
  BY PushFacts, PushNextFacts DEF TailOK, SchedOK, SchedInv
<1>3. Schedule(requested, Push(runqueue, t), PushNext(next, runqueue, t), status', time_slice)
  BY DEF Resume
<1>4. SchedOK' /\ SchedInv'
  BY <1>1, <1>2, <1>3, ScheduleStep DEF TailOK, VSpaceKept, SchedOK, SchedInv,
     TimeSliceInRange, AddressSpaceOfCurrent
<1>. QED
  BY <1>1, <1>4 DEF TailOK, Resume, StatusOK

\* A queued thread is woken, or the assertion on its pointer fails.
LEMMA WakeTail ==
  ASSUME TailOK, VSpaceKept, current # IDLE, NEW t \in Threads, WakeUpThread(t)
  PROVE  TailOK'
<1>1. CASE Resume(t)
  BY <1>1, ResumeTail
<1>2. CASE Panic("Next")
  BY <1>2, PanicTail DEF PanicReason
<1>. QED
  BY <1>1, <1>2 DEF WakeUpThread

\* The running thread blocks on the list q, or the assertion on its pointer fails.
LEMMA BlockTail ==
  ASSUME TailOK, VSpaceKept, current # IDLE, NEW q \in Lists(Threads), BlockThread(q)
  PROVE  TailOK'
<1>1. CASE Panic("Next")
  BY <1>1, PanicTail DEF PanicReason
<1>2. CASE ~Panic("Next")
  <2>1. /\ status' = [status EXCEPT ![current] = "Blocked"] /\ UNCHANGED panic
        /\ Schedule(TRUE, runqueue, PushNext(next, q, current), status', time_slice)
    BY Zenon, <1>2 DEF BlockThread
  <2>2. current \in Threads
    BY DEF TailOK, SchedOK, TCBs
  <2>3. StatusOK(status')
    BY <2>1, <2>2, KernelAssumption DEF TailOK, StatusOK, ThreadState, TCBs
  <2>4. PushNext(next, q, current) \in Pointers
    BY <2>2, PushNextFacts DEF TailOK, SchedOK
  <2>5. SchedOK' /\ SchedInv'
    BY Zenon, <2>1, <2>3, <2>4, ScheduleStep DEF TailOK, VSpaceKept, SchedOK, SchedInv,
       AddressSpaceOfCurrent
  <2>. QED
    BY <2>1, <2>3, <2>5 DEF TailOK, StatusOK
<1>. QED
  BY <1>1, <1>2

\* The list a blocking thread is pushed on keeps its type and its ends.
LEMMA BlockedOnFacts ==
  ASSUME NEW q \in Lists(Threads), current \in Threads, EndsAgree(q)
  PROVE  /\ BlockedOn(q) \in Lists(Threads)
         /\ EndsAgree(BlockedOn(q))
         /\ next[current] = None => ~IsEmpty(BlockedOn(q))
BY PushFacts DEF BlockedOn

-----------------------------------------------------------------------------
(***************************************************************************)
(* The inductive invariant.                                                *)
(***************************************************************************)

ThreadDataOK ==
    /\ badge \in [Threads -> Badges \cup {None}]
    /\ a1 \in [Threads -> {None} \cup Badges \cup SUBSET Bits]
    /\ vspace \in [TCBs -> VSpaceState]
    /\ vspace[IDLE] = "Empty"
    /\ ipc_buffer \in [Threads -> Messages \cup {None}]

EndpointsOK ==
    /\ ep_state \in [Endpoints -> EndpointState]
    /\ ep_queue \in [Endpoints -> Lists(Threads)]
    /\ \A e \in Endpoints : EndsAgree(ep_queue[e])
    /\ EndpointIdleIffEmpty

NotificationsOK ==
    /\ notify_bit \in [Notifications -> SUBSET Bits]
    /\ bit_is_set \in [Notifications -> BOOLEAN]
    /\ wait_queue \in [Notifications -> Lists(Threads)]
    /\ \A n \in Notifications : EndsAgree(wait_queue[n])
    /\ NoLostWakeup

KernelInv == TailOK /\ ThreadDataOK /\ EndpointsOK /\ NotificationsOK

\* The objects a handler leaves alone stay sound: a panic only weakens what is
\* required of the endpoints.
LEMMA ObjectsKept ==
  ASSUME KernelInv, Alive
  PROVE  /\ UNCHANGED epVars => EndpointsOK'
         /\ UNCHANGED notifyVars => NotificationsOK'
         /\ UNCHANGED <<setupVars, badge, a1>> => ThreadDataOK'
BY DEF KernelInv, EndpointsOK, NotificationsOK, ThreadDataOK, epVars, notifyVars,
       setupVars, EndpointIdleIffEmpty, NoLostWakeup, Alive

\* The thread that makes a system call is a thread, not the idle thread.
LEMMA CallerIsThread ==
  ASSUME KernelInv, Ecall
  PROVE  current \in Threads /\ current # IDLE /\ Alive /\ vspace[current] = "Root"
BY DEF KernelInv, TailOK, SchedOK, Ecall, TCBs

\* Writes of a1 by a handler keep its type.
LEMMA ResultType ==
  ASSUME KernelInv, NEW c \in Threads, NEW t \in Threads,
         NEW v \in {None} \cup Badges \cup SUBSET Bits
  PROVE  /\ [a1 EXCEPT ![c] = v] \in [Threads -> {None} \cup Badges \cup SUBSET Bits]
         /\ [a1 EXCEPT ![c] = None, ![t] = v]
               \in [Threads -> {None} \cup Badges \cup SUBSET Bits]
         /\ [a1 EXCEPT ![c] = None] \in [Threads -> {None} \cup Badges \cup SUBSET Bits]
BY DEF KernelInv, ThreadDataOK

\* What Endpoint::pop_from_queue returns: a thread only in the other direction,
\* and a state that agrees with the queue left behind; when it returns no
\* thread, the endpoint has the caller's direction.
LEMMA PopFromQueueFacts ==
  ASSUME KernelInv, Alive, NEW e \in Endpoints, NEW dir \in {"Send", "Recv"}
  PROVE  LET p == PopFromQueue(e, dir)
         IN  /\ p.thread \in Threads \cup {None}
             /\ p.state \in EndpointState
             /\ p.queue \in Lists(Threads)
             /\ EndsAgree(p.queue)
             /\ p.thread # None => (p.state = "Idel" <=> IsEmpty(p.queue))
             /\ p.thread = None => p.state = dir /\ p.queue = ep_queue[e]
<1>1. /\ ep_queue[e] \in Lists(Threads) /\ EndsAgree(ep_queue[e])
      /\ ep_state[e] \in EndpointState /\ next \in Pointers
      /\ ep_state[e] = "Idel" <=> IsEmpty(ep_queue[e])
  BY DEF KernelInv, EndpointsOK, EndpointIdleIffEmpty, TailOK, SchedOK
<1>2. /\ Pop(ep_queue[e], next) \in Lists(Threads)
      /\ EndsAgree(Pop(ep_queue[e], next))
  BY <1>1, PopFacts
<1>3. ep_queue[e].head \in Threads \cup {None}
  BY <1>1 DEF Lists
<1>. QED
  BY <1>1, <1>2, <1>3 DEF PopFromQueue, EndpointState, IsEmpty

\* The endpoint after a rendezvous or after the caller has queued up.
LEMMA EndpointStep ==
  ASSUME KernelInv, Alive, NEW e \in Endpoints, NEW dir \in {"Send", "Recv"},
         current \in Threads,
         LET p == PopFromQueue(e, dir)
         IN  /\ ep_state' = [ep_state EXCEPT ![e] = p.state]
             /\ \/ p.thread # None /\ ep_queue' = [ep_queue EXCEPT ![e] = p.queue]
                \/ /\ p.thread = None
                   /\ ep_queue' = [ep_queue EXCEPT ![e] = BlockedOn(p.queue)]
                   /\ Alive' => next[current] = None
  PROVE  EndpointsOK'
<1>. DEFINE p == PopFromQueue(e, dir)
<1>1. /\ p.thread \in Threads \cup {None}
      /\ p.state \in EndpointState
      /\ p.queue \in Lists(Threads)
      /\ EndsAgree(p.queue)
      /\ p.thread # None => (p.state = "Idel" <=> IsEmpty(p.queue))
      /\ p.thread = None => p.state = dir
  BY PopFromQueueFacts
<1>2. /\ BlockedOn(p.queue) \in Lists(Threads)
      /\ EndsAgree(BlockedOn(p.queue))
      /\ next[current] = None => ~IsEmpty(BlockedOn(p.queue))
  BY <1>1, BlockedOnFacts
<1>. HIDE DEF p
<1>3. PICK q \in Lists(Threads) :
        /\ ep_state' = [ep_state EXCEPT ![e] = p.state]
        /\ ep_queue' = [ep_queue EXCEPT ![e] = q]
        /\ EndsAgree(q)
        /\ Alive' => (p.state = "Idel" <=> IsEmpty(q))
  BY <1>1, <1>2 DEF p
<1>4. ep_state' \in [Endpoints -> EndpointState] /\ ep_queue' \in [Endpoints -> Lists(Threads)]
  BY <1>1, <1>3 DEF KernelInv, EndpointsOK
<1>5. ASSUME NEW f \in Endpoints
      PROVE  /\ EndsAgree(ep_queue'[f])
             /\ Alive' => (ep_state'[f] = "Idel" <=> IsEmpty(ep_queue'[f]))
  BY <1>3, <1>5 DEF KernelInv, EndpointsOK, EndpointIdleIffEmpty
<1>. QED
  BY <1>4, <1>5 DEF EndpointsOK, EndpointIdleIffEmpty

-----------------------------------------------------------------------------
(***************************************************************************)
(* One lemma per action: it preserves the invariant.                       *)
(***************************************************************************)

\* Endpoint::send
LEMMA EpSendInv ==
  ASSUME KernelInv, NEW e \in Endpoints, NEW b \in Badges, NEW m \in Messages,
         EpSend(e, b, m)
  PROVE  KernelInv'
<1>. DEFINE p == PopFromQueue(e, "Send")
<1>1. Ecall /\ current \in Threads /\ current # IDLE /\ Alive
  BY CallerIsThread DEF EpSend
<1>2. p.thread \in Threads \cup {None} /\ p.queue \in Lists(Threads)
  BY <1>1, PopFromQueueFacts
<1>3. VSpaceKept
  BY DEF EpSend, VSpaceKept, KernelInv, ThreadDataOK
<1>4. NotificationsOK'
  BY <1>1, ObjectsKept DEF EpSend
<1>5. Fill(m) \in [Threads -> Messages \cup {None}]
  BY <1>1 DEF Fill, KernelInv, ThreadDataOK
<1>6. CASE p.thread # None
  <2>1. /\ ep_state' = [ep_state EXCEPT ![e] = p.state]
        /\ ep_queue' = [ep_queue EXCEPT ![e] = p.queue]
        /\ ipc_buffer' = SetIpcMsg(Fill(m), current, p.thread)
        /\ a1' = [a1 EXCEPT ![current] = None, ![p.thread] = b]
        /\ badge' = [badge EXCEPT ![current] = b] /\ UNCHANGED vspace
        /\ WakeUpThread(p.thread)
    BY <1>6 DEF EpSend
  <2>2. TailOK'
    BY <1>1, <1>2, <1>3, <1>6, <2>1, WakeTail DEF KernelInv
  <2>3. EndpointsOK'
    BY Zenon, <1>1, <1>6, <2>1, EndpointStep
  <2>4. ThreadDataOK'
    <3>1. a1' \in [Threads -> {None} \cup Badges \cup SUBSET Bits]
      BY Zenon, <1>1, <1>2, <1>6, <2>1, ResultType
    <3>2. ipc_buffer' \in [Threads -> Messages \cup {None}]
      BY <1>1, <1>2, <1>5, <1>6, <2>1 DEF SetIpcMsg
    <3>. QED
      BY <1>1, <2>1, <3>1, <3>2 DEF KernelInv, ThreadDataOK
  <2>. QED
    BY <1>4, <2>2, <2>3, <2>4 DEF KernelInv
<1>7. CASE p.thread = None
  <2>1. /\ ep_state' = [ep_state EXCEPT ![e] = p.state]
        /\ ep_queue' = [ep_queue EXCEPT ![e] = BlockedOn(p.queue)]
        /\ ipc_buffer' = Fill(m)
        /\ a1' = [a1 EXCEPT ![current] = None]
        /\ badge' = [badge EXCEPT ![current] = b] /\ UNCHANGED vspace
        /\ BlockThread(p.queue)
    BY <1>7 DEF EpSend
  <2>2. TailOK'
    BY <1>1, <1>2, <1>3, <2>1, BlockTail DEF KernelInv
  <2>3. Alive' => next[current] = None
    BY Zenon, <2>1, KernelAssumption DEF BlockThread, Panic, Alive, PanicReason
  <2>4. EndpointsOK'
    BY Zenon, <1>1, <1>7, <2>1, <2>3, EndpointStep
  <2>5. ThreadDataOK'
    BY <1>1, <1>5, <2>1, ResultType DEF KernelInv, ThreadDataOK
  <2>. QED
    BY <1>4, <2>2, <2>4, <2>5 DEF KernelInv
<1>. QED
  BY <1>6, <1>7

\* Endpoint::recv
LEMMA EpRecvInv ==
  ASSUME KernelInv, NEW e \in Endpoints, EpRecv(e)
  PROVE  KernelInv'
<1>. DEFINE p == PopFromQueue(e, "Recv")
<1>1. Ecall /\ current \in Threads /\ current # IDLE /\ Alive
  BY CallerIsThread DEF EpRecv
<1>2. p.thread \in Threads \cup {None} /\ p.queue \in Lists(Threads)
  BY <1>1, PopFromQueueFacts
<1>3. VSpaceKept
  BY DEF EpRecv, VSpaceKept, KernelInv, ThreadDataOK
<1>4. NotificationsOK'
  BY <1>1, ObjectsKept DEF EpRecv
<1>5. CASE p.thread # None
  <2>1. /\ ep_state' = [ep_state EXCEPT ![e] = p.state]
        /\ ep_queue' = [ep_queue EXCEPT ![e] = p.queue]
        /\ ipc_buffer' = SetIpcMsg(ipc_buffer, p.thread, current)
        /\ a1' = [a1 EXCEPT ![current] = badge[p.thread]]
        /\ UNCHANGED <<badge, vspace>>
        /\ WakeUpThread(p.thread)
    BY <1>5 DEF EpRecv
  <2>2. TailOK'
    BY <1>1, <1>2, <1>3, <1>5, <2>1, WakeTail DEF KernelInv
  <2>3. EndpointsOK'
    BY Zenon, <1>1, <1>5, <2>1, EndpointStep
  <2>4. ThreadDataOK'
    <3>1. badge[p.thread] \in {None} \cup Badges \cup SUBSET Bits
      BY <1>2, <1>5 DEF KernelInv, ThreadDataOK
    <3>2. a1' \in [Threads -> {None} \cup Badges \cup SUBSET Bits]
      BY Zenon, <1>1, <2>1, <3>1, ResultType
    <3>3. ipc_buffer' \in [Threads -> Messages \cup {None}]
      BY <1>1, <1>2, <1>5, <2>1 DEF SetIpcMsg, KernelInv, ThreadDataOK
    <3>. QED
      BY <2>1, <3>2, <3>3 DEF KernelInv, ThreadDataOK
  <2>. QED
    BY <1>4, <2>2, <2>3, <2>4 DEF KernelInv
<1>6. CASE p.thread = None
  <2>1. /\ ep_state' = [ep_state EXCEPT ![e] = p.state]
        /\ ep_queue' = [ep_queue EXCEPT ![e] = BlockedOn(p.queue)]
        /\ a1' = [a1 EXCEPT ![current] = None]
        /\ UNCHANGED <<badge, vspace, ipc_buffer>>
        /\ BlockThread(p.queue)
    BY <1>6 DEF EpRecv
  <2>2. TailOK'
    BY <1>1, <1>2, <1>3, <2>1, BlockTail DEF KernelInv
  <2>3. Alive' => next[current] = None
    BY Zenon, <2>1, KernelAssumption DEF BlockThread, Panic, Alive, PanicReason
  <2>4. EndpointsOK'
    BY Zenon, <1>1, <1>6, <2>1, <2>3, EndpointStep
  <2>5. ThreadDataOK'
    BY <1>1, <2>1, ResultType DEF KernelInv, ThreadDataOK
  <2>. QED
    BY <1>4, <2>2, <2>4, <2>5 DEF KernelInv
<1>. QED
  BY <1>5, <1>6

\* Notification::send_signal
LEMMA NotifySendInv ==
  ASSUME KernelInv, NEW n \in Notifications, NEW val \in SUBSET Bits, NotifySend(n, val)
  PROVE  KernelInv'
<1>. DEFINE w == wait_queue[n].head
<1>1. Ecall /\ current \in Threads /\ current # IDLE /\ Alive
  BY CallerIsThread DEF NotifySend
<1>2. /\ wait_queue[n] \in Lists(Threads) /\ EndsAgree(wait_queue[n])
      /\ next \in Pointers /\ w \in Threads \cup {None}
  BY DEF KernelInv, NotificationsOK, TailOK, SchedOK, Lists
<1>3. /\ Pop(wait_queue[n], next) \in Lists(Threads)
      /\ EndsAgree(Pop(wait_queue[n], next))
      /\ w = None => IsEmpty(Pop(wait_queue[n], next))
  BY <1>2, PopFacts DEF IsEmpty
<1>4. VSpaceKept
  BY DEF NotifySend, VSpaceKept, KernelInv, ThreadDataOK, setupVars
<1>5. EndpointsOK'
  BY <1>1, ObjectsKept DEF NotifySend
<1>6. /\ wait_queue' = [wait_queue EXCEPT ![n] = Pop(wait_queue[n], next)]
      /\ UNCHANGED <<setupVars, badge>>
  BY DEF NotifySend
<1>7. CASE w # None
  <2>1. /\ a1' = [a1 EXCEPT ![current] = None, ![w] = val]
        /\ UNCHANGED <<notify_bit, bit_is_set>>
        /\ WakeUpThread(w)
    BY <1>7 DEF NotifySend
  <2>2. TailOK'
    BY <1>1, <1>2, <1>4, <1>7, <2>1, WakeTail DEF KernelInv
  <2>3. NotificationsOK'
    BY <1>3, <1>6, <1>7, <2>1
       DEF KernelInv, NotificationsOK, NoLostWakeup, IsEmpty
  <2>4. ThreadDataOK'
    BY <1>1, <1>2, <1>6, <1>7, <2>1, ResultType DEF KernelInv, ThreadDataOK, setupVars
  <2>. QED
    BY <1>5, <2>2, <2>3, <2>4 DEF KernelInv
<1>8. CASE w = None
  <2>1. /\ notify_bit' = [notify_bit EXCEPT ![n] = @ \cup val]
        /\ bit_is_set' = [bit_is_set EXCEPT ![n] = TRUE]
        /\ a1' = [a1 EXCEPT ![current] = None]
        /\ ReturnThroughSchedule
    BY <1>8 DEF NotifySend
  <2>2. TailOK'
    BY <1>4, <2>1, ReturnTail DEF KernelInv
  <2>3. NotificationsOK'
    BY <1>3, <1>6, <1>8, <2>1 DEF KernelInv, NotificationsOK, NoLostWakeup
  <2>4. ThreadDataOK'
    BY <1>1, <1>6, <2>1, ResultType DEF KernelInv, ThreadDataOK, setupVars
  <2>. QED
    BY <1>5, <2>2, <2>3, <2>4 DEF KernelInv
<1>. QED
  BY <1>7, <1>8

\* Notification::wait_signal
LEMMA NotifyWaitInv ==
  ASSUME KernelInv, NEW n \in Notifications, NotifyWait(n)
  PROVE  KernelInv'
<1>1. Ecall /\ current \in Threads /\ current # IDLE /\ Alive
  BY CallerIsThread DEF NotifyWait
<1>2. wait_queue[n] \in Lists(Threads) /\ EndsAgree(wait_queue[n])
  BY DEF KernelInv, NotificationsOK
<1>3. VSpaceKept
  BY DEF NotifyWait, VSpaceKept, KernelInv, ThreadDataOK, setupVars
<1>4. EndpointsOK'
  BY <1>1, ObjectsKept DEF NotifyWait
<1>5. UNCHANGED <<setupVars, badge>>
  BY DEF NotifyWait
<1>6. CASE bit_is_set[n]
  <2>1. /\ a1' = [a1 EXCEPT ![current] = notify_bit[n]]
        /\ notify_bit' = [notify_bit EXCEPT ![n] = {}]
        /\ bit_is_set' = [bit_is_set EXCEPT ![n] = FALSE]
        /\ UNCHANGED wait_queue
        /\ ReturnThroughSchedule
    BY <1>6 DEF NotifyWait, SignalPending
  <2>2. TailOK'
    BY <1>3, <2>1, ReturnTail DEF KernelInv
  <2>3. NotificationsOK'
    BY <2>1 DEF KernelInv, NotificationsOK, NoLostWakeup
  <2>4. ThreadDataOK'
    <3>1. notify_bit[n] \in {None} \cup Badges \cup SUBSET Bits
      BY DEF KernelInv, NotificationsOK
    <3>. QED
      BY <1>1, <1>5, <2>1, <3>1, ResultType DEF KernelInv, ThreadDataOK, setupVars
  <2>. QED
    BY <1>4, <2>2, <2>3, <2>4 DEF KernelInv
<1>7. CASE ~bit_is_set[n]
  <2>1. /\ a1' = [a1 EXCEPT ![current] = None]
        /\ wait_queue' = [wait_queue EXCEPT ![n] = BlockedOn(wait_queue[n])]
        /\ UNCHANGED <<notify_bit, bit_is_set>>
        /\ BlockThread(wait_queue[n])
    BY <1>7 DEF NotifyWait, SignalPending
  <2>2. TailOK'
    BY <1>1, <1>2, <1>3, <2>1, BlockTail DEF KernelInv
  <2>3. NotificationsOK'
    BY <1>1, <1>2, <1>7, <2>1, BlockedOnFacts DEF KernelInv, NotificationsOK, NoLostWakeup
  <2>4. ThreadDataOK'
    BY <1>1, <1>5, <2>1, ResultType DEF KernelInv, ThreadDataOK, setupVars
  <2>. QED
    BY <1>4, <2>2, <2>3, <2>4 DEF KernelInv
<1>. QED
  BY <1>6, <1>7

\* The TCB invocations, and the system calls that touch no thread.
LEMMA TcbSyscallInv ==
  ASSUME KernelInv, TcbSyscall \/ OtherSyscall
  PROVE  KernelInv'
<1>1. Ecall /\ current \in Threads /\ current # IDLE /\ Alive /\ vspace[current] = "Root"
  BY CallerIsThread
     DEF TcbSyscall, OtherSyscall, TcbConfigure, TcbSetIpcBuffer, TcbWriteReg, TcbResume
<1>2. EndpointsOK' /\ NotificationsOK'
  BY <1>1, ObjectsKept
     DEF TcbSyscall, OtherSyscall, TcbConfigure, TcbSetIpcBuffer, TcbWriteReg, TcbResume
<1>3. ASSUME NEW t \in Threads, NEW root \in BOOLEAN, TcbConfigure(t, root)
      PROVE  TailOK' /\ ThreadDataOK'
  <2>1. VSpaceKept /\ vspace' \in [TCBs -> VSpaceState]
    BY <1>1, <1>3, KernelAssumption
       DEF TcbConfigure, VSpaceKept, KernelInv, ThreadDataOK, VSpaceState, TCBs
  <2>2. TailOK'
    BY <1>3, <2>1, ReturnTail, PanicTail DEF TcbConfigure, KernelInv, PanicReason
  <2>3. ThreadDataOK'
    BY <1>1, <1>3, <2>1, ResultType DEF TcbConfigure, KernelInv, ThreadDataOK, VSpaceKept
  <2>. QED  BY <2>2, <2>3
<1>4. ASSUME NEW t \in Threads, NEW m \in Messages, TcbSetIpcBuffer(t, m)
      PROVE  TailOK' /\ ThreadDataOK'
  <2>1. VSpaceKept
    BY <1>4 DEF TcbSetIpcBuffer, VSpaceKept, KernelInv, ThreadDataOK
  <2>2. TailOK'
    BY <1>4, <2>1, ReturnTail, PanicTail DEF TcbSetIpcBuffer, KernelInv, PanicReason
  <2>3. ipc_buffer' \in [Threads -> Messages \cup {None}]
    BY <1>4 DEF TcbSetIpcBuffer, KernelInv, ThreadDataOK
  <2>4. UNCHANGED <<badge, vspace>> /\ a1' = [a1 EXCEPT ![current] = None]
    BY <1>4 DEF TcbSetIpcBuffer
  <2>5. ThreadDataOK'
    BY <1>1, <2>3, <2>4, ResultType DEF KernelInv, ThreadDataOK
  <2>. QED  BY <2>2, <2>5
<1>5. ASSUME NEW t \in Threads, NEW val \in Values, TcbWriteReg(t, val)
      PROVE  TailOK' /\ ThreadDataOK'
  <2>1. VSpaceKept
    BY <1>5 DEF TcbWriteReg, VSpaceKept, KernelInv, ThreadDataOK, setupVars
  <2>2. TailOK'
    BY <1>5, <2>1, ReturnTail DEF TcbWriteReg, KernelInv
  <2>3. val \in {None} \cup Badges \cup SUBSET Bits
    BY DEF Values
  <2>4. ThreadDataOK'
    BY <1>1, <1>5, <2>3, ResultType DEF TcbWriteReg, KernelInv, ThreadDataOK, setupVars
  <2>. QED  BY <2>2, <2>4
<1>6. ASSUME NEW t \in Threads, TcbResume(t)
      PROVE  TailOK' /\ ThreadDataOK'
  <2>1. VSpaceKept
    BY <1>6 DEF TcbResume, VSpaceKept, KernelInv, ThreadDataOK, setupVars
  <2>2. TailOK'
    BY <1>1, <1>6, <2>1, ResumeTail DEF TcbResume, KernelInv
  <2>3. ThreadDataOK'
    BY <1>1, <1>6, ResultType DEF TcbResume, KernelInv, ThreadDataOK, setupVars
  <2>. QED  BY <2>2, <2>3
<1>7. ASSUME OtherSyscall
      PROVE  TailOK' /\ ThreadDataOK'
  <2>1. VSpaceKept
    BY <1>7 DEF OtherSyscall, VSpaceKept, KernelInv, ThreadDataOK, setupVars
  <2>2. TailOK'
    BY <1>7, <2>1, ReturnTail DEF OtherSyscall, KernelInv
  <2>3. ThreadDataOK'
    BY <1>1, <1>7, ResultType DEF OtherSyscall, KernelInv, ThreadDataOK, setupVars
  <2>. QED  BY <2>2, <2>3
<1>8. TailOK' /\ ThreadDataOK'
  BY <1>3, <1>4, <1>5, <1>6, <1>7 DEF TcbSyscall
<1>. QED
  BY <1>2, <1>8 DEF KernelInv

\* timer_tick: the subtraction does not wrap, because the running thread has at
\* least one tick left; at zero the scheduler is asked to run.
LEMMA TimerInv ==
  ASSUME KernelInv, TimerInterrupt
  PROVE  KernelInv'
<1>. DEFINE ts == [time_slice EXCEPT ![current] = Decrement(@)]
<1>1. Alive /\ UNCHANGED <<epVars, notifyVars, setupVars, status, badge, a1, panic>>
  BY DEF TimerInterrupt
<1>2. EndpointsOK' /\ NotificationsOK' /\ ThreadDataOK'
  BY <1>1, ObjectsKept
<1>3. /\ vspace'[IDLE] = "Empty" /\ vspace' = vspace
      /\ next \in Pointers /\ time_slice \in Slices /\ runqueue \in Lists(Threads)
      /\ requested \in BOOLEAN /\ current \in TCBs /\ satp \in Threads \cup {None}
      /\ StatusOK(status) /\ EndsAgree(runqueue)
      /\ satp = IF vspace'[current] = "Root" THEN current ELSE None
      /\ current = IDLE => IsEmpty(runqueue)
      /\ current # IDLE => time_slice[current] \in 1..TASK_QUANTUM
  BY <1>1 DEF KernelInv, ThreadDataOK, setupVars, TailOK, SchedOK, SchedInv,
     AddressSpaceOfCurrent, NoQueuedThreadForgotten, TimeSliceInRange
<1>4. CASE current = IDLE
  <2>1. Schedule(requested, runqueue, next, status, time_slice)
    BY <1>4 DEF TimerInterrupt
  <2>2. SchedOK' /\ SchedInv'
    BY <1>3, <1>4, <2>1, ScheduleStep
  <2>. QED
    BY <1>1, <1>2, <2>2 DEF KernelInv, TailOK, StatusOK
<1>5. CASE current # IDLE
  <2>. DEFINE left == Decrement(time_slice[current])
  <2>a. /\ left \in 0..USIZE_MAX
        /\ left = 0 \/ left \in 1..TASK_QUANTUM
    <3>1. time_slice[current] \in 1..TASK_QUANTUM
      BY <1>3, <1>5
    <3>. HIDE DEF left
    <3>2. left = time_slice[current] - 1
      BY <3>1, KernelAssumption DEF left, Decrement
    <3>. QED
      BY <3>1, <3>2, KernelAssumption
  <2>b. ts = [time_slice EXCEPT ![current] = left]
    OBVIOUS
  <2>. HIDE DEF left
  <2>1. /\ ts \in Slices
        /\ ts[current] = 0 \/ ts[current] \in 1..TASK_QUANTUM
    BY <1>3, <2>a, <2>b DEF Slices
  <2>2. Schedule(requested \/ ts[current] = 0, runqueue, next, status, ts)
    BY <1>5 DEF TimerInterrupt
  <2>3. (requested \/ ts[current] = 0) \in BOOLEAN
    BY <1>3
  <2>. HIDE DEF ts
  <2>4. SchedOK' /\ SchedInv'
    BY Zenon, <1>3, <1>5, <2>1, <2>2, <2>3, ScheduleStep
  <2>. QED
    BY <1>1, <1>2, <2>4 DEF KernelInv, TailOK, StatusOK
<1>. QED
  BY <1>4, <1>5

\* A trap that panics changes nothing but the reason the kernel stopped.
LEMMA UnhandledTrapInv ==
  ASSUME KernelInv, UnhandledTrap
  PROVE  KernelInv'
<1>1. EndpointsOK' /\ NotificationsOK' /\ ThreadDataOK'
  BY ObjectsKept DEF UnhandledTrap
<1>2. VSpaceKept
  BY DEF UnhandledTrap, VSpaceKept, KernelInv, ThreadDataOK, setupVars
<1>3. TailOK'
  BY <1>2, PanicTail DEF UnhandledTrap, KernelInv, PanicReason
<1>. QED
  BY <1>1, <1>3 DEF KernelInv

\* The boot code leaves the kernel in a sound state.
LEMMA InitInv == Init => KernelInv
<1>. SUFFICES ASSUME Init PROVE KernelInv
  OBVIOUS
<1>1. NewList \in Lists(Threads) /\ EndsAgree(NewList) /\ IsEmpty(NewList)
  BY DEF NewList, Lists, EndsAgree, IsEmpty
<1>2. ThreadDataOK
  BY KernelAssumption DEF Init, ThreadDataOK, VSpaceState, TCBs
<1>3. EndpointsOK
  BY <1>1 DEF Init, EndpointsOK, EndpointIdleIffEmpty, EndpointState
<1>4. NotificationsOK
  BY <1>1 DEF Init, NotificationsOK, NoLostWakeup
<1>5. StatusOK(status)
  BY KernelAssumption DEF Init, StatusOK, ThreadState, TCBs
<1>6. SchedOK
  <2>1. /\ next = [t \in Threads |-> None] /\ runqueue = NewList /\ requested = FALSE
        /\ time_slice = [t \in TCBs |-> IF t = Root THEN TASK_QUANTUM ELSE 0]
        /\ current = Root /\ satp = Root
    BY DEF Init
  <2>2. TASK_QUANTUM \in 0..USIZE_MAX /\ 0 \in 0..USIZE_MAX
    BY KernelAssumption
  <2>3. time_slice \in Slices
    BY <2>1, <2>2 DEF Slices
  <2>. QED
    BY Zenon, <1>1, <2>1, <2>3, KernelAssumption DEF SchedOK, Pointers, TCBs
<1>7. SchedInv
  BY <1>1, KernelAssumption DEF Init, SchedInv, TimeSliceInRange,
     NoQueuedThreadForgotten, AddressSpaceOfCurrent, TCBs
<1>. QED
  BY <1>2, <1>3, <1>4, <1>5, <1>6, <1>7 DEF KernelInv, TailOK, Init

\* Every trap preserves the invariant.
LEMMA NextInv == KernelInv /\ [Next]_vars => KernelInv'
<1>1. ASSUME KernelInv, Next
      PROVE  KernelInv'
  BY <1>1, EpSendInv, EpRecvInv, NotifySendInv, NotifyWaitInv, TcbSyscallInv, TimerInv,
     UnhandledTrapInv DEF Next, IpcSyscall
<1>2. ASSUME KernelInv, UNCHANGED vars
      PROVE  KernelInv'
  BY Zenon, <1>2 DEF KernelInv, TailOK, SchedOK, SchedInv, StatusOK, TimeSliceInRange,
     NoQueuedThreadForgotten, AddressSpaceOfCurrent, ThreadDataOK, EndpointsOK,
     EndpointIdleIffEmpty, NotificationsOK, NoLostWakeup, Alive,
     vars, schedVars, setupVars, epVars, notifyVars
<1>. QED
  BY <1>1, <1>2

\* The inductive invariant holds in every reachable state.
LEMMA Invariance == Spec => []KernelInv
BY InitInv, NextInv, PTL DEF Spec

-----------------------------------------------------------------------------
(***************************************************************************)
(* The theorems.                                                           *)
(***************************************************************************)

\* Every field of every TCB, list, endpoint and notification keeps its type:
\* no pointer ever leads outside the threads of the system.
THEOREM TypeCorrect == Spec => []TypeOK
<1>1. KernelInv => TypeOK
  BY Zenon DEF KernelInv, TailOK, SchedOK, StatusOK, ThreadDataOK, EndpointsOK,
     NotificationsOK, TypeOK, Pointers, Slices
<1>. QED
  BY <1>1, Invariance, PTL

\* The ends of the run queue and of every wait queue agree, whatever stale
\* pointers LinkedList::pop has left in the threads.
THEOREM QueueEndsCorrect == Spec => []QueueEnds
<1>1. KernelInv => QueueEnds
  BY DEF KernelInv, TailOK, SchedInv, EndpointsOK, NotificationsOK, QueueEnds
<1>. QED
  BY <1>1, Invariance, PTL

\* An endpoint is idle exactly when its queue is empty, unless the kernel stopped.
THEOREM EndpointsCorrect == Spec => []EndpointIdleIffEmpty
<1>1. KernelInv => EndpointIdleIffEmpty
  BY DEF KernelInv, EndpointsOK
<1>. QED
  BY <1>1, Invariance, PTL

\* No notification holds a signal while a thread waits for one.
THEOREM NotificationsCorrect == Spec => []NoLostWakeup
<1>1. KernelInv => NoLostWakeup
  BY DEF KernelInv, NotificationsOK
<1>. QED
  BY <1>1, Invariance, PTL

\* timer_tick never wraps the time slice, and no thread outstays its quantum.
THEOREM TimeSliceCorrect == Spec => []TimeSliceInRange
<1>1. KernelInv => TimeSliceInRange
  BY DEF KernelInv, TailOK, SchedInv
<1>. QED
  BY <1>1, Invariance, PTL

\* Neither the early return of schedule() nor the idle thread leaves a queued
\* thread waiting.
THEOREM SchedulerCorrect == Spec => []NoQueuedThreadForgotten
<1>1. KernelInv => NoQueuedThreadForgotten
  BY DEF KernelInv, TailOK, SchedInv
<1>. QED
  BY <1>1, Invariance, PTL

\* The active page table is that of the thread that runs, or the kernel's.
THEOREM AddressSpaceCorrect == Spec => []AddressSpaceOfCurrent
<1>1. KernelInv => AddressSpaceOfCurrent
  BY DEF KernelInv, TailOK, SchedInv
<1>. QED
  BY <1>1, Invariance, PTL

-----------------------------------------------------------------------------
(***************************************************************************)
(* While at most two threads have been started, the intrusive lists are    *)
(* sound: no assertion on a list pointer fails, and the lists agree with   *)
(* the thread states.  The theorem is for user code that resumes a thread  *)
(* once, when it is inactive, as the root server does; the number of       *)
(* threads, endpoints and notifications is arbitrary.                      *)
(***************************************************************************)

-----------------------------------------------------------------------------
(***************************************************************************)
(* ListsMatchStates in two halves: the run queue and the wait queues.      *)
(***************************************************************************)

RunSide(cur, rq, nx, st) ==
    /\ \A t \in Threads : nx[t] = None
    /\ rq.last = rq.head
    /\ \A t \in Threads : st[t] = "Runnable" <=> t = cur \/ t = rq.head
    /\ rq.head # cur

WaitsIn(t, eq, wq) ==
    \/ \E e \in Endpoints : t = eq[e].head
    \/ \E n \in Notifications : t = wq[n].head

WaitSide(st, eq, wq) ==
    /\ \A e \in Endpoints : eq[e].last = eq[e].head
    /\ \A n \in Notifications : wq[n].last = wq[n].head
    /\ \A t \in Threads : st[t] = "Blocked" <=> WaitsIn(t, eq, wq)
    /\ \A t \in Threads, e, f \in Endpoints : t = eq[e].head /\ t = eq[f].head => e = f
    /\ \A t \in Threads, n, m \in Notifications : t = wq[n].head /\ t = wq[m].head => n = m
    /\ \A t \in Threads, e \in Endpoints, n \in Notifications :
          ~(t = eq[e].head /\ t = wq[n].head)

\* The two halves are the whole.
LEMMA TwoSides ==
  /\ ListsMatchStates <=> /\ RunSide(current, runqueue, next, status)
                          /\ WaitSide(status, ep_queue, wait_queue)
  /\ ListsMatchStates' <=> /\ RunSide(current', runqueue', next', status')
                           /\ WaitSide(status', ep_queue', wait_queue')
BY DEF ListsMatchStates, RunSide, WaitSide, WaitsIn, Waits, WaitsAtEndpoint, WaitsAtNotification

\* The run queue a handler leaves to schedule(): the threads that can run are
\* the current one, unless it has just blocked, and the queued one.
Ready(rq, nx, st) ==
    /\ \A t \in Threads : nx[t] = None
    /\ rq.last = rq.head
    /\ \A t \in Threads \ {current} : st[t] = "Runnable" <=> t = rq.head
    /\ rq.head # current

\* schedule() keeps the run queue's half, and switches to the idle thread only
\* if no thread can run.
LEMMA ScheduleTwo ==
  ASSUME NEW req \in BOOLEAN, NEW rq \in Lists(Threads), NEW nx \in Pointers,
         NEW st, NEW ts, current \in Threads,
         Ready(rq, nx, st), req \/ st[current] = "Runnable",
         Schedule(req, rq, nx, st, ts)
  PROVE  /\ current' # IDLE => RunSide(current', runqueue', next', st)
         /\ current' = IDLE => \A t \in Threads : st[t] # "Runnable"
<1>1. None \notin Threads /\ IDLE \notin Threads /\ None # IDLE
  BY KernelAssumption DEF TCBs
<1>2. CASE ~req
  BY Zenon, <1>1, <1>2 DEF Schedule, Ready, RunSide
<1>3. CASE req /\ ~IsEmpty(rq)
  <2>1. rq.head \in Threads /\ Pop(rq, nx) = NewList
    BY <1>1, <1>3 DEF IsEmpty, Lists, Pop, NextOf, Ready, NewList
  <2>2. SwitchToQueued(rq, nx, st, ts)
    BY <1>3 DEF Schedule
  <2>3. current' = rq.head
    BY <2>2 DEF SwitchToQueued
  <2>4. CASE IsRunnable(st, current)
    <3>1. runqueue' = Push(NewList, current) /\ next' = PushNext(nx, NewList, current)
      BY Zenon, <2>1, <2>2, <2>4 DEF SwitchToQueued
    <3>2. /\ Push(NewList, current) = [head |-> current, last |-> current]
          /\ PushNext(nx, NewList, current) = nx
      BY DEF Push, PushNext, NewList
    <3>. QED
      BY <1>1, <2>1, <2>3, <2>4, <3>1, <3>2 DEF RunSide, Ready, IsRunnable
  <2>5. CASE ~IsRunnable(st, current)
    <3>1. runqueue' = NewList /\ next' = nx
      BY Zenon, <2>1, <2>2, <2>5 DEF SwitchToQueued
    <3>. QED
      BY <1>1, <2>1, <2>3, <2>5, <3>1 DEF RunSide, Ready, IsRunnable, NewList
  <2>. QED
    BY <2>4, <2>5
<1>4. CASE req /\ IsEmpty(rq) /\ IsRunnable(st, current)
  <2>1. runqueue' = NewList /\ next' = nx /\ current' = current
    BY <1>4 DEF Schedule, KeepRunning, Pop, NextOf, IsEmpty, NewList
  <2>. QED
    BY Zenon, <1>1, <1>4, <2>1 DEF RunSide, Ready, IsRunnable, NewList, IsEmpty
<1>5. CASE req /\ IsEmpty(rq) /\ ~IsRunnable(st, current)
  <2>1. current' = IDLE
    BY <1>5 DEF Schedule, SwitchToIdle
  <2>. QED
    BY Zenon, <1>1, <1>5, <2>1 DEF Ready, IsRunnable, IsEmpty
<1>. QED
  BY <1>2, <1>3, <1>4, <1>5

-----------------------------------------------------------------------------
(***************************************************************************)
(* The wait queues' half, when a thread joins or leaves a queue.           *)
(***************************************************************************)

\* Only c changes its place, from the queues eq, wq and the state st to eu, wu and su.
OnlyMoves(c, st, eq, wq, su, eu, wu) ==
    /\ \A e \in Endpoints : eu[e].last = eu[e].head
    /\ \A n \in Notifications : wu[n].last = wu[n].head
    /\ \A t \in Threads \ {c} :
        /\ st[t] = su[t]
        /\ \A e \in Endpoints : t = eu[e].head <=> t = eq[e].head
        /\ \A n \in Notifications : t = wu[n].head <=> t = wq[n].head

\* The queues' half holds of c.
WellPlaced(c, su, eu, wu) ==
    /\ su[c] = "Blocked" <=> WaitsIn(c, eu, wu)
    /\ \A e, f \in Endpoints : c = eu[e].head /\ c = eu[f].head => e = f
    /\ \A n, m \in Notifications : c = wu[n].head /\ c = wu[m].head => n = m
    /\ \A e \in Endpoints, n \in Notifications : ~(c = eu[e].head /\ c = wu[n].head)

\* A handler that blocks or wakes one thread keeps the queues' half if it holds of that thread.
LEMMA OneMoves ==
  ASSUME NEW st, NEW eq, NEW wq, WaitSide(st, eq, wq), NEW c \in Threads,
         NEW su, NEW eu, NEW wu, OnlyMoves(c, st, eq, wq, su, eu, wu), WellPlaced(c, su, eu, wu)
  PROVE  WaitSide(su, eu, wu)
<1>1. ASSUME NEW t \in Threads \ {c} PROVE WellPlaced(t, su, eu, wu)
  <2>1. WellPlaced(t, st, eq, wq)
    BY Zenon DEF WaitSide, WellPlaced
  <2>2. /\ st[t] = su[t]
        /\ \A e \in Endpoints : t = eu[e].head <=> t = eq[e].head
        /\ \A n \in Notifications : t = wu[n].head <=> t = wq[n].head
    BY Zenon DEF OnlyMoves
  <2>3. WaitsIn(t, eu, wu) <=> WaitsIn(t, eq, wq)
    BY Zenon, <2>2 DEF WaitsIn
  <2>4. \A e, f \in Endpoints : t = eu[e].head /\ t = eu[f].head => e = f
    BY Zenon, <2>1, <2>2 DEF WellPlaced
  <2>5. \A n, m \in Notifications : t = wu[n].head /\ t = wu[m].head => n = m
    BY Zenon, <2>1, <2>2 DEF WellPlaced
  <2>6. \A e \in Endpoints, n \in Notifications : ~(t = eu[e].head /\ t = wu[n].head)
    BY Zenon, <2>1, <2>2 DEF WellPlaced
  <2>7. su[t] = "Blocked" <=> WaitsIn(t, eu, wu)
    BY Zenon, <2>1, <2>2, <2>3 DEF WellPlaced
  <2>. QED  BY Zenon, <2>4, <2>5, <2>6, <2>7 DEF WellPlaced
<1>2. \A t \in Threads : WellPlaced(t, su, eu, wu)
  BY Zenon, <1>1
<1>. QED  BY Zenon, <1>2 DEF WaitSide, WellPlaced, OnlyMoves

\* A running thread queues up alone at an endpoint.
LEMMA JoinEndpoint ==
  ASSUME KernelInv, WaitSide(status, ep_queue, wait_queue), NEW e \in Endpoints,
         NEW c \in Threads, status[c] = "Runnable", ep_queue[e].head = None
  PROVE  WaitSide([status EXCEPT ![c] = "Blocked"], [ep_queue EXCEPT ![e] = [head |-> c, last |-> c]], wait_queue)
<1>1. status \in [TCBs -> ThreadState] /\ ep_queue \in [Endpoints -> Lists(Threads)]
  BY DEF KernelInv, TailOK, StatusOK, EndpointsOK
<1>2. None \notin Threads /\ c \in TCBs
  BY KernelAssumption DEF TCBs
<1>. DEFINE st == [status EXCEPT ![c] = "Blocked"]
            q == [ep_queue EXCEPT ![e] = [head |-> c, last |-> c]]
<1>3. /\ q[e].head = c /\ q[e].last = c /\ \A k \in Endpoints \ {e} : q[k] = ep_queue[k]
      /\ st[c] = "Blocked" /\ \A t \in Threads \ {c} : st[t] = status[t]
  BY <1>1, <1>2 DEF TCBs
<1>. HIDE DEF st, q
<1>4. /\ \A k \in Endpoints : ep_queue[k].last = ep_queue[k].head /\ c # ep_queue[k].head
      /\ \A k \in Notifications : wait_queue[k].last = wait_queue[k].head /\ c # wait_queue[k].head
  BY Zenon DEF WaitSide, WaitsIn
<1>5. \A t \in Threads \ {c}, k \in Endpoints : t = q[k].head <=> t = ep_queue[k].head
  BY <1>2, <1>3
<1>6. \A k \in Endpoints : q[k].last = q[k].head /\ (c = q[k].head <=> k = e)
  BY <1>3, <1>4
<1>7. WaitsIn(c, q, wait_queue)
  BY Zenon, <1>3 DEF WaitsIn
<1>8. OnlyMoves(c, status, ep_queue, wait_queue, st, q, wait_queue)
  BY <1>3, <1>4, <1>5, <1>6 DEF OnlyMoves
<1>9. WellPlaced(c, st, q, wait_queue)
  BY <1>3, <1>4, <1>6, <1>7 DEF WellPlaced
<1>. QED  BY Zenon, <1>8, <1>9, OneMoves DEF st, q

\* A running thread queues up alone at a notification.
LEMMA JoinNotification ==
  ASSUME KernelInv, WaitSide(status, ep_queue, wait_queue), NEW n \in Notifications,
         NEW c \in Threads, status[c] = "Runnable", wait_queue[n].head = None
  PROVE  WaitSide([status EXCEPT ![c] = "Blocked"], ep_queue, [wait_queue EXCEPT ![n] = [head |-> c, last |-> c]])
<1>1. status \in [TCBs -> ThreadState] /\ wait_queue \in [Notifications -> Lists(Threads)]
  BY DEF KernelInv, TailOK, StatusOK, NotificationsOK
<1>2. None \notin Threads /\ c \in TCBs
  BY KernelAssumption DEF TCBs
<1>. DEFINE st == [status EXCEPT ![c] = "Blocked"]
            q == [wait_queue EXCEPT ![n] = [head |-> c, last |-> c]]
<1>3. /\ q[n].head = c /\ q[n].last = c /\ \A k \in Notifications \ {n} : q[k] = wait_queue[k]
      /\ st[c] = "Blocked" /\ \A t \in Threads \ {c} : st[t] = status[t]
  BY <1>1, <1>2 DEF TCBs
<1>. HIDE DEF st, q
<1>4. /\ \A k \in Endpoints : ep_queue[k].last = ep_queue[k].head /\ c # ep_queue[k].head
      /\ \A k \in Notifications : wait_queue[k].last = wait_queue[k].head /\ c # wait_queue[k].head
  BY Zenon DEF WaitSide, WaitsIn
<1>5. \A t \in Threads \ {c}, k \in Notifications : t = q[k].head <=> t = wait_queue[k].head
  BY <1>2, <1>3
<1>6. \A k \in Notifications : q[k].last = q[k].head /\ (c = q[k].head <=> k = n)
  BY <1>3, <1>4
<1>7. WaitsIn(c, ep_queue, q)
  BY Zenon, <1>3 DEF WaitsIn
<1>8. OnlyMoves(c, status, ep_queue, wait_queue, st, ep_queue, q)
  BY <1>3, <1>4, <1>5, <1>6 DEF OnlyMoves
<1>9. WellPlaced(c, st, ep_queue, q)
  BY <1>3, <1>4, <1>6, <1>7 DEF WellPlaced
<1>. QED  BY Zenon, <1>8, <1>9, OneMoves DEF st, q

\* The thread that waits at an endpoint leaves it.
LEMMA LeaveEndpoint ==
  ASSUME KernelInv, WaitSide(status, ep_queue, wait_queue), NEW e \in Endpoints,
         NEW c \in Threads, ep_queue[e].head = c
  PROVE  WaitSide([status EXCEPT ![c] = "Runnable"], [ep_queue EXCEPT ![e] = NewList], wait_queue)
<1>1. status \in [TCBs -> ThreadState] /\ ep_queue \in [Endpoints -> Lists(Threads)]
  BY DEF KernelInv, TailOK, StatusOK, EndpointsOK
<1>2. None \notin Threads /\ c \in TCBs
  BY KernelAssumption DEF TCBs
<1>. DEFINE st == [status EXCEPT ![c] = "Runnable"]
            q == [ep_queue EXCEPT ![e] = NewList]
<1>3. /\ q[e].head = None /\ q[e].last = None /\ \A k \in Endpoints \ {e} : q[k] = ep_queue[k]
      /\ st[c] = "Runnable" /\ \A t \in Threads \ {c} : st[t] = status[t]
  BY <1>1, <1>2 DEF TCBs, NewList
<1>. HIDE DEF st, q
<1>4. /\ \A k \in Endpoints : ep_queue[k].last = ep_queue[k].head
      /\ \A k \in Notifications : wait_queue[k].last = wait_queue[k].head
      /\ \A k \in Endpoints, m \in Notifications : ~(c = ep_queue[k].head /\ c = wait_queue[m].head)
      /\ \A k \in Endpoints : c = ep_queue[k].head => k = e
  BY Zenon DEF WaitSide
<1>5. \A t \in Threads \ {c}, k \in Endpoints : t = q[k].head <=> t = ep_queue[k].head
  BY Zenon, <1>2, <1>3
<1>6. \A k \in Endpoints : q[k].last = q[k].head /\ c # q[k].head
  BY <1>2, <1>3, <1>4
<1>7. ~WaitsIn(c, q, wait_queue)
  BY Zenon, <1>4, <1>6 DEF WaitsIn
<1>8. OnlyMoves(c, status, ep_queue, wait_queue, st, q, wait_queue)
  BY <1>3, <1>4, <1>5, <1>6 DEF OnlyMoves
<1>9. WellPlaced(c, st, q, wait_queue)
  <2>1. WellPlaced(c, status, ep_queue, wait_queue)
    BY Zenon DEF WaitSide, WellPlaced
  <2>. QED  BY <1>3, <1>6, <1>7, <2>1 DEF WellPlaced
<1>. QED  BY Zenon, <1>8, <1>9, OneMoves DEF st, q

\* The thread that waits at a notification leaves it.
LEMMA LeaveNotification ==
  ASSUME KernelInv, WaitSide(status, ep_queue, wait_queue), NEW n \in Notifications,
         NEW c \in Threads, wait_queue[n].head = c
  PROVE  WaitSide([status EXCEPT ![c] = "Runnable"], ep_queue, [wait_queue EXCEPT ![n] = NewList])
<1>1. status \in [TCBs -> ThreadState] /\ wait_queue \in [Notifications -> Lists(Threads)]
  BY DEF KernelInv, TailOK, StatusOK, NotificationsOK
<1>2. None \notin Threads /\ c \in TCBs
  BY KernelAssumption DEF TCBs
<1>. DEFINE st == [status EXCEPT ![c] = "Runnable"]
            q == [wait_queue EXCEPT ![n] = NewList]
<1>3. /\ q[n].head = None /\ q[n].last = None /\ \A k \in Notifications \ {n} : q[k] = wait_queue[k]
      /\ st[c] = "Runnable" /\ \A t \in Threads \ {c} : st[t] = status[t]
  BY <1>1, <1>2 DEF TCBs, NewList
<1>. HIDE DEF st, q
<1>4. /\ \A k \in Endpoints : ep_queue[k].last = ep_queue[k].head
      /\ \A k \in Notifications : wait_queue[k].last = wait_queue[k].head
      /\ \A k \in Endpoints, m \in Notifications : ~(c = ep_queue[k].head /\ c = wait_queue[m].head)
      /\ \A k \in Notifications : c = wait_queue[k].head => k = n
  BY Zenon DEF WaitSide
<1>5. \A t \in Threads \ {c}, k \in Notifications : t = q[k].head <=> t = wait_queue[k].head
  BY <1>2, <1>3
<1>6. \A k \in Notifications : q[k].last = q[k].head /\ c # q[k].head
  BY <1>2, <1>3, <1>4
<1>7. ~WaitsIn(c, ep_queue, q)
  BY Zenon, <1>4, <1>6 DEF WaitsIn
<1>8. OnlyMoves(c, status, ep_queue, wait_queue, st, ep_queue, q)
  BY <1>3, <1>4, <1>5, <1>6 DEF OnlyMoves
<1>9. WellPlaced(c, st, ep_queue, q)
  <2>1. WellPlaced(c, status, ep_queue, wait_queue)
    BY Zenon DEF WaitSide, WellPlaced
  <2>. QED  BY <1>3, <1>6, <1>7, <2>1 DEF WellPlaced
<1>. QED  BY Zenon, <1>8, <1>9, OneMoves DEF st, q

\* An inactive thread is started.
LEMMA StartThread ==
  ASSUME KernelInv, WaitSide(status, ep_queue, wait_queue),
         NEW t \in Threads, status[t] = "Inactive"
  PROVE  WaitSide([status EXCEPT ![t] = "Runnable"], ep_queue, wait_queue)
<1>1. status \in [TCBs -> ThreadState] /\ t \in TCBs
  BY DEF KernelInv, TailOK, StatusOK, TCBs
<1>. QED
  BY Zenon, <1>1 DEF WaitSide, WaitsIn, TCBs

-----------------------------------------------------------------------------
(***************************************************************************)
(* The ends of the handlers.  Here the bound on the started threads is     *)
(* used: a thread that blocks behind another leaves the run queue empty,   *)
(* and a thread that becomes runnable finds it empty.                      *)
(***************************************************************************)

\* No three threads have been started.
LEMMA NotThree ==
  ASSUME AtMostTwoStarted', NEW x \in Threads, NEW y \in Threads, NEW z \in Threads,
         status'[x] # "Inactive", status'[y] # "Inactive", status'[z] # "Inactive"
  PROVE  x = y \/ y = z \/ x = z
BY DEF AtMostTwoStarted, Started

\* What schedule() leaves behind.
SchedulerSound ==
    /\ current' # IDLE => RunSide(current', runqueue', next', status')
    /\ current' = IDLE => \A t \in Threads : status'[t] # "Runnable"

\* Resume of a thread that was not runnable.
LEMMA ResumeTwo ==
  ASSUME KernelInv, current \in Threads, RunSide(current, runqueue, next, status),
         AtMostTwoStarted', NEW t \in Threads, status[t] # "Runnable", Resume(t)
  PROVE  SchedulerSound
<1>1. /\ status' = [status EXCEPT ![t] = "Runnable"]
      /\ Schedule(requested, Push(runqueue, t), PushNext(next, runqueue, t), status', time_slice)
  BY DEF Resume
<1>2. /\ status \in [TCBs -> ThreadState] /\ runqueue \in Lists(Threads)
      /\ next \in Pointers /\ requested \in BOOLEAN
      /\ None \notin Threads
  BY KernelAssumption DEF KernelInv, TailOK, StatusOK, SchedOK, TCBs
<1>3. /\ status'[t] = "Runnable" /\ status'[current] = "Runnable" /\ t # current
      /\ \A u \in Threads \ {t} : status'[u] = status[u]
  BY <1>1, <1>2 DEF RunSide, TCBs
<1>4. runqueue.head = None
  <2>1. SUFFICES ASSUME runqueue.head \in Threads PROVE FALSE
    BY <1>2 DEF Lists
  <2>2. status[runqueue.head] = "Runnable" /\ runqueue.head # current
    BY <2>1 DEF RunSide
  <2>3. status'[runqueue.head] = "Runnable" /\ runqueue.head # t
    BY <1>3, <2>1, <2>2
  <2>. QED
    BY <1>3, <2>1, <2>2, <2>3, NotThree
<1>5. Push(runqueue, t) = [head |-> t, last |-> t] /\ PushNext(next, runqueue, t) = next
  BY <1>4 DEF Push, PushNext, RunSide
<1>6. Ready(Push(runqueue, t), next, status')
  <2>1. /\ \A u \in Threads : next[u] = None
        /\ \A u \in Threads : status[u] = "Runnable" <=> u = current \/ u = None
    BY Zenon, <1>4 DEF RunSide
  <2>2. Push(runqueue, t).head = t /\ Push(runqueue, t).last = t
    BY <1>5
  <2>. QED  BY <1>2, <1>3, <2>1, <2>2 DEF Ready
<1>7. Push(runqueue, t) \in Lists(Threads)
  BY <1>2, PushFacts
<1>8. Schedule(requested, Push(runqueue, t), next, status', time_slice)
  BY <1>1, <1>5
<1>. QED
  BY <1>2, <1>3, <1>6, <1>7, <1>8, ScheduleTwo DEF SchedulerSound

\* A waiting thread is woken; the assertion on its pointer holds.
LEMMA WakeTwo ==
  ASSUME KernelInv, current \in Threads, RunSide(current, runqueue, next, status),
         AtMostTwoStarted', NEW t \in Threads, status[t] # "Runnable", WakeUpThread(t)
  PROVE  /\ SchedulerSound /\ UNCHANGED panic
         /\ status' = [status EXCEPT ![t] = "Runnable"]
<1>1. Resume(t)
  BY DEF WakeUpThread, RunSide
<1>. QED
  BY Zenon, <1>1, ResumeTwo DEF Resume

\* The current thread blocks on q; the assertion on its pointer holds, and if q
\* was not empty no other thread can run.
LEMMA BlockTwo ==
  ASSUME KernelInv, current \in Threads, RunSide(current, runqueue, next, status),
         AtMostTwoStarted', NEW q \in Lists(Threads), q.last = q.head,
         q.head # None => status[q.head] = "Blocked", BlockThread(q)
  PROVE  /\ SchedulerSound /\ UNCHANGED panic
         /\ status' = [status EXCEPT ![current] = "Blocked"]
         /\ BlockedOn(q) = Push(q, current)
         /\ q.head # None => current' = IDLE
<1>1. /\ next[current] = None /\ UNCHANGED panic
      /\ status' = [status EXCEPT ![current] = "Blocked"]
      /\ Schedule(TRUE, runqueue, PushNext(next, q, current), status', time_slice)
      /\ BlockedOn(q) = Push(q, current)
  BY Zenon DEF BlockThread, RunSide, BlockedOn
<1>2. /\ status \in [TCBs -> ThreadState] /\ runqueue \in Lists(Threads)
      /\ next \in Pointers /\ None \notin Threads
  BY KernelAssumption DEF KernelInv, TailOK, StatusOK, SchedOK, TCBs
<1>3. /\ status'[current] = "Blocked" /\ status[current] = "Runnable"
      /\ \A u \in Threads \ {current} : status'[u] = status[u]
  BY ZenonT(20), <1>1, <1>2 DEF RunSide, TCBs
<1>4. CASE q.head = None
  <2>1. PushNext(next, q, current) = next
    BY <1>4 DEF PushNext
  <2>2. Ready(runqueue, next, status')
    BY <1>3 DEF RunSide, Ready
  <2>3. Schedule(TRUE, runqueue, next, status', time_slice)
    BY Zenon, <1>1, <2>1
  <2>4. SchedulerSound
    BY ZenonT(20), <1>2, <2>2, <2>3, ScheduleTwo DEF SchedulerSound
  <2>. QED
    BY <1>1, <1>4, <2>4
<1>5. CASE q.head # None
  <2>1. q.head \in Threads /\ q.head # current /\ status'[q.head] = "Blocked"
    BY <1>2, <1>3, <1>5 DEF Lists
  <2>2. runqueue.head = None
    <3>1. SUFFICES ASSUME runqueue.head \in Threads PROVE FALSE
      BY <1>2 DEF Lists
    <3>2. /\ status[runqueue.head] = "Runnable" /\ runqueue.head # current
          /\ status'[runqueue.head] = "Runnable"
      BY <1>3, <3>1 DEF RunSide
    <3>. QED
      BY Zenon, <1>3, <2>1, <3>1, <3>2, NotThree
  <2>3. current' = IDLE
    BY Zenon, <1>1, <1>3, <2>2 DEF Schedule, SwitchToIdle, IsEmpty, IsRunnable
  <2>4. \A t \in Threads : status'[t] # "Runnable"
    BY <1>2, <1>3, <2>2 DEF RunSide
  <2>. QED
    BY <1>1, <2>3, <2>4 DEF SchedulerSound
<1>. QED
  BY <1>4, <1>5

-----------------------------------------------------------------------------
(***************************************************************************)
(* One lemma per action, from a state in which a thread runs.              *)
(***************************************************************************)

Running == current \in Threads /\ ListsMatchStates /\ panic # "Next"

Sound ==
    /\ panic # "Next"
    /\ current # IDLE => ListsMatchStates
    /\ current = IDLE => \A t \in Threads : ~IsRunnable(status, t)

\* schedule() and the wait queues together.
LEMMA SoundAgain ==
  ASSUME SchedulerSound, panic' # "Next",
         current' # IDLE => WaitSide(status', ep_queue', wait_queue')
  PROVE  Sound'
<1>1. current' # IDLE => ListsMatchStates'
  BY TwoSides DEF SchedulerSound
<1>. QED
  BY <1>1 DEF Sound, SchedulerSound, IsRunnable

\* schedule() on the lists and states as they were.
LEMMA ReturnTwo ==
  ASSUME KernelInv, Running, NEW req \in BOOLEAN, NEW ts, UNCHANGED <<status, panic>>,
         UNCHANGED <<ep_queue, wait_queue>>, Schedule(req, runqueue, next, status, ts)
  PROVE  Sound'
<1>1. /\ RunSide(current, runqueue, next, status)
      /\ WaitSide(status, ep_queue, wait_queue)
  BY TwoSides DEF Running
<1>2. runqueue \in Lists(Threads) /\ next \in Pointers /\ current \in Threads
  BY DEF KernelInv, TailOK, SchedOK, Running
<1>3. Ready(runqueue, next, status) /\ status[current] = "Runnable"
  BY <1>1, <1>2 DEF RunSide, Ready
<1>4. SchedulerSound
  BY <1>2, <1>3, ScheduleTwo DEF SchedulerSound
<1>. QED
  BY <1>1, <1>4, SoundAgain DEF Running

\* A panic for another reason.
LEMMA PanicTwo ==
  ASSUME KernelInv, Running, NEW reason \in {"Slot", "Trap"}, Panic(reason),
         UNCHANGED <<ep_queue, wait_queue>>
  PROVE  Sound'
<1>1. UNCHANGED <<runqueue, next, current, status>> /\ panic' # "Next"
  BY DEF Panic, schedVars
<1>2. ListsMatchStates' /\ current' # IDLE
  BY <1>1, KernelAssumption, TwoSides DEF Running
<1>. QED
  BY <1>1, <1>2 DEF Sound

\* A thread in the queue of an endpoint or notification is blocked, and alone.
LEMMA WaiterFacts ==
  ASSUME KernelInv, Running
  PROVE  /\ RunSide(current, runqueue, next, status)
         /\ WaitSide(status, ep_queue, wait_queue)
         /\ status[current] = "Runnable"
         /\ \A e \in Endpoints :
               /\ ep_queue[e] \in Lists(Threads) /\ ep_queue[e].last = ep_queue[e].head
               /\ ep_queue[e].head # None => /\ ep_queue[e].head \in Threads
                                             /\ status[ep_queue[e].head] = "Blocked"
               /\ Pop(ep_queue[e], next) = NewList
         /\ \A n \in Notifications :
               /\ wait_queue[n] \in Lists(Threads) /\ wait_queue[n].last = wait_queue[n].head
               /\ wait_queue[n].head # None => /\ wait_queue[n].head \in Threads
                                               /\ status[wait_queue[n].head] = "Blocked"
               /\ Pop(wait_queue[n], next) = NewList
<1>1. /\ RunSide(current, runqueue, next, status)
      /\ WaitSide(status, ep_queue, wait_queue)
  BY TwoSides DEF Running
<1>2. status[current] = "Runnable"
  BY <1>1 DEF RunSide, Running
<1>3. ASSUME NEW l \in Lists(Threads)
      PROVE  Pop(l, next) = NewList
  BY Zenon, <1>1, <1>3 DEF RunSide, Pop, NextOf, NewList, Lists
<1>4. ASSUME NEW e \in Endpoints
      PROVE  /\ ep_queue[e] \in Lists(Threads) /\ ep_queue[e].last = ep_queue[e].head
             /\ ep_queue[e].head # None => /\ ep_queue[e].head \in Threads
                                           /\ status[ep_queue[e].head] = "Blocked"
             /\ Pop(ep_queue[e], next) = NewList
  <2>1. ep_queue[e] \in Lists(Threads)
    BY DEF KernelInv, EndpointsOK
  <2>2. ep_queue[e].head # None => ep_queue[e].head \in Threads
    BY <2>1 DEF Lists
  <2>. QED
    BY Zenon, <1>1, <1>3, <2>1, <2>2 DEF WaitSide, WaitsIn
<1>5. ASSUME NEW n \in Notifications
      PROVE  /\ wait_queue[n] \in Lists(Threads) /\ wait_queue[n].last = wait_queue[n].head
             /\ wait_queue[n].head # None => /\ wait_queue[n].head \in Threads
                                             /\ status[wait_queue[n].head] = "Blocked"
             /\ Pop(wait_queue[n], next) = NewList
  <2>1. wait_queue[n] \in Lists(Threads)
    BY DEF KernelInv, NotificationsOK
  <2>2. wait_queue[n].head # None => wait_queue[n].head \in Threads
    BY <2>1 DEF Lists
  <2>. QED
    BY Zenon, <1>1, <1>3, <2>1, <2>2 DEF WaitSide, WaitsIn
<1>. QED
  BY Zenon, <1>1, <1>2, <1>4, <1>5

\* A rendezvous at an endpoint, or a thread that queues up at it.
LEMMA EndpointTwo ==
  ASSUME KernelInv, Alive, Running, AtMostTwoStarted', NEW e \in Endpoints,
         NEW dir \in {"Send", "Recv"}, UNCHANGED wait_queue,
         LET p == PopFromQueue(e, dir)
         IN  \/ /\ p.thread # None
                /\ ep_queue' = [ep_queue EXCEPT ![e] = p.queue]
                /\ WakeUpThread(p.thread)
             \/ /\ p.thread = None
                /\ ep_queue' = [ep_queue EXCEPT ![e] = BlockedOn(p.queue)]
                /\ BlockThread(p.queue)
  PROVE  Sound'
<1>. DEFINE p == PopFromQueue(e, dir)
<1>1. /\ RunSide(current, runqueue, next, status)
      /\ WaitSide(status, ep_queue, wait_queue)
      /\ ep_queue[e] \in Lists(Threads) /\ ep_queue[e].last = ep_queue[e].head
      /\ ep_queue[e].head # None => /\ ep_queue[e].head \in Threads
                                    /\ status[ep_queue[e].head] = "Blocked"
      /\ Pop(ep_queue[e], next) = NewList
      /\ status[current] = "Runnable" /\ current \in Threads /\ panic # "Next"
  BY Zenon, WaiterFacts DEF Running
<1>2. CASE p.thread # None
  <2>1. p.thread = ep_queue[e].head /\ p.queue = NewList
    BY Zenon, <1>1, <1>2 DEF PopFromQueue
  <2>2. ep_queue' = [ep_queue EXCEPT ![e] = p.queue] /\ WakeUpThread(p.thread)
    BY <1>2
  <2>. HIDE DEF p
  <2>3. p.thread \in Threads /\ status[p.thread] = "Blocked"
    BY Zenon, <1>1, <1>2, <2>1
  <2>4. /\ SchedulerSound /\ UNCHANGED panic
        /\ status' = [status EXCEPT ![p.thread] = "Runnable"]
    BY Zenon, <1>1, <2>2, <2>3, WakeTwo
  <2>5. WaitSide(status', ep_queue', wait_queue')
    BY Zenon, <1>1, <2>1, <2>2, <2>3, <2>4, LeaveEndpoint
  <2>. QED
    BY Zenon, <1>1, <2>4, <2>5, SoundAgain
<1>3. CASE p.thread = None
  <2>1. p.queue = ep_queue[e]
    BY <1>3, PopFromQueueFacts
  <2>2. ep_queue' = [ep_queue EXCEPT ![e] = BlockedOn(p.queue)] /\ BlockThread(p.queue)
    BY <1>3
  <2>. HIDE DEF p
  <2>3. /\ SchedulerSound /\ UNCHANGED panic
        /\ status' = [status EXCEPT ![current] = "Blocked"]
        /\ BlockedOn(ep_queue[e]) = Push(ep_queue[e], current)
        /\ ep_queue[e].head # None => current' = IDLE
    BY Zenon, <1>1, <2>1, <2>2, BlockTwo
  <2>4. ASSUME current' # IDLE
        PROVE  WaitSide(status', ep_queue', wait_queue')
    <3>1. ep_queue[e].head = None
      BY <2>3, <2>4
    <3>2. ep_queue' = [ep_queue EXCEPT ![e] = [head |-> current, last |-> current]]
      BY Zenon, <1>1, <2>1, <2>2, <2>3, <3>1 DEF Push
    <3>. QED
      BY Zenon, <1>1, <2>3, <3>1, <3>2, JoinEndpoint
  <2>. QED
    BY Zenon, <1>1, <2>3, <2>4, SoundAgain
<1>. QED
  BY <1>2, <1>3

\* A signal wakes the waiter, or is recorded.
LEMMA NotifySendTwo ==
  ASSUME KernelInv, Alive, Running, AtMostTwoStarted', NEW n \in Notifications,
         NEW val, NotifySend(n, val)
  PROVE  Sound'
<1>. DEFINE w == wait_queue[n].head
<1>1. /\ RunSide(current, runqueue, next, status)
      /\ WaitSide(status, ep_queue, wait_queue)
      /\ w # None => w \in Threads /\ status[w] = "Blocked"
      /\ wait_queue[n].last = w /\ wait_queue[n] \in Lists(Threads)
      /\ Pop(wait_queue[n], next) = NewList
      /\ status[current] = "Runnable" /\ current \in Threads /\ panic # "Next"
  BY Zenon, WaiterFacts DEF Running
<1>2. UNCHANGED ep_queue /\ wait_queue' = [wait_queue EXCEPT ![n] = NewList]
  BY Zenon, <1>1 DEF NotifySend, epVars
<1>3. CASE w # None
  <2>1. WakeUpThread(w)
    BY <1>3 DEF NotifySend
  <2>2. /\ SchedulerSound /\ UNCHANGED panic
        /\ status' = [status EXCEPT ![w] = "Runnable"]
    BY Zenon, <1>1, <1>3, <2>1, WakeTwo
  <2>3. WaitSide(status', ep_queue', wait_queue')
    BY Zenon, <1>1, <1>2, <1>3, <2>2, LeaveNotification
  <2>. QED
    BY ZenonT(20), <1>1, <2>2, <2>3, SoundAgain
<1>4. CASE w = None
  <2>1. wait_queue[n] = NewList
    BY Zenon, <1>1, <1>4 DEF NewList, Lists
  <2>2. UNCHANGED wait_queue
    BY <1>2, <2>1 DEF KernelInv, NotificationsOK
  <2>3. ReturnThroughSchedule
    BY Zenon, <1>4 DEF NotifySend
  <2>4. requested \in BOOLEAN
    BY DEF KernelInv, TailOK, SchedOK
  <2>. QED
    BY <1>2, <2>2, <2>3, <2>4, ReturnTwo DEF ReturnThroughSchedule
<1>. QED
  BY <1>3, <1>4

\* A wait takes the pending signal, or blocks.
LEMMA NotifyWaitTwo ==
  ASSUME KernelInv, Alive, Running, AtMostTwoStarted', NEW n \in Notifications,
         NotifyWait(n)
  PROVE  Sound'
<1>1. /\ RunSide(current, runqueue, next, status)
      /\ WaitSide(status, ep_queue, wait_queue)
      /\ wait_queue[n] \in Lists(Threads) /\ wait_queue[n].last = wait_queue[n].head
      /\ wait_queue[n].head # None => status[wait_queue[n].head] = "Blocked"
      /\ status[current] = "Runnable" /\ current \in Threads /\ panic # "Next"
  BY Zenon, WaiterFacts DEF Running
<1>2. UNCHANGED ep_queue
  BY Zenon DEF NotifyWait, epVars
<1>3. CASE SignalPending(n)
  <2>1. UNCHANGED wait_queue /\ ReturnThroughSchedule
    BY <1>3 DEF NotifyWait
  <2>2. requested \in BOOLEAN
    BY DEF KernelInv, TailOK, SchedOK
  <2>. QED
    BY <1>2, <2>1, <2>2, ReturnTwo DEF ReturnThroughSchedule
<1>4. CASE ~SignalPending(n)
  <2>1. /\ wait_queue' = [wait_queue EXCEPT ![n] = BlockedOn(wait_queue[n])]
        /\ BlockThread(wait_queue[n])
    BY <1>4 DEF NotifyWait
  <2>2. /\ SchedulerSound /\ UNCHANGED panic
        /\ status' = [status EXCEPT ![current] = "Blocked"]
        /\ BlockedOn(wait_queue[n]) = Push(wait_queue[n], current)
        /\ wait_queue[n].head # None => current' = IDLE
    BY <1>1, <2>1, BlockTwo
  <2>3. ASSUME current' # IDLE
        PROVE  WaitSide(status', ep_queue', wait_queue')
    <3>1. wait_queue[n].head = None
      BY <2>2, <2>3
    <3>2. wait_queue' = [wait_queue EXCEPT ![n] = [head |-> current, last |-> current]]
      BY <1>1, <2>1, <2>2, <3>1 DEF Push
    <3>. QED
      BY Zenon, <1>1, <1>2, <2>2, <3>1, <3>2, JoinNotification
  <2>. QED
    BY <1>1, <2>2, <2>3, SoundAgain
<1>. QED
  BY <1>3, <1>4

\* The TCB invocations, when a thread is resumed only if it is inactive.
LEMMA TcbSyscallTwo ==
  ASSUME KernelInv, Running, AtMostTwoStarted', ConfigStates \subseteq {"Inactive"},
         TcbSyscall \/ OtherSyscall
  PROVE  Sound'
<1>1. requested \in BOOLEAN
  BY DEF KernelInv, TailOK, SchedOK
<1>2. ASSUME UNCHANGED <<epVars, notifyVars>>, ReturnThroughSchedule
      PROVE  Sound'
  BY <1>1, <1>2, ReturnTwo DEF ReturnThroughSchedule, epVars, notifyVars
<1>3. ASSUME UNCHANGED <<epVars, notifyVars>>, Panic("Slot")
      PROVE  Sound'
  BY <1>3, PanicTwo DEF epVars, notifyVars
<1>4. ASSUME NEW t \in Threads, TcbResume(t)
      PROVE  Sound'
  <2>1. Resume(t) /\ UNCHANGED <<ep_queue, wait_queue>> /\ status[t] = "Inactive"
    BY Zenon, <1>4 DEF TcbResume, epVars, notifyVars
  <2>2. /\ RunSide(current, runqueue, next, status)
        /\ WaitSide(status, ep_queue, wait_queue)
    BY WaiterFacts
  <2>3. SchedulerSound
    BY <2>1, <2>2, ResumeTwo DEF Running
  <2>4. WaitSide(status', ep_queue', wait_queue') /\ panic' # "Next"
    BY Zenon, <2>1, <2>2, StartThread DEF Resume, Running
  <2>. QED
    BY <2>3, <2>4, SoundAgain
<1>5. CASE OtherSyscall
  BY <1>2, <1>5 DEF OtherSyscall
<1>6. ASSUME NEW t \in Threads, NEW root, TcbConfigure(t, root)
      PROVE  Sound'
  BY <1>2, <1>3, <1>6 DEF TcbConfigure
<1>7. ASSUME NEW t \in Threads, NEW m, TcbSetIpcBuffer(t, m)
      PROVE  Sound'
  BY <1>2, <1>3, <1>7 DEF TcbSetIpcBuffer
<1>8. ASSUME NEW t \in Threads, NEW val, TcbWriteReg(t, val)
      PROVE  Sound'
  BY <1>2, <1>8 DEF TcbWriteReg
<1>. QED
  BY <1>4, <1>5, <1>6, <1>7, <1>8 DEF TcbSyscall

-----------------------------------------------------------------------------
(***************************************************************************)
(* The theorem.                                                            *)
(***************************************************************************)

\* No step makes a started thread inactive again.
LEMMA StartedForGood ==
  ASSUME KernelInv, [Next]_vars, NEW t \in Threads, Started(t)
  PROVE  Started(t)'
<1>1. ASSUME NEW u, status' = [status EXCEPT ![u] = "Runnable"]
      PROVE  Started(t)'
  BY <1>1 DEF Started, KernelInv, TailOK, StatusOK, TCBs
<1>2. ASSUME NEW u, status' = [status EXCEPT ![u] = "Blocked"]
      PROVE  Started(t)'
  BY <1>2 DEF Started, KernelInv, TailOK, StatusOK, TCBs
<1>3. ASSUME UNCHANGED status
      PROVE  Started(t)'
  BY <1>3 DEF Started
<1>4. ASSUME NEW u, WakeUpThread(u)
      PROVE  Started(t)'
  BY <1>1, <1>3, <1>4 DEF WakeUpThread, Resume, Panic
<1>5. ASSUME NEW q, BlockThread(q)
      PROVE  Started(t)'
  BY Zenon, <1>2, <1>3, <1>5 DEF BlockThread, Panic
<1>6. CASE IpcSyscall
  BY Zenon, <1>3, <1>4, <1>5, <1>6
     DEF IpcSyscall, EpSend, EpRecv, NotifySend, NotifyWait, ReturnThroughSchedule
<1>7. CASE TcbSyscall
  BY Zenon, <1>1, <1>3, <1>7 DEF TcbSyscall, TcbConfigure, TcbSetIpcBuffer, TcbWriteReg,
     TcbResume, Resume, Panic, ReturnThroughSchedule
<1>8. CASE OtherSyscall \/ TimerInterrupt \/ UnhandledTrap \/ UNCHANGED vars
  BY Zenon, <1>3, <1>8 DEF OtherSyscall, TimerInterrupt, UnhandledTrap, Panic,
     ReturnThroughSchedule, vars
<1>. QED
  BY <1>6, <1>7, <1>8 DEF Next

\* The idle thread runs for good: the only trap left is the timer's, and it
\* changes nothing.
LEMMA IdleForGood ==
  ASSUME KernelInv, current = IDLE, Next
  PROVE  UNCHANGED <<status, current, panic>>
<1>1. requested = FALSE
  BY DEF KernelInv, TailOK, SchedOK, SchedInv, NoQueuedThreadForgotten
<1>2. TimerInterrupt
  BY Zenon DEF Next, IpcSyscall, TcbSyscall, EpSend, EpRecv, NotifySend, NotifyWait, TcbConfigure,
     TcbSetIpcBuffer, TcbWriteReg, TcbResume, OtherSyscall, UnhandledTrap, Ecall
<1>. QED
  BY <1>1, <1>2 DEF TimerInterrupt, Schedule

\* A step from a state in which a thread runs.
LEMMA RunningStep ==
  ASSUME KernelInv, Running, AtMostTwoStarted', ConfigStates \subseteq {"Inactive"}, Next
  PROVE  Sound'
<1>1. ASSUME NEW e \in Endpoints, NEW b, NEW m, EpSend(e, b, m)
      PROVE  Sound'
  <2>1. Alive /\ UNCHANGED wait_queue
    BY Zenon, <1>1 DEF EpSend, Ecall, notifyVars
  <2>. QED
    BY <1>1, <2>1, EndpointTwo DEF EpSend
<1>2. ASSUME NEW e \in Endpoints, EpRecv(e)
      PROVE  Sound'
  <2>1. Alive /\ UNCHANGED wait_queue
    BY Zenon, <1>2 DEF EpRecv, Ecall, notifyVars
  <2>. QED
    BY Zenon, <1>2, <2>1, EndpointTwo DEF EpRecv
<1>3. ASSUME NEW n \in Notifications, NEW val, NotifySend(n, val)
      PROVE  Sound'
  BY Zenon, <1>3, NotifySendTwo DEF NotifySend, Ecall
<1>4. ASSUME NEW n \in Notifications, NotifyWait(n)
      PROVE  Sound'
  BY Zenon, <1>4, NotifyWaitTwo DEF NotifyWait, Ecall
<1>5. CASE TcbSyscall \/ OtherSyscall
  BY <1>5, TcbSyscallTwo
<1>6. CASE TimerInterrupt
  <2>. DEFINE ts == [time_slice EXCEPT ![current] = Decrement(@)]
  <2>1. Schedule(requested \/ ts[current] = 0, runqueue, next, status, ts)
    BY <1>6, KernelAssumption DEF TimerInterrupt, Running
  <2>2. UNCHANGED <<status, panic, ep_queue, wait_queue>>
    BY <1>6 DEF TimerInterrupt, epVars, notifyVars
  <2>3. (requested \/ ts[current] = 0) \in BOOLEAN
    OBVIOUS
  <2>. HIDE DEF ts
  <2>. QED
    BY Zenon, <2>1, <2>2, <2>3, ReturnTwo
<1>7. CASE UnhandledTrap
  BY <1>7, PanicTwo DEF UnhandledTrap, epVars, notifyVars
<1>. QED
  BY <1>1, <1>2, <1>3, <1>4, <1>5, <1>6, <1>7 DEF Next, IpcSyscall

\* Every step keeps the two-thread system sound.
LEMMA TwoThreadsStep ==
  ASSUME ConfigStates \subseteq {"Inactive"}
  PROVE  KernelInv /\ TwoThreadsSound /\ [Next]_vars => TwoThreadsSound'
<1>. SUFFICES ASSUME KernelInv, TwoThreadsSound, [Next]_vars, AtMostTwoStarted'
              PROVE  Sound'
  BY DEF TwoThreadsSound, Sound
<1>1. AtMostTwoStarted
  BY StartedForGood DEF AtMostTwoStarted
<1>2. Sound
  BY <1>1 DEF TwoThreadsSound, Sound
<1>3. CASE UNCHANGED vars
  <2>1. UNCHANGED <<status, panic, current, runqueue, next, ep_queue, wait_queue>>
    BY <1>3 DEF vars, schedVars, epVars, notifyVars
  <2>2. ListsMatchStates => ListsMatchStates'
    BY <2>1, TwoSides
  <2>. QED
    BY <1>2, <2>1, <2>2 DEF Sound, IsRunnable
<1>4. CASE Next /\ current = IDLE
  BY <1>2, <1>4, IdleForGood DEF Sound, IsRunnable
<1>5. CASE Next /\ current # IDLE
  <2>1. Running
    BY <1>2, <1>5 DEF Sound, Running, KernelInv, TailOK, SchedOK, TCBs
  <2>. QED
    BY <1>5, <2>1, RunningStep
<1>. QED
  BY <1>3, <1>4, <1>5

\* At boot only the root server is started, and every list is empty.
LEMMA TwoThreadsInit == Init => TwoThreadsSound
<1>. SUFFICES ASSUME Init PROVE Sound
  BY DEF TwoThreadsSound, Sound
<1>1. /\ runqueue = NewList /\ current = Root /\ panic = None
      /\ next = [t \in Threads |-> None]
      /\ ep_queue = [e \in Endpoints |-> NewList]
      /\ wait_queue = [n \in Notifications |-> NewList]
  BY DEF Init
<1>2. \A t \in Threads : status[t] # "Blocked" /\ (status[t] = "Runnable" <=> t = Root)
  BY Zenon, KernelAssumption DEF Init, TCBs
<1>3. /\ None \notin Threads /\ Root \in Threads /\ Root # IDLE
      /\ None # "Next"
  BY KernelAssumption DEF TCBs, PanicReason
<1>4. RunSide(current, runqueue, next, status)
  BY <1>1, <1>2, <1>3 DEF RunSide, NewList
<1>5. WaitSide(status, ep_queue, wait_queue)
  BY <1>1, <1>2, <1>3 DEF WaitSide, WaitsIn, NewList
<1>. QED
  BY <1>1, <1>3, <1>4, <1>5, TwoSides DEF Sound

\* For any number of threads, endpoints and notifications: while no more than
\* two threads have been started, and user code resumes a thread only when it is
\* inactive, no assert!(tcb.next_is_none()) of wake_up_thread or block_thread
\* fails, the lists agree with the thread states while a thread runs, and the
\* idle thread runs only when no thread can.
THEOREM TwoThreadsCorrect ==
  ASSUME ConfigStates \subseteq {"Inactive"}
  PROVE  Spec => []TwoThreadsSound
BY TwoThreadsInit, TwoThreadsStep, Invariance, PTL DEF Spec

-----------------------------------------------------------------------------
(***************************************************************************)
(* What a step may do to the other threads: the two action properties.     *)
(***************************************************************************)

Kept == \A t \in Threads \ {current} : IsRunnable(status, t) => a1'[t] = a1[t]

Woken ==
    \A t \in Threads : status[t] = "Blocked" /\ status'[t] = "Runnable" => ServedByPeer(t)

\* wake_up_thread makes no other thread runnable.
LEMMA WakesOne ==
  ASSUME KernelInv, NEW u \in Threads, WakeUpThread(u) \/ Resume(u),
         NEW t \in Threads, status[t] = "Blocked", status'[t] = "Runnable"
  PROVE  t = u
<1>1. status \in [TCBs -> ThreadState]
  BY DEF KernelInv, TailOK, StatusOK
<1>2. CASE status' = [status EXCEPT ![u] = "Runnable"]
  BY <1>1, <1>2 DEF TCBs
<1>3. CASE status' = status
  BY <1>3
<1>. QED
  BY <1>2, <1>3 DEF WakeUpThread, Resume, Panic

\* block_thread makes no thread runnable.
LEMMA BlockWakesNone ==
  ASSUME KernelInv, NEW q, BlockThread(q), NEW t \in Threads, status[t] = "Blocked"
  PROVE  status'[t] = "Blocked"
<1>1. status \in [TCBs -> ThreadState]
  BY DEF KernelInv, TailOK, StatusOK
<1>2. CASE status' = [status EXCEPT ![current] = "Blocked"]
  <2>1. status'[t] = IF t = current THEN "Blocked" ELSE status[t]
    BY <1>1, <1>2 DEF TCBs
  <2>. QED
    BY <2>1
<1>3. CASE status' = status
  BY <1>3
<1>. QED
  BY Zenon, <1>2, <1>3 DEF BlockThread, Panic

\* Types that the lemmas below share.
LEMMA ThreadData ==
  ASSUME KernelInv
  PROVE  /\ a1 \in [Threads -> {None} \cup Badges \cup SUBSET Bits]
         /\ badge \in [Threads -> Badges \cup {None}]
         /\ ipc_buffer \in [Threads -> Messages \cup {None}]
         /\ ep_state \in [Endpoints -> EndpointState]
BY Zenon DEF KernelInv, ThreadDataOK, EndpointsOK

\* The thread that pop_from_queue takes out waits in the other direction.
LEMMA PoppedThread ==
  ASSUME KernelInv, Running, NEW e \in Endpoints, NEW dir \in {"Send", "Recv"},
         PopFromQueue(e, dir).thread # None
  PROVE  /\ PopFromQueue(e, dir).thread = ep_queue[e].head
         /\ ep_queue[e].head \in Threads /\ ep_queue[e].head # current
         /\ status[ep_queue[e].head] = "Blocked"
         /\ ep_state[e] # dir
<1>1. PopFromQueue(e, dir).thread = ep_queue[e].head /\ ep_state[e] # dir
  BY DEF PopFromQueue
<1>. QED
  BY ZenonT(20), <1>1, WaiterFacts

\* Endpoint::send: a receiver gets badge and message of the sender.
LEMMA SendServes ==
  ASSUME KernelInv, Running, NEW e \in Endpoints, NEW b \in Badges, NEW m \in Messages,
         EpSend(e, b, m)
  PROVE  Kept /\ Woken
<1>. DEFINE u == PopFromQueue(e, "Send").thread
<1>1. current \in Threads /\ None \notin Messages
  BY KernelAssumption DEF Running
<1>2. CASE u # None
  <2>1. /\ u = ep_queue[e].head /\ u \in Threads /\ u # current
        /\ status[u] = "Blocked" /\ ep_state[e] # "Send"
    BY <1>2, PoppedThread
  <2>2. /\ badge' = [badge EXCEPT ![current] = b]
        /\ a1' = [a1 EXCEPT ![current] = None, ![u] = b]
        /\ ipc_buffer' = SetIpcMsg(Fill(m), current, u)
        /\ WakeUpThread(u)
    BY <1>2 DEF EpSend
  <2>. HIDE DEF u
  <2>3. a1'[u] = b /\ badge'[current] = b
    BY Zenon, <1>1, <2>1, <2>2, ThreadData
  <2>4. ipc_buffer[u] # None /\ ipc_buffer[current] # None
          => ipc_buffer'[u] = ipc_buffer'[current]
    BY <1>1, <2>1, <2>2, ThreadData DEF SetIpcMsg, Fill
  <2>5. ServedByPeer(u)
    BY Zenon, <2>1, <2>3, <2>4 DEF ServedByPeer
  <2>6. Woken
    BY Zenon, <2>1, <2>2, <2>5, WakesOne DEF Woken
  <2>7. Kept
    BY Zenon, <1>1, <2>1, <2>2, ThreadData DEF Kept, IsRunnable
  <2>. QED
    BY <2>6, <2>7
<1>3. CASE u = None
  <2>1. /\ a1' = [a1 EXCEPT ![current] = None]
        /\ BlockThread(PopFromQueue(e, "Send").queue)
    BY <1>3 DEF EpSend
  <2>. QED
    BY Zenon, <1>1, <2>1, ThreadData, BlockWakesNone DEF Kept, Woken
<1>. QED
  BY <1>2, <1>3

\* Endpoint::recv: the receiver gets the badge of the sender it wakes up.
LEMMA RecvServes ==
  ASSUME KernelInv, Running, NEW e \in Endpoints, EpRecv(e)
  PROVE  Kept /\ Woken
<1>. DEFINE u == PopFromQueue(e, "Recv").thread
<1>1. current \in Threads
  BY DEF Running
<1>2. CASE u # None
  <2>1. /\ u = ep_queue[e].head /\ u \in Threads /\ u # current /\ ep_state[e] # "Recv"
    BY ZenonT(20), <1>2, PoppedThread
  <2>2. a1' = [a1 EXCEPT ![current] = badge[u]] /\ WakeUpThread(u)
    BY ZenonT(20), <1>2 DEF EpRecv
  <2>. HIDE DEF u
  <2>3. a1'[current] = badge[u]
    BY Zenon, <1>1, <2>2, ThreadData
  <2>4. ServedByPeer(u)
    BY Zenon, <2>1, <2>3 DEF ServedByPeer
  <2>5. Woken
    BY <2>1, <2>2, <2>4, WakesOne DEF Woken
  <2>. QED
    BY <1>1, <2>2, <2>5, ThreadData DEF Kept
<1>3. CASE u = None
  <2>1. /\ a1' = [a1 EXCEPT ![current] = None]
        /\ BlockThread(PopFromQueue(e, "Recv").queue)
    BY Zenon, <1>3 DEF EpRecv
  <2>. QED
    BY <1>1, <2>1, ThreadData, BlockWakesNone DEF Kept, Woken
<1>. QED
  BY <1>2, <1>3

\* Notification::send_signal: a waiting thread gets the word.
LEMMA SignalServes ==
  ASSUME KernelInv, Running, NEW n \in Notifications, NEW val \in SUBSET Bits,
         NotifySend(n, val)
  PROVE  Kept /\ Woken
<1>. DEFINE w == wait_queue[n].head
<1>1. current \in Threads
  BY DEF Running
<1>2. CASE w # None
  <2>1. w \in Threads /\ status[w] = "Blocked" /\ w # current
    BY Zenon, <1>2, WaiterFacts
  <2>2. a1' = [a1 EXCEPT ![current] = None, ![w] = val] /\ WakeUpThread(w)
    BY ZenonT(20), <1>2 DEF NotifySend
  <2>3. a1'[w] = val
    BY <1>1, <2>1, <2>2, ThreadData
  <2>4. ServedByPeer(w)
    BY Zenon, <2>1, <2>3 DEF ServedByPeer
  <2>. HIDE DEF w
  <2>5. Woken
    BY Zenon, <2>1, <2>2, <2>4, WakesOne DEF Woken
  <2>. QED
    BY Zenon, <1>1, <2>1, <2>2, <2>5, ThreadData DEF Kept, IsRunnable
<1>3. CASE w = None
  <2>1. a1' = [a1 EXCEPT ![current] = None] /\ UNCHANGED status
    BY Zenon, <1>3 DEF NotifySend, ReturnThroughSchedule
  <2>. QED
    BY Zenon, <1>1, <2>1, ThreadData DEF Kept, Woken
<1>. QED
  BY <1>2, <1>3

\* Notification::wait_signal concerns the caller only.
LEMMA WaitServes ==
  ASSUME KernelInv, Running, NEW n \in Notifications, NotifyWait(n)
  PROVE  Kept /\ Woken
<1>1. current \in Threads
  BY DEF Running
<1>2. Kept
  BY Zenon, <1>1, ThreadData DEF NotifyWait, Kept
<1>3. CASE UNCHANGED status
  BY <1>2, <1>3 DEF Woken
<1>4. CASE BlockThread(wait_queue[n])
  BY <1>2, <1>4, BlockWakesNone DEF Woken
<1>. QED
  BY Zenon, <1>3, <1>4 DEF NotifyWait, ReturnThroughSchedule

\* The TCB invocations write to the caller and to inactive threads.
LEMMA TcbServes ==
  ASSUME KernelInv, Running, ConfigStates \subseteq {"Inactive"}, TcbSyscall \/ OtherSyscall
  PROVE  Kept /\ Woken
<1>1. current \in Threads
  BY DEF Running
<1>2. ASSUME a1' = [a1 EXCEPT ![current] = None], UNCHANGED status
      PROVE  Kept /\ Woken
  BY <1>1, <1>2, ThreadData DEF Kept, Woken
<1>3. ASSUME NEW t \in Threads, NEW root, TcbConfigure(t, root)
      PROVE  Kept /\ Woken
  BY <1>2, <1>3 DEF TcbConfigure, ReturnThroughSchedule, Panic
<1>4. ASSUME NEW t \in Threads, NEW m, TcbSetIpcBuffer(t, m)
      PROVE  Kept /\ Woken
  BY <1>2, <1>4 DEF TcbSetIpcBuffer, ReturnThroughSchedule, Panic
<1>5. ASSUME NEW t \in Threads, NEW val, TcbWriteReg(t, val)
      PROVE  Kept /\ Woken
  <2>1. /\ a1' = [a1 EXCEPT ![current] = None, ![t] = val]
        /\ UNCHANGED status /\ status[t] = "Inactive"
    BY Zenon, <1>5 DEF TcbWriteReg, ReturnThroughSchedule
  <2>2. Woken
    BY <2>1 DEF Woken
  <2>3. ASSUME NEW u \in Threads \ {current}, u # t
        PROVE  a1'[u] = a1[u]
    BY <1>1, <2>1, <2>3, ThreadData
  <2>. QED
    BY Zenon, <2>1, <2>2, <2>3 DEF Kept, IsRunnable
<1>6. ASSUME NEW t \in Threads, TcbResume(t)
      PROVE  Kept /\ Woken
  <2>1. a1' = [a1 EXCEPT ![current] = None] /\ Resume(t) /\ status[t] = "Inactive"
    BY ZenonT(20), <1>6 DEF TcbResume
  <2>2. ASSUME NEW u \in Threads, status[u] = "Blocked", status'[u] = "Runnable"
        PROVE  u = t
    BY <2>1, <2>2, WakesOne
  <2>3. Woken
    BY <2>1, <2>2 DEF Woken
  <2>. QED
    BY <1>1, <2>1, <2>3, ThreadData DEF Kept
<1>7. CASE OtherSyscall
  BY <1>2, <1>7 DEF OtherSyscall, ReturnThroughSchedule
<1>. QED
  BY <1>3, <1>4, <1>5, <1>6, <1>7 DEF TcbSyscall

\* Every step of the two-thread system has both properties.
LEMMA ServesStep ==
  ASSUME KernelInv, TwoThreadsSound, Next, AtMostTwoStarted',
         ConfigStates \subseteq {"Inactive"}
  PROVE  Kept /\ Woken
<1>1. Sound
  BY StartedForGood DEF AtMostTwoStarted, TwoThreadsSound, Sound
<1>2. CASE current = IDLE
  <2>1. UNCHANGED status
    BY <1>2, IdleForGood
  <2>2. \A t \in Threads : ~IsRunnable(status, t)
    BY <1>1, <1>2 DEF Sound
  <2>. QED
    BY <2>1, <2>2 DEF Kept, Woken
<1>3. CASE current # IDLE
  <2>1. Running
    BY <1>1, <1>3 DEF Sound, Running, KernelInv, TailOK, SchedOK, TCBs
  <2>2. CASE IpcSyscall
    BY <2>1, <2>2, SendServes, RecvServes, SignalServes, WaitServes DEF IpcSyscall
  <2>3. CASE TcbSyscall \/ OtherSyscall
    BY <2>1, <2>3, TcbServes
  <2>4. CASE TimerInterrupt \/ UnhandledTrap
    <3>1. UNCHANGED <<status, a1>>
      BY <2>4 DEF TimerInterrupt, UnhandledTrap, Panic
    <3>. QED
      BY <3>1 DEF Kept, Woken
  <2>. QED
    BY <2>2, <2>3, <2>4 DEF Next
<1>. QED
  BY <1>2, <1>3

\* For any number of objects, while at most two threads have been started and each
\* was resumed when inactive: what a woken thread is to find in a1 stays there until
\* it runs (Endpoint::send, Notification::send_signal, write_reg).
THEOREM ResultKeptCorrect ==
  ASSUME ConfigStates \subseteq {"Inactive"}
  PROVE  Spec => ResultKeptUntilRun
<1>1. KernelInv /\ TwoThreadsSound /\ [Next]_vars
        => [AtMostTwoStarted' =>
              \A t \in Threads \ {current} : IsRunnable(status, t) => a1'[t] = a1[t]]_vars
  BY ServesStep DEF Kept
<1>. QED
  BY <1>1, TwoThreadsCorrect, Invariance, PTL DEF Spec, ResultKeptUntilRun

\* Under the same conditions a blocked thread is woken only by another thread that
\* meets it at the head of its queue, and with that thread's badge, message or word
\* (Endpoint::send and recv, Notification::send_signal).
THEOREM WokenByPeerCorrect ==
  ASSUME ConfigStates \subseteq {"Inactive"}
  PROVE  Spec => WokenOnlyByPeer
<1>1. KernelInv /\ TwoThreadsSound /\ [Next]_vars
        => [AtMostTwoStarted' =>
              \A t \in Threads :
                 status[t] = "Blocked" /\ status'[t] = "Runnable" => ServedByPeer(t)]_vars
  BY ServesStep DEF Woken
<1>. QED
  BY <1>1, TwoThreadsCorrect, Invariance, PTL DEF Spec, WokenOnlyByPeer

=============================================================================
