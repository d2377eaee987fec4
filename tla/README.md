# A TLA+ model of the zoeax kernel

zoeax is a single-hart RISC-V microkernel with capabilities, written in Rust and modelled
on seL4. This directory holds TLA+ modules for the kernel, its user library and its demo
programs, TLC configurations that check them on small instances, and TLAPS proofs that the
safety properties of the kernel, of libzoea's capabilities and of the root server's loader
hold for every value of the constants.

## The system

| Part | Source (`src/kernel/src` unless noted) | Module |
|---|---|---|
| intrusive list | `list.rs` | `LinkedList` |
| scheduler, endpoint, notification | `scheduler.rs`, `object/endpoint.rs`, `object/notification.rs` | `Kernel` |
| thread control block | `object/tcb.rs`, `capability/tcb.rs` | `Kernel` (state), `CSpace` (slots), `TrapContext` (registers) |
| trap handler | `handler.rs` | `Kernel` (`handle_trap`), `TrapContext` (entry and return) |
| system call dispatch | `syscall.rs` | `Kernel`, `CSpace`, `VSpace`, `Untyped`; `SyscallAbi` (arguments, results) |
| untyped memory | `capability/untyped.rs` | `Untyped` |
| capability space, derivation links | `capability.rs`, `capability/cnode.rs`, `object/cnode.rs` | `CSpace` |
| page tables | `object/page_table.rs`, `capability/page_table.rs` | `VSpace` |
| boot | `init.rs`, `init/*.rs` | `Boot` |
| user library | `src/libzoea` | `UserCaps` (slots, handles), `SyscallAbi` (wrappers), `Demo` (`println!`) |
| root server, demo programs | `src/rootserver`, `src/simple` | `ElfLoader`, `Demo` |
| shared definitions | `src/shared` | `SyscallAbi`, `Boot`, `ElfLoader` |
| machine layer | `boot.S`, `riscv.rs`, `sbi.rs`, `timer.rs`, `uart.rs`, `kernel.ld` | timer as fairness, `sfence` in `VSpace`; the rest is I/O |

How the parts interact: a trap saves the registers of the current thread and enters
`handle_trap`. A timer interrupt counts down the thread's time slice. An ecall goes through
`handle_syscall` to the object behind the invoked capability. An endpoint or notification
may block the caller on its wait queue or make another thread runnable. `schedule()` then
chooses the thread to return to and activates its page table.

All lists of threads, the run queue and every wait queue, are intrusive: they share the one
`next` pointer of a TCB. `LinkedList::pop` does not reset it. Most of what is subtle in this
kernel follows from that.

## Modules

`LinkedList` models the list as its `head` and `last` pointers and the `next` pointers of
all items as one function. Nothing is abstracted: `push` writes the previous last item's
pointer only, `pop` leaves the popped item's pointer.

`Kernel` models everything between two instructions of user code as one action, because
traps are taken with interrupts disabled and no handler re-enables them (only `idle()` does,
which is a thread and not a handler). Each action is a handler and the `schedule()` that
ends it.

| State | Code |
|---|---|
| `next`, `status`, `time_slice`, `badge`, `vspace`, `ipc_buffer` | fields of a TCB |
| `a1` | register a1 of a thread as its last system call left it |
| `runqueue`, `requested` | `SCHEDULER` |
| `current`, `satp` | `CURRENT_PROC` and `cur_reg_base`; the active page table |
| `ep_state`, `ep_queue` | `Endpoint` |
| `notify_bit`, `bit_is_set`, `wait_queue` | `Notification` |
| `panic` | why the kernel stopped in `loop {}`; nothing happens afterwards |

| Action | Code |
|---|---|
| `EpSend`, `EpRecv` | `Endpoint::send`, `recv` with `pop_from_queue`, `set_ipc_msg`, `wake_up_thread`, `block_thread` |
| `NotifySend`, `NotifyWait` | `Notification::send_signal`, `wait_signal` |
| `TcbConfigure`, `TcbSetIpcBuffer`, `TcbWriteReg`, `TcbResume` | the TCB invocations |
| `OtherSyscall` | a system call that fails or concerns objects outside the module |
| `TimerInterrupt` | `timer_tick` |
| `UnhandledTrap` | every trap `handle_trap` answers with `panic!` |

Abstractions: a message and an endpoint badge are model values; a notification word is the
set of its bits; an IPC buffer belongs to one thread and holds one message; a thread's page
table is a root or not; all objects exist from the start. A thread whose page table is not a
root runs on the kernel's table, on which its first fetch faults.

Two constants describe user code. `ConfigStates` is the set of states in which it resumes a
thread or writes its registers: `{"Inactive"}` is the discipline of the root server, which
resumes each thread once; the other values are what the kernel permits. `UnhandledTraps`
says whether configured user code may fault.

`KernelProofs` holds the proofs about `Kernel`.

The other modules, one component each. An `MC` module of the same name gives each its
instance.

- `Untyped`: one block of memory and the objects made from it. Its action `Retype` is
  `invoke_retype` with the memory check, the alignment of the free index and `CapGenerator`.
  Addresses and words have a width; `OverflowChecks` says whether overflow panics (debug
  build, the default of the Makefile) or wraps (`make RELEASE=1`).
- `CSpace`: CNodes as slots that hold a capability and its two derivation links. Actions:
  retype, copy, mint, move and the TCB calls that fill slots, through `lookup_entry_mut` and
  `get_writable`. A link may be `Stack`, the address of an entry on the kernel's stack that
  no longer exists.
- `UserCaps`: the handles and cursors of libzoea over `CSpace`. `CapStore` is its abstract
  specification: named capabilities that are added and never change.
- `VSpace`: page tables, the flags in the capabilities, and the translations the processor
  has cached (`tlb`), which `sfence` empties and any step may fill. Pages are mapped,
  unmapped, copied and moved. Two constants describe user code: `Copied` is the set of tables
  of which it keeps a copy that is not mapped, `AnyRoot` says whether it names tables that are
  no roots as `root_table`. The kernel permits both; the root server does neither, which is
  the definition `Disciplined`.
- `ElfLoader`: the root server's loader, one system call or page copy per step, over
  `VSpace`, with other threads and the cache running in between.
- `TrapContext`: `trap_entry` and `return_to_user` instruction by instruction, `schedule()`
  as any choice of thread. `set_registers` copies the caller's whole register file, so the
  `sstatus` of a thread is any. A thread in supervisor mode faults, as its pages are user
  pages, and `handle_trap` panics (`Fault`, behind which nothing happens).
  `ThreadRegisters` is its abstract specification: a thread's registers change only by its
  own steps or a system call, its mode only by a system call.
- `SyscallAbi`: each wrapper of libzoea packs its arguments into registers, the kernel
  unpacks them, and the result or error code travels back.
- `Boot`: the bump allocator, slot indices, the root server's image, the untyped blocks and
  `BootInfo`, for a set of images and machine sizes.
- `Demo`: the root server, its child and `simple` as sequences of system calls over `Kernel`,
  with every line printed in `LineParts` calls.

Operators whose comment starts with "Mutant" are faulty versions of the definition that
follows them. Substituting one makes TLC report a violation of the property it is meant for,
which shows that the property can fail.

## Runs

| Run | Instance | Shows |
|---|---|---|
| `Kernel_two.cfg` | 2 threads, 1 endpoint, 1 notification, 2 messages, quantum 2 | `TypeOK`; `TwoThreadsSound`: lists and thread states agree and no pointer assertion fails; `NoLostWakeup`; `ResultKeptUntilRun`; `WokenOnlyByPeer`; `RunnableEventuallyRuns` |
| `Kernel_any_resume.cfg` | 2 threads, 1 endpoint, 1 notification, threads resumed in any state | `QueueEnds`, `EndpointIdleIffEmpty`, `NoQueuedThreadForgotten`, `TimeSliceInRange`, `AddressSpaceOfCurrent`, also when a thread is linked twice |
| `Kernel_assert.cfg` | 3 threads, 1 endpoint | violated: `NextIsNoneAsserted` |
| `Untyped_one.cfg` | a block of 32 units, words of 2, pages of 8, one CNode size that overflows | `ObjectsInBlock`, `ObjectsDisjoint`, `ObjectsAligned` when one object is made per call |
| `CSpace_calls.cfg` | root CNode of 8 slots, nested nodes of 2, 8 objects, 11 capabilities | `TypeOK` (no slot outside its node), `CapsMatchObjects`, `OneCapPerUntypedAndTcb`, `NoCapOverwritten` |
| `UserCaps_root.cfg` | root CNode of 16 slots, 12 capabilities | `PathsResolve`, `CursorPastFilled`, and `StoreSpec`: library and kernel implement `CapStore` |
| `VSpace_calls.cfg` | 2 levels, 4 tables, 2 pages, 3 page capabilities, `Disciplined` callers | `MappingsCounted`, `CachedAgrees`, `TablesFormTrees`, `OneTranslationPerCall` |
| `ElfLoader_load.cfg` | 3 levels, 7 tables, 4 pages, 2 segments | `ImageLoaded`, `LoaderEnds` |
| `TrapContext_switch.cfg` | 2 threads and idle, 7 registers | `IdleInterruptible`, and `RegistersKept`: the code implements `ThreadRegisters` |
| `SyscallAbi_calls.cfg` | halves of 3 bits, all wrappers | `ArgumentsArrive`, `ResultArrives` |
| `Boot_all.cfg` | 4 images, 18 memory sizes, 9 numbers of slots | `MemoryUsedOnce`, `BootInfoTrue`, `ImageInPlace`, `BootSucceeds` |
| `Demo_smoke.cfg` | the three programs, quantum 2, two parts per line | `NoPanic`, `ResultsArrive`, `VerdictPrinted` |

The violation is what the code says of itself and does not keep with three threads:
`assert!(tcb.next_is_none())` in `wake_up_thread` and `block_thread`. The root server resumes
t1 and t2 and blocks. t1 is popped and keeps `next = t2`. When t1 blocks, the assertion fails
and the kernel halts. The demo, which has three threads, does not meet it: `NoPanic` holds
over all its interleavings, because no thread blocks or is woken after the third is started.

### Where the results stop

The passing results hold within these limits, and TLC reports a violation outside them. Each
can be reproduced by the change named.

- Three threads. `WokenOnlyByPeer`, `ResultKeptUntilRun` and `TwoThreadsSound` are stated
  for at most two started threads. Without that premise `WokenOnlyByPeer` is false with
  three threads, an endpoint and a notification: a stale pointer brings a blocked thread to
  the processor, and it signals itself awake. An instance with three threads and only
  endpoints does not show this. `BlockedNotInRunqueue`, the comment in `block_thread`, fails
  in the instance of `Kernel_assert.cfg`.
- One object per retype. With `Nums = {1, 2}` in `Untyped_one.cfg`, `ObjectsInBlock` fails:
  `retype` passes the size of all objects to `CapGenerator` as the size of one.
- Overflow checks. With `OverflowChecks = FALSE`, a release build, `ObjectsInBlock` fails
  already for one object: the size of a large CNode wraps and passes the memory check.
- Mint of badges only. With `"CNode"` added to `MintTypes` in `CSpace_calls.cfg`,
  `CapsMatchObjects` fails: the kernel writes the badge over the radix. In the same way a mint
  of a page or page-table capability writes over its flags and mapped address, which `VSpace`
  leaves out. libzoea mints endpoints and notifications only.
- Mint into the root CNode. `PathsResolve`, `CursorPastFilled` and `StoreSpec` are stated for
  programs that mint into the root CNode, as the root server does (`MintsIntoRoot`). libzoea
  passes the path from the root where the kernel looks it up in the destination node. With
  `MCMintNodes == Nat \X Nat`, `PathsResolve` fails: the mint fills another slot of the nested
  node than the one its handle names.
- Derivation links. `NextIsNodeEntry`, the layout comment of `ManagementDB`, fails in the
  instance of `CSpace_calls.cfg` after one retype: the next link is the address of a stack
  entry. What a write through that address hits is not modelled, so no property rests on
  the links.
- Table capabilities. The kernel copies the capability of a table that is not mapped, and the
  copy can be mapped again; it takes any table as `root_table`. With `Copied = {t1}` or with
  `AnyRoot = TRUE` in `VSpace_calls.cfg`, all four properties of that run fail. The boot
  code leaves such copies in slots of the root server, which has no name for them.
- User addresses. The kernel checks that an address is aligned, not that it lies in the user
  half; `VSpace` has the addresses of the user half.
- Moved pages. A move clears the flag of a mapped page and leaves the table entry. The page
  then stays mapped and no capability says so. `MappingsCounted` is the other direction: every
  capability that says it is mapped has an entry of its own.
- The mode of threads. Nothing keeps a caller from writing an `sstatus` with the supervisor
  bit. `TrapContext` has the bits SPP and SPIE, and threads whose code is at user addresses.
- The idle thread's stack. `IdleStackKept` fails in the instance of
  `TrapContext_switch.cfg`: trap handler and idle thread use one stack from its top.
- Whole lines. `MarkersWhole`, which `scripts/qemu_smoke.sh` relies on, fails in the instance
  of `Demo_smoke.cfg`: `println!` makes one call per character. `VerdictPrinted` counts a
  line as printed even if another thread wrote into it.

### Bounds

`Kernel`: with two threads every list operation happens on lists of length 0 and 1, and of
length 2 when both wait in one queue; resuming a queued thread makes stale and circular
pointers. Three threads with both kinds of object exceed what TLC finishes in minutes; the
invariants of `Kernel_any_resume.cfg` are proved for any number. A quantum of 2 separates a
tick that ends a time slice from one that does not. `USIZE_MAX` is 15; the time slice never
wraps, so its value does not matter. `Untyped`: 32 units hold several objects of each size
and leave gaps for alignment. `CSpace`, `UserCaps`: nested nodes of radix 1 reach both edges of
a node; a node of radix 0 is left out. `VSpace`: two levels have every case of the walk; three
occur in `ElfLoader`, whose segments end in part of a page, in a page without file content,
and in a second table. Tables, pages, capabilities and table entries are symmetric in
`VSpace`, which is used for safety only. `TrapContext`: `GPR` has the registers that an instruction
treats specially, and ra for all the others.
`Boot`: memory and slots from too few to ample, most values near what the images need.

Deadlock is checked for `VSpace`, `ElfLoader`, `SyscallAbi`, `Boot` and `Demo`. It is not
checked where the system may stop: `Kernel` and `TrapContext` after a panic, and `Untyped`,
`CSpace` and `UserCaps` when memory, slots or the bounds are used up.

### Fairness

`Kernel`: weak fairness of `TimerInterrupt` and nothing else: `set_timer` re-arms the timer on
every tick, and supervisor interrupts are always enabled while the hart is in user mode. This
presumes that threads do run in user mode: `TcbWriteReg` copies `sstatus` with the other
registers, and the root server leaves it at its default, 0. User code is not obliged to make
system calls. `Demo`: weak fairness of the timer, and strong fairness of each program's step
while it is current, because a time slice is a whole number of timer periods and a program
makes progress in one. `ElfLoader`: strong fairness of the loader and weak fairness of the
switch back to it: the scheduler lets the root server run again and again. `Boot`: weak
fairness; the boot code runs alone.

## Proofs

Every safety property of the runs on the kernel, libzoea's capabilities and the root server's
loader is proved, for all values of the constants that satisfy the named assumption of the
module. Each proof rests on an inductive invariant, has one lemma per action, and cites the
lemmas about the operators of the model.

| Module | Proves | From |
|---|---|---|
| `KernelProofs` | `TypeOK`, `QueueEnds`, `EndpointIdleIffEmpty`, `NoLostWakeup`, `TimeSliceInRange`, `NoQueuedThreadForgotten`, `AddressSpaceOfCurrent`; `TwoThreadsSound`, `ResultKeptUntilRun`, `WokenOnlyByPeer` | `KernelAssumption`; the last three also `ConfigStates \subseteq {"Inactive"}` |
| `MemoryProofs`, first part | `MemoryUsedOnce`, `BootInfoTrue`, `ImageInPlace` of `Boot` | `BootAssumption` |
| `MemoryProofs`, second part | `ObjectsDisjoint`, `ObjectsAligned`, `FreeIndexNeverReturns`, `ObjectsInBlock` of `Untyped` | `UntypedAssumption`, `LayoutAssumption`, `OverflowChecks`; the last one also `Nums = {1}` |
| `CSpaceProofs` | `TypeOK`, `CapsMatchObjects`, `OneCapPerUntypedAndTcb`, `NoCapOverwritten` | `CSpaceAssumption` |
| `UserCapsProofs` | `PathsResolve`, `CursorPastFilled`, and that `UserCaps` implements `CapStore` (`StoreSpec`) | `CSpaceAssumption`, `UserCapsAssumption`, `MintsIntoRoot` |
| `VSpaceProofs` | `TablesFormTrees`, `MappingsCounted`, `CachedAgrees`, `OneTranslationPerCall` | `VSpaceAssumption`, `Disciplined` |
| `ElfLoaderProofs` | `ImageLoaded` | `VSpaceAssumption`, `LoaderAssumption` |
| `TrapContextProofs` | `IdleInterruptible`, and that `TrapContext` implements `ThreadRegisters` (`RegistersKept`) | `TrapAssumption` |
| `NatLemmas` | division, powers of two, induction over sets of numbers | |

### Kernel

The invariants hold for any sets of threads, endpoints, notifications, badges, bits and
messages, any positive quantum and any use of resume. They are proved together, as the
inductive invariant `KernelInv`: an endpoint's idle state depends on the ends of its queue
agreeing, the scheduler's properties on each other. `ScheduleStep` is the central lemma: it
says what `schedule()` establishes from any state a handler can leave. The proof holds in the
presence of stale pointers: it never assumes that a list is well formed beyond its two ends.

`TwoThreadsSound` holds for any number of TCBs and objects as long as at most two threads have
been started. It is inductive relative to `KernelInv`. A started thread never becomes inactive
again, so the premise holds in the past as well. Then a thread that becomes runnable finds the
run queue empty, and a thread that blocks behind another leaves no thread that can run: in
both cases a third started thread would have to exist. So no `next` pointer is written before
the idle thread runs for good, and no assertion on one can fail. `ResultKeptUntilRun` and
`WokenOnlyByPeer` follow: the head of a wait queue is a blocked thread other than the caller,
the only other thread whose registers an IPC call writes and the only one it wakes.

### Memory

`UntypedInv` adds to the properties that the free index is a multiple of the word and that
every object lies below it. `AlignUpLeast` says what `align_up` returns; `OneFits` is the
reason that the check before the alignment is enough: block ends and object sizes are aligned
alike, so that what fits before fits after. `FreeIndexNeverReturns` is in no run, because an
index that went back would break `ObjectsDisjoint`, which a run checks.

For `Boot`, `IInv` says what each step leaves for the next: all memory taken is below
`start_addr`, all slots from `cnode_start_idx` on are empty, `BootInfo` lists the blocks made
so far, the pages of the image before `(seg, idx)` are in place, and the page in hand has a
frame that nothing uses. `BootAssumption` says that segments share no page; this is needed,
since the boot code maps a page without looking whether the address is taken.

### Capabilities

`IInv` of `CSpaceProofs` adds that every filled slot lies within a CNode or a TCB, that a
thread's root is a CNode, and that objects are numbered without gaps, so that a new object is
none of the old ones. `lookup_entry_mut` is a loop; the lemma `LookupIsWalk` gives the
equation of one round, and `LookupInNode` that the slot found is one of its node.

`UInv` of `UserCapsProofs` says that there is a slot for every handle (`HandlesAt`): the
handle's path leads to it, no two handles share one, and no filled slot of a node is at or
past its cursor. The path of a slot in a new node is the path of the node and an index; that
the lookup of the longer path passes through the node is arithmetic on powers of two. The
refinement maps the store to what the slots of the handles hold: a create fills one slot that
no handle had, everything else is a stutter.

### Page tables and the loader

`IInv` of `VSpaceProofs` gives every table a level, such that an entry leads one level down
and no table has two parents. Then two walks that meet are the same walk, which bounds what a
call can change to one address (`OneTranslationPerCall`), and with it the number of mappings
(`MappingsCounted`). That a table is linked once rests on `Disciplined`: its one capability is
marked when it is linked. `CachedAgrees` is part of the invariant: a stale translation can only be
of an address that is no longer mapped, and every map flushes.

Every step of the loader is a step of `VSpace` that a disciplined caller takes, whatever the
constants, so that invariant holds for it as well. `LInv`
adds where the loader is: the pages before `(seg, idx)` are mapped and filled, the page in
hand is none of them, pages that no capability names are zero, and `FreeAddress` is mapped
only between `MapTmp` and `UnmapTmp`, to the page in hand. The copy then goes to that page
although the cache may hold translations from before.

### Registers

`TInv` says that `sscratch` and `cur_reg_base` point where `trap_entry` expects, and that the
saved `sstatus` of the idle thread returns it to supervisor mode with interrupts on. `TrapEntrySaves` and `ReturnLoads` compose
the instructions: each one saves or restores one register and keeps the ones done before, and
none reads a register that is already overwritten.

### How recursion is treated

`lookup_entry_mut` and `walk` are recursive functions over the bits or levels that are left.
That they are defined, and what they return, is proved by induction over sets: `SetInduction`
of `NatLemmas` says that a set with 0, and with n + 1 whenever it has n, has all numbers, and
each induction names its set. `WalkExists` is the one that shows that the loop of
`lookup_entry_mut` ends: every CNode on a path consumes at least one bit.

### Only model-checked

- Liveness: `RunnableEventuallyRuns`, `LoaderEnds`, `BootSucceeds`, `VerdictPrinted`. The
  prover does not treat fairness.
- `ArgumentsArrive` and `ResultArrives` of `SyscallAbi`: they are about how fixed tables of
  codes and bit fields are packed, which the run enumerates; only the width of a word is
  smaller than in the code.
- `NoPanic` and `ResultsArrive` of `Demo`: they are about three given programs with three
  threads, where `TwoThreadsSound` does not apply. They hold because of the order of the
  programs' calls, and the run covers all interleavings of these.

## Not modelled

- I/O and layout: console, SBI calls, `boot.S`, the linker script, wording of errors,
  `print_traverse`, which only prints.
- Parsing of ELF headers (`shared/src/elf/def.rs`): a segment is a record of its fields.
- Access rights of pages in `VSpace`; `SyscallAbi` has how the flags are encoded.
- Conversion between physical and virtual addresses; one address stands for both.
- Device memory: no device block is ever made.
- The mapping that `kernel_vm_init` makes of the kernel is the constant `KernelRoot`.
- `PageTableUnMap`, a `todo!()` in the code, and `delete` of libzoea, which does nothing.
- CNodes of radix 0, and paths longer than 64 bits.
- An abstract kernel without lists that `Kernel` implements while at most two threads have
  been started. `TwoThreadsSound` states the agreement such a refinement would rest on.

`PROJECT.json` lists the hazards of the code with the properties that cover them, and for the
uncovered ones the reason.
