-------------------------------- MODULE Demo --------------------------------
(***************************************************************************)
(* The programs that the repository boots, on top of Kernel: the root      *)
(* server, the child thread it starts in its own address space and the     *)
(* program `simple` it loads into a new one.  A program is the sequence of *)
(* its system calls.  Each is one trap of Kernel, made while the thread is *)
(* current, and the timer may come between any two of them.                *)
(*                                                                         *)
(* Sources: rootserver/src/{rootserver,ctrl1}.rs, simple/src/*.rs,         *)
(* libzoea/src/lib.rs.                                                     *)
(***************************************************************************)
EXTENDS Kernel, Sequences

CONSTANTS
    Child, Simple,      \* child_tcb and new_proc
    Endpoint, Notify,   \* the endpoint and the notification
    Unbadged, DeadBeef, \* the badges of `endpoint` and of minted_ep
    Bit2, Bit3,         \* the badges of minted_not_1 and minted_not_2
    LineParts           \* put_char calls in a line of output

ASSUME DemoAssumption ==
    /\ Threads = {Root, Child, Simple} /\ Cardinality(Threads) = 3
    /\ Endpoint \in Endpoints /\ Notify \in Notifications
    /\ {Unbadged, DeadBeef} \subseteq Badges /\ {Bit2, Bit3} \subseteq Bits
    /\ LineParts \in Nat \ {0}

VARIABLES
    pc,         \* each thread's next system call
    part,       \* what it has written of the line it is writing
    writer,     \* the thread that wrote last
    split,      \* of each thread: has another one written into its line
    printed,    \* the markers whose every character has been written
    whole       \* those that stand in one piece in the log

dvars == <<pc, part, writer, split, printed, whole>>

-----------------------------------------------------------------------------
(* The programs *)

Op(op, arg) == [op |-> op, arg |-> arg]
Line(text) == Op("Line", text)      \* println!
Text == "text"                      \* any line that is no marker
Call == Op("Call", Root)            \* calls on memory, slots and page tables, with `?`

Mapped  == "ROOTSERVER_MAPPED_SIMPLE"
Resumed == "ROOTSERVER_RESUMED_SIMPLE"
Done    == "ROOTSERVER_DONE"
Main    == "SIMPLE_MAIN"
Fail    == "ROOTSERVER_MAIN"        \* the only [TEST][FAIL]
Markers == {Mapped, Resumed, Done, Main}

\* try_main up to the start of the child.
try_main_setup ==
    <<Line(Text), Call, Op("SetIpcBuffer", Child), Call, Line(Mapped), Line(Text), Call,
      Op("Configure", Child), Op("WriteReg", Child), Call, Op("Resume", Child)>>

\* Mutant: the root server receives once more than the child sends.
try_main_ipcThrice ==
    <<Line(Text), Op("Wait", {Bit2}), Line(Text), Op("Signal", {Bit3}), Line(Text),
      Op("Send", Unbadged), Line(Text), Op("Recv", DeadBeef), Line(Text),
      Op("Recv", DeadBeef), Line(Text), Op("Recv", DeadBeef), Line(Text)>>

\* Its exchange with the child.  The argument of Wait and Recv is what they
\* should return.
try_main_ipc ==
    <<Line(Text), Op("Wait", {Bit2}), Line(Text), Op("Signal", {Bit3}), Line(Text),
      Op("Send", Unbadged), Line(Text), Line(Text), Op("Recv", DeadBeef), Line(Text),
      Line(Text), Op("Recv", DeadBeef), Line(Text)>>

\* The start of simple, the end of main, and exit, which panics.
try_main_simple ==
    <<Op("Configure", Simple), Op("WriteReg", Simple), Op("Resume", Simple), Line(Resumed),
      Line(Done), Line(Text), Op("Loop", Root)>>

\* main when try_main returns an error.
main_failed == <<Line(Fail), Line(Text), Line(Text), Op("Loop", Root)>>

main == try_main_setup \o try_main_ipc \o try_main_simple \o main_failed
FailedAt == Len(main) - Len(main_failed) + 1

children ==
    <<Line(Text), Line(Text), Op("Signal", {Bit2}), Line(Text), Line(Text),
      Op("Recv", Unbadged), Line(Text), Line(Text), Op("Send", DeadBeef), Line(Text),
      Line(Text), Op("Send", DeadBeef), Line(Text), Op("Loop", Child)>>

simple_main == <<Line(Main), Line(Text), Op("Loop", Simple)>>

Program(t) == CASE t = Root -> main [] t = Child -> children [] t = Simple -> simple_main

Current == Program(current)[pc[current]]

-----------------------------------------------------------------------------
(* The steps of the current thread *)

Goto(label) == pc' = [pc EXCEPT ![current] = label]
NoOutput == UNCHANGED <<part, writer, split, printed, whole>>

\* One put_char of _print.  The line is split if another thread has written since
\* its first character.
put_char ==
    LET first == part[current] = 0
        last  == part[current] = LineParts - 1
        cut   == ~first /\ (split[current] \/ writer # current)
        text  == Current.arg
    IN  /\ Current.op = "Line"
        /\ OtherSyscall
        /\ writer' = current
        /\ split' = [split EXCEPT ![current] = cut /\ ~last]
        /\ part' = [part EXCEPT ![current] = IF last THEN 0 ELSE @ + 1]
        /\ printed' = IF last THEN (printed \cup {text}) \ {Text} ELSE printed
        /\ whole' = IF last /\ ~cut THEN (whole \cup {text}) \ {Text} ELSE whole
        /\ IF last THEN Goto(pc[current] + 1) ELSE UNCHANGED pc

\* A call that can fail, for want of memory or slots: `?` leaves try_main.
Setup ==
    /\ Current.op = "Call"
    /\ OtherSyscall
    /\ NoOutput
    /\ Goto(pc[current] + 1) \/ Goto(FailedAt)

\* The invocations of TCBs.  A page at an address of its own is the child's buffer.
TcbCall ==
    LET t == Current.arg
    IN  /\ \/ Current.op = "SetIpcBuffer" /\ \E m \in Messages : TcbSetIpcBuffer(t, m)
           \/ Current.op = "Configure" /\ TcbConfigure(t, TRUE)
           \/ Current.op = "WriteReg" /\ \E val \in Badges : TcbWriteReg(t, val)
           \/ Current.op = "Resume" /\ TcbResume(t)
        /\ NoOutput
        /\ Goto(pc[current] + 1)

\* IPC and notifications.  The message is what the sender's buffer holds.
IpcCall ==
    /\ \/ Current.op = "Wait" /\ NotifyWait(Notify)
       \/ Current.op = "Signal" /\ NotifySend(Notify, Current.arg)
       \/ Current.op = "Send" /\ EpSend(Endpoint, Current.arg, ipc_buffer[current])
       \/ Current.op = "Recv" /\ EpRecv(Endpoint)
    /\ NoOutput
    /\ Goto(pc[current] + 1)

Step == put_char \/ Setup \/ TcbCall \/ IpcCall

Tick == TimerInterrupt /\ UNCHANGED dvars

DemoInit ==
    /\ Init
    /\ pc = [t \in Threads |-> 1]
    /\ part = [t \in Threads |-> 0]
    /\ writer = Root
    /\ split = [t \in Threads |-> FALSE]
    /\ printed = {} /\ whole = {}

DemoNext == (current # IDLE /\ Step) \/ Tick

\* Ticks keep coming, as in FairSpec.  A time slice is TASK_QUANTUM whole periods
\* of the timer, so a thread that gets the processor again and again does go on
\* to its next system call.
DemoSpec ==
    /\ DemoInit /\ [][DemoNext]_<<vars, dvars>>
    /\ WF_<<vars, dvars>>(Tick)
    /\ \A t \in Threads : SF_<<vars, dvars>>(current = t /\ Step)

-----------------------------------------------------------------------------
(* Properties *)

\* No interleaving of the three threads makes the kernel panic: although a third
\* thread is started, no thread blocks or is woken after that, and each TCB slot is
\* filled once (block_thread, wake_up_thread, set_vspace).
NoPanic == panic = None

Last(t) == Program(t)[pc[t] - 1]

\* What notify.wait and endpoint.recive return is what the peer sent, whichever of
\* the two came first: the bits of minted_not_1 and not those of minted_not_2, the
\* badge of the capability the peer sent through, and the peer's message.
ResultsArrive ==
    \A t \in {Root, Child} :
        pc[t] > 1 /\ IsRunnable(status, t) /\ part[t] = 0 =>
            /\ Last(t).op \in {"Wait", "Recv"} => a1[t] = Last(t).arg
            /\ Last(t).op = "Recv" => ipc_buffer[Child] = ipc_buffer[Root]

\* The verdict of the smoke test: the programs print every marker that
\* scripts/qemu_smoke.sh requires, or the root server reports that a call failed.
\* The exchange of parent and child never gets stuck.
VerdictPrinted == <>[](Markers \subseteq printed \/ Fail \in printed)

\* scripts/qemu_smoke.sh:39-46 looks for each marker as one string in the log, so
\* no thread may write into another one's line.  println! makes one system call for
\* each character, and the timer may come between them.
MarkersWhole == printed \subseteq whole

=============================================================================
