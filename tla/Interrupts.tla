----------------------------- MODULE Interrupts -----------------------------
(***************************************************************************)
(* The interrupt controllers (arch/pic.c), the gates (arch/idt.c) and the  *)
(* handlers (functions.asm, arch/isr.c), composed with the two drivers     *)
(* that poll although their devices or handlers also interrupt: the disk   *)
(* (Ata) and the serial line (Serial).                                     *)
(*                                                                         *)
(* One thread, that of the command line, uses the disk and prints; which   *)
(* other threads run in between is the business of Scheduler.  The         *)
(* controllers are external.  Lines: 0 timer, 1 keyboard, 4 a device whose *)
(* line is masked, 14 disk.                                                *)
(***************************************************************************)
EXTENDS Integers, Sequences

CONSTANTS Values, Size, Bad, Requests, Upper, Lower,   \* as in Ata
          TextLength, FifoSize                         \* as in Serial

ASSUME InterruptsAssumption ==
  /\ Upper \in Nat \ {0} /\ Lower \in Nat \ {0} /\ Size \in 1 .. Upper * Lower
  /\ Bad \subseteq 0 .. Size - 1
  /\ {"none", "ok", "error"} \cap Values = {}
  /\ Requests \subseteq [kind : {"read", "write"}, lba : Nat, value : Values]
  /\ TextLength \in Nat \ {0}
  /\ FifoSize \in Nat \ {0, 1}     \* a transmitter with a FIFO (16)

Thread  == "thread"
Handler == "handler"
Writers == {Thread, Handler}

VARIABLES
  content, status, command, address, latch, intrq,     \* as in Ata
  pc, request, buffer, answer,
  fifo, position, ready, heard,                        \* as in Serial
  irr,         \* requests the controllers have latched
  inService,   \* requests that have not had their end of interrupt
  vector,      \* regs->int_no of the handler that runs, 0 in a thread
  stage,       \* of generic_isr_handler: before a call, or printing in one
  calls        \* calls of the registered handler still to come

driveVars == <<content, status, command, address, latch, intrq,
               pc, request, buffer, answer>>
lineVars == <<fifo, position, ready, heard>>
cpuVars == <<inService, vector, stage, calls>>
vars == <<driveVars, lineVars, irr, cpuVars>>

Drive == INSTANCE Ata
Line  == INSTANCE Serial

Irqs == {0, 1, 4, 14}

-----------------------------------------------------------------------------
(* Controllers and gates.                                                  *)

(* Mutation: the mask lets through a line without a gate of its own.       *)
Unmasked_Line4 == {0, 1, 2, 4, 14, 15}

(* The masks 0xF8 and 0x3F of pic_remap.                                   *)
Unmasked == {0, 1, 2, 14, 15}

(* The second controller hangs on line 2 of the first.                     *)
OnSecond(i) == i >= 8
Level(i) == IF OnSecond(i) THEN 2 ELSE i

(* Nothing of a higher or the same priority is in service.                 *)
Unblocked(i) ==
  /\ \A k \in inService : ~OnSecond(k) => k > Level(i)
  /\ OnSecond(i) => \A k \in inService : OnSecond(k) => k > i

Candidates == {i \in irr \cap Unmasked : Unblocked(i)}

(* The request with the highest priority.                                  *)
Next_(i) ==
  /\ i \in Candidates
  /\ \A k \in Candidates : Level(i) < Level(k) \/ (Level(i) = Level(k) /\ i <= k)

(* The number a gate pushes: idt_init_test gives isr48 to all that have    *)
(* none of their own.                                                      *)
Gate(v) == IF v \in {32, 33, 46, 47} THEN v ELSE 48

(* generic_isr_handler calls timer_callback through the table and again.   *)
CallsFor(v) == IF v = 32 THEN 2 ELSE IF v \in {33, 46, 47} THEN 1 ELSE 0

(* A gate clears IF: what follows is not interrupted.                      *)
Enter(i, v, served) ==
  /\ vector' = Gate(v) /\ calls' = CallsFor(Gate(v)) /\ stage' = "call"
  /\ irr' = irr \ {i}
  /\ inService' = inService \cup served
  /\ UNCHANGED <<driveVars, lineVars>>

AcceptFirst(i) ==
  /\ vector = 0 /\ Next_(i) /\ ~OnSecond(i)
  /\ Enter(i, 32 + i, {i})

AcceptDisk ==
  /\ vector = 0 /\ Next_(14)
  /\ Enter(14, 46, {2, 14})

(* Polling has taken the request back before the processor accepts it.     *)
(* The controllers may have kept it (AcceptDisk), forget it, or answer     *)
(* with the lowest line of the second or of the first, which is not put    *)
(* in service.                                                             *)
AcceptSpurious ==
  /\ vector = 0 /\ Next_(14) /\ ~intrq
  /\ \/ Enter(14, 47, {2})
     \/ Enter(14, 39, {})

Forget ==
  /\ 14 \in irr /\ ~intrq
  /\ irr' = irr \ {14}
  /\ UNCHANGED <<driveVars, lineVars, cpuVars>>

-----------------------------------------------------------------------------
(* generic_isr_handler.                                                    *)

(* disk_callback reads the status register; keyboard_callback prints       *)
(* nothing.                                                                *)
HandlerCall ==
  /\ vector # 0 /\ stage = "call" /\ calls > 0
  /\ calls' = calls - 1
  /\ stage' = IF vector = 33 THEN "call" ELSE "print"
  /\ intrq' = IF vector \in {46, 47} THEN FALSE ELSE intrq
  /\ UNCHANGED <<content, status, command, address, latch, pc, request, buffer,
                 answer, lineVars, irr, inService, vector>>

(* A step of serial_print in a handler; its text done, it returns.         *)
HandlerPrints ==
  /\ vector # 0 /\ stage = "print"
  /\ \/ Line!Poll(Handler) /\ UNCHANGED stage
     \/ /\ Line!Put(Handler)
        /\ stage' = IF position'[Handler] = 1 THEN "call" ELSE stage
  /\ UNCHANGED <<driveVars, irr, inService, vector, calls>>

(* Both calls of timer_callback print the ticks, disk_callback the status. *)
TimerPrints == vector = 32 /\ HandlerPrints
DiskPrints  == vector \in {46, 47} /\ HandlerPrints

Highest(S) == {i \in S : \A k \in S : i <= k}
OfFirst  == Highest({i \in inService : ~OnSecond(i)})
OfSecond == Highest({i \in inService : OnSecond(i)})

(* What the end of interrupt takes out of service; isr48 sends none.       *)
Ended ==
  IF vector = 48 THEN {}
  ELSE OfFirst \cup IF vector >= 40 THEN OfSecond ELSE {}

EndOfInterrupt ==
  /\ vector # 0 /\ stage = "call" /\ calls = 0
  /\ inService' = inService \ Ended
  /\ vector' = 0
  /\ UNCHANGED <<driveVars, lineVars, irr, stage, calls>>

HandlerStep == HandlerCall \/ TimerPrints \/ DiskPrints \/ EndOfInterrupt

-----------------------------------------------------------------------------
(* The thread of the command line.                                         *)

ThreadCalls ==
  /\ vector = 0 /\ Line!Silent(Thread)
  /\ Drive!Call
  /\ UNCHANGED <<lineVars, irr, cpuVars>>

ThreadDrives ==
  /\ vector = 0
  /\ Drive!DriverStep
  /\ UNCHANGED <<lineVars, irr, cpuVars>>

ThreadPrints ==
  /\ vector = 0 /\ pc = "idle"
  /\ Line!Poll(Thread) \/ Line!Put(Thread)
  /\ UNCHANGED <<driveVars, irr, cpuVars>>

-----------------------------------------------------------------------------
(* The devices.  A rising line is latched.                                 *)

DiskWorks ==
  /\ Drive!DeviceStep
  /\ irr' = IF ~intrq /\ intrq' THEN irr \cup {14} ELSE irr
  /\ UNCHANGED <<lineVars, cpuVars>>

LineSends ==
  /\ Line!Transmit
  /\ UNCHANGED <<driveVars, irr, cpuVars>>

(* The handler of the timer is shorter than its period.  A masked request  *)
(* has no effect.                                                          *)
Interrupt(i) ==
  /\ i \in Unmasked \ irr
  /\ i = 0 => vector # 32
  /\ irr' = irr \cup {i}
  /\ UNCHANGED <<driveVars, lineVars, cpuVars>>

-----------------------------------------------------------------------------
(* sti, after a boot that has polled the disk.                             *)
Init ==
  /\ Drive!Init /\ Line!Init
  /\ irr \in {{14}, {0, 14}}
  /\ inService = {} /\ vector = 0 /\ stage = "call" /\ calls = 0

Next ==
  \/ \E i \in {0, 1, 4} : AcceptFirst(i)
  \/ AcceptDisk \/ AcceptSpurious \/ Forget
  \/ HandlerCall \/ TimerPrints \/ DiskPrints \/ EndOfInterrupt
  \/ ThreadCalls \/ ThreadDrives \/ ThreadPrints
  \/ DiskWorks \/ LineSends
  \/ \E i \in {0, 1, 4} : Interrupt(i)

(* Between two timer interrupts the processor gets to a pending request of *)
(* a lower priority, and to the thread.                                    *)
Fairness ==
  /\ WF_vars(HandlerStep) /\ WF_vars(DiskWorks) /\ WF_vars(LineSends)
  /\ \A i \in {0, 1} : SF_vars(AcceptFirst(i))
  /\ SF_vars(ThreadDrives)

Spec == Init /\ [][Next]_vars /\ Fairness

-----------------------------------------------------------------------------
(* The drivers keep their promises also with handlers that read the status *)
(* of the disk and print in between.                                       *)
DiskSpec     == Drive!DiskSpec
TextsInOrder == Line!TextsInOrder

(* Outside the handlers no request is in service, or all of its priority   *)
(* and below would be shut out for ever: every handler sends as many ends  *)
(* of interrupt as were accepted, spurious ones and isr48 included.        *)
NothingInService == vector = 0 => inService = {}

(* A key is noticed, whatever else interrupts; a call of the disk driver   *)
(* returns, although its loops have no limit and handlers take back the    *)
(* interrupts it could have waited for.                                    *)
EveryWaitEnds ==
  /\ 1 \in irr ~> vector = 33
  /\ pc # "idle" ~> pc = "idle"
=============================================================================
