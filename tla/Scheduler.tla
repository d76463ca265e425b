------------------------------ MODULE Scheduler ------------------------------
(***************************************************************************)
(* Preemptive multitasking of the kernel: the timer interrupt path         *)
(* (functions.asm, arch/isr.c, arch/timer.c), the round-robin switch and   *)
(* the creation of threads (scheduler/scheduler.c), the table of memory    *)
(* partitions (scheduler/memory.c), the boot sequence (kernel.c) and the   *)
(* exec command (cli/commands.c) that creates threads while the timer      *)
(* preempts it.                                                            *)
(*                                                                         *)
(* A stack is named by the partition it lies in, or is BootStack; a stack  *)
(* pointer is the name of the stack it points into.  What a switch has to  *)
(* get right is which stack the processor continues on, and that the       *)
(* stack holds a frame that iret can pop.                                  *)
(*                                                                         *)
(* The interrupt gates (flags 0x8E) clear IF, so nothing runs between the  *)
(* steps of one interrupt; the steps of a thread are separated by any      *)
(* number of interrupts.  The statistics totalTime and noSwitches are      *)
(* left out: the kernel writes them and never reads them.                  *)
(***************************************************************************)
EXTENDS Integers

CONSTANTS MaxProcesses,  \* MAX_PROCESSES: size of gt_table and partition_table
          Quantum,       \* calls of timer_callback that make a time slice (12)
          TickModulus    \* total_ticks wraps at this value (2^32)

(* The code has 8, 12 and 2^32.  That Quantum is even matters.             *)
ASSUME SchedulerAssumption ==
  /\ MaxProcesses \in Nat /\ MaxProcesses >= 2
  /\ Quantum \in Nat /\ \E n \in 1 .. Quantum : Quantum = 2 * n
  /\ TickModulus \in Nat \ {0}

Slots      == 0 .. MaxProcesses - 1
Partitions == 0 .. MaxProcesses - 1
BootStack  == -1                         \* esp = 0x90000, set by fe-boot.asm
Stacks     == Partitions \cup {BootStack}
NoEsp      == -2                         \* the esp of a slot never suspended
KernelText == -3                         \* entry point inside the kernel image
CliSlot    == 1                          \* the first slot main() fills
NoIndex    == -1

VARIABLES
  gt_current,      \* slot of the current thread
  gt_state,        \* gt_table[t].state
  gt_esp,          \* gt_table[t].esp
  gt_base,         \* gt_table[t].base; slot 0 keeps 0 and lives on BootStack
  partition_used,  \* partition_table[p].used
  ticks_elapsed,   \* static counter of timer_callback
  total_ticks,     \* global counter behind the uptime display
  cpu,             \* the stack the processor executes on
  frame,           \* frame[s]: stack s has a complete interrupt frame on top
  entry,           \* entry[t]: where the first frame of t continues (eip)
  loaded,          \* partitions a program file has been read into
  isr,             \* progress of the timer interrupt, "none" outside it
  regs,            \* the frame pointer generic_isr_handler was given
  final_esp,       \* the stack pointer common_isr_handler will load
  int_enabled,     \* main() has executed sti
  booted,          \* calls of schedule_create main() has made
  call,            \* progress of the running schedule_create / execCommand
  exec_part,       \* execCommand's part, NoIndex when main() is the caller
  thread_idx,      \* schedule_create's thread_idx
  part,            \* schedule_create's part
  interrupts       \* timer interrupts taken, modulo TickModulus (not code)

schedVars  == <<gt_current, gt_state, gt_esp>>
tickVars   == <<ticks_elapsed, total_ticks>>
isrVars    == <<isr, regs, final_esp>>
localVars  == <<call, exec_part, thread_idx, part>>
memoryVars == <<gt_base, partition_used, entry, loaded>>
vars == <<schedVars, tickVars, isrVars, localVars, memoryVars,
          cpu, frame, int_enabled, booted, interrupts>>

-----------------------------------------------------------------------------
(* The stack of a slot: the top of its partition, or the boot stack.       *)
StackOf(t) == gt_base[t]

Least(S, i) == i \in S /\ \A k \in S : i <= k

Ready   == {t \in Slots : gt_state[t] = "Ready"}
Unused  == {t \in Slots : gt_state[t] = "Unused"}
FreePartitions == {p \in Partitions : ~partition_used[p]}

(* Mutation: the scan walks the table downwards.                           *)
ScanMeets_Downwards(i, k, j) == \/ i > k /\ k > j
                                \/ k > j /\ j >= i
                                \/ j >= i /\ i > k

(* The scan of schedule_tick starts behind slot i, wraps at the end of the *)
(* table and comes to slot i last; it meets k before j.                    *)
ScanMeets(i, k, j) == \/ i < k /\ k < j
                      \/ k < j /\ j <= i
                      \/ j <= i /\ i < k

(* Mutation: the scan starts at slot 0 whoever is current.                 *)
FirstInScan_FromZero(i, S, j) == Least(S, j)

FirstInScan(i, S, j) == j \in S /\ \A k \in S : ~ScanMeets(i, k, j)

(* Mutation: off by one, a slice of an odd number of calls.                *)
SliceOver_OffByOne(n) == n > Quantum

SliceOver(n) == n >= Quantum

-----------------------------------------------------------------------------
Init ==
  /\ gt_current = 0
  /\ gt_state = [t \in Slots |-> IF t = 0 THEN "Running" ELSE "Unused"]
  /\ gt_esp = [t \in Slots |-> NoEsp]
  /\ gt_base = [t \in Slots |-> BootStack]
  /\ partition_used = [p \in Partitions |-> FALSE]
  /\ ticks_elapsed = 0
  /\ total_ticks = 0
  /\ cpu = BootStack
  /\ frame = [s \in Stacks |-> FALSE]
  /\ entry = [t \in Slots |-> KernelText]
  /\ loaded = {}
  /\ isr = "none" /\ regs = BootStack /\ final_esp = BootStack
  /\ int_enabled = FALSE
  /\ booted = 0
  /\ call = "idle"
  /\ exec_part = NoIndex /\ thread_idx = NoIndex /\ part = NoIndex
  /\ interrupts = 0

-----------------------------------------------------------------------------
(* The timer interrupt.                                                    *)

(* schedule_tick(current_esp).  The branch for an empty scan is the code   *)
(* after the loop; it returns the esp of the slot it leaves current.       *)
schedule_tick(current_esp) ==
  LET suspended == [gt_state EXCEPT ![gt_current] =
                      IF @ = "Running" THEN "Ready" ELSE @]
      ready == {t \in Slots : suspended[t] = "Ready"}
      fallback == IF suspended[gt_current] = "Unused" THEN 0 ELSE gt_current
  IN  /\ gt_esp' = [gt_esp EXCEPT ![gt_current] = current_esp]
      /\ IF ready = {}
           THEN /\ gt_current' = fallback
                /\ gt_state' = [suspended EXCEPT ![fallback] = "Running"]
           ELSE \E next \in Slots :
                  /\ FirstInScan(gt_current, ready, next)
                  /\ gt_current' = next
                  /\ gt_state' = [suspended EXCEPT ![next] = "Running"]

(* Mutation: ticks_elapsed is not reset when the slice is over.            *)
timer_callback_NoReset ==
  /\ total_ticks' = (total_ticks + 1) % TickModulus
  /\ ticks_elapsed' = ticks_elapsed + 1
  /\ IF SliceOver(ticks_elapsed + 1) THEN schedule_tick(regs)
                                     ELSE UNCHANGED schedVars

(* timer_callback(regs), apart from its return value.                      *)
timer_callback ==
  /\ total_ticks' = (total_ticks + 1) % TickModulus
  /\ IF SliceOver(ticks_elapsed + 1)
       THEN /\ ticks_elapsed' = 0
            /\ schedule_tick(regs)
       ELSE /\ ticks_elapsed' = ticks_elapsed + 1
            /\ UNCHANGED schedVars

(* What timer_callback returns when it is called in this state.            *)
CallbackResult == IF SliceOver(ticks_elapsed + 1) THEN gt_esp'[gt_current']
                                                  ELSE regs

(* IRQ 0: isr32 and common_isr_handler push the frame of whoever runs;     *)
(* generic_isr_handler starts with final_esp = regs.                       *)
TimerInterrupt ==
  /\ int_enabled /\ isr = "none"
  /\ frame' = [frame EXCEPT ![cpu] = TRUE]
  /\ regs' = cpu
  /\ final_esp' = cpu
  /\ isr' = "handler"
  /\ interrupts' = (interrupts + 1) % TickModulus
  /\ UNCHANGED <<schedVars, tickVars, localVars, memoryVars, cpu,
                 int_enabled, booted>>

(* The call through interrupt_handlers[32]; its result is dropped.         *)
HandlerCall ==
  /\ isr = "handler"
  /\ timer_callback
  /\ isr' = "timer"
  /\ UNCHANGED <<regs, final_esp, localVars, memoryVars, cpu, frame,
                 int_enabled, booted, interrupts>>

(* The second call, of the same function, in the branch for int_no == 32.  *)
TimerCall ==
  /\ isr = "timer"
  /\ timer_callback
  /\ final_esp' = CallbackResult
  /\ isr' = "return"
  /\ UNCHANGED <<regs, localVars, memoryVars, cpu, frame, int_enabled,
                 booted, interrupts>>

(* mov esp, eax; popa; iret: the frame under final_esp is popped.          *)
InterruptReturn ==
  /\ isr = "return"
  /\ cpu' = final_esp
  /\ frame' = [frame EXCEPT ![final_esp] = FALSE]
  /\ isr' = "none"
  /\ UNCHANGED <<schedVars, tickVars, localVars, memoryVars, regs, final_esp,
                 int_enabled, booted, interrupts>>

-----------------------------------------------------------------------------
(* Creating threads.  main() creates the first ones with interrupts off;   *)
(* later the thread of the command line is the only creator.               *)

KernelThreads == 3
Creator == IF int_enabled THEN CliSlot ELSE 0

(* The creating thread executes an instruction of its own.                 *)
CreatorRuns == isr = "none" /\ cpu = StackOf(Creator)

threadStep == UNCHANGED <<schedVars, tickVars, isrVars, cpu, int_enabled,
                          interrupts>>

(* main() calls schedule_create(cliLoop), (timer_uptime),                  *)
(* (cliPrintCPUVendor) and ignores what they return.                       *)
BootCreate ==
  /\ ~int_enabled /\ call = "idle" /\ booted < KernelThreads
  /\ booted' = booted + 1
  /\ call' = "find_slot"
  /\ exec_part' = NoIndex
  /\ UNCHANGED <<thread_idx, part, memoryVars, frame>>
  /\ threadStep

(* asm volatile("sti"), after which main() only halts.                     *)
EnableInterrupts ==
  /\ ~int_enabled /\ call = "idle" /\ booted = KernelThreads
  /\ int_enabled' = TRUE
  /\ UNCHANGED <<schedVars, tickVars, isrVars, localVars, memoryVars, cpu,
                 frame, booted, interrupts>>

(* Mutation: execCommand reserves the partition as soon as it has chosen.  *)
ExecChoose_Reserve ==
  /\ int_enabled /\ call = "idle" /\ CreatorRuns
  /\ \E p \in FreePartitions :
       /\ Least(FreePartitions, p)
       /\ exec_part' = p
       /\ partition_used' = [partition_used EXCEPT ![p] = TRUE]
  /\ call' = "load"
  /\ UNCHANGED <<thread_idx, part, gt_base, entry, loaded, frame, booted>>
  /\ threadStep

(* execCommand up to the choice of a partition.                            *)
ExecChoose ==
  /\ int_enabled /\ call = "idle" /\ CreatorRuns
  /\ \E p \in FreePartitions : /\ Least(FreePartitions, p)
                               /\ exec_part' = p
  /\ call' = "load"
  /\ UNCHANGED <<thread_idx, part, memoryVars, frame, booted>>
  /\ threadStep

(* read_ copies the file to part->base; partition_table is not touched.    *)
ExecLoad ==
  /\ call = "load" /\ CreatorRuns
  /\ loaded' = loaded \cup {exec_part}
  /\ call' = "find_slot"
  /\ UNCHANGED <<exec_part, thread_idx, part, gt_base, partition_used, entry,
                 frame, booted>>
  /\ threadStep

(* Mutation: with no slot free the search starts again.                    *)
FindSlot_Retry ==
  /\ call = "find_slot" /\ CreatorRuns
  /\ \E t \in Unused : Least(Unused, t) /\ thread_idx' = t
  /\ call' = "find_partition"
  /\ UNCHANGED <<exec_part, part, memoryVars, frame, booted>>
  /\ threadStep

(* The search of schedule_create for an Unused slot.                       *)
FindSlot ==
  /\ call = "find_slot" /\ CreatorRuns
  /\ IF Unused = {}
       THEN call' = "failed" /\ UNCHANGED thread_idx
       ELSE /\ \E t \in Unused : Least(Unused, t) /\ thread_idx' = t
            /\ call' = "find_partition"
  /\ UNCHANGED <<exec_part, part, memoryVars, frame, booted>>
  /\ threadStep

(* memory_find_free_partition, the second time when exec is the caller.    *)
FindPartition ==
  /\ call = "find_partition" /\ CreatorRuns
  /\ IF FreePartitions = {}
       THEN call' = "failed" /\ UNCHANGED part
       ELSE /\ \E p \in FreePartitions : Least(FreePartitions, p) /\ part' = p
            /\ call' = "claim"
  /\ UNCHANGED <<exec_part, thread_idx, memoryVars, frame, booted>>
  /\ threadStep

(* Mutation: the partition is not marked as used.                          *)
ClaimPartition_NotMarked ==
  /\ call = "claim" /\ CreatorRuns
  /\ gt_base' = [gt_base EXCEPT ![thread_idx] = part]
  /\ call' = "frame"
  /\ UNCHANGED <<exec_part, thread_idx, part, partition_used, entry, loaded,
                 frame, booted>>
  /\ threadStep

(* Mutation: the thread becomes Ready before its stack is built.           *)
ClaimPartition_ReadyFirst ==
  /\ call = "claim" /\ CreatorRuns
  /\ partition_used' = [partition_used EXCEPT ![part] = TRUE]
  /\ gt_base' = [gt_base EXCEPT ![thread_idx] = part]
  /\ gt_state' = [gt_state EXCEPT ![thread_idx] = "Ready"]
  /\ call' = "frame"
  /\ UNCHANGED <<gt_current, gt_esp, exec_part, thread_idx, part, entry,
                 loaded, tickVars, isrVars, cpu, frame, int_enabled, booted,
                 interrupts>>

(* part->used = 1; p->base = part->base.                                   *)
ClaimPartition ==
  /\ call = "claim" /\ CreatorRuns
  /\ partition_used' = [partition_used EXCEPT ![part] = TRUE]
  /\ gt_base' = [gt_base EXCEPT ![thread_idx] = part]
  /\ call' = "frame"
  /\ UNCHANGED <<exec_part, thread_idx, part, entry, loaded, frame, booted>>
  /\ threadStep

(* The fourteen pushes, from eflags with IF set down to ds.                *)
BuildFrame ==
  /\ call = "frame" /\ CreatorRuns
  /\ frame' = [frame EXCEPT ![StackOf(thread_idx)] = TRUE]
  /\ entry' = [entry EXCEPT ![thread_idx] =
                 IF exec_part = NoIndex THEN KernelText ELSE exec_part]
  /\ call' = "esp"
  /\ UNCHANGED <<exec_part, thread_idx, part, gt_base, partition_used, loaded,
                 booted>>
  /\ threadStep

(* p->esp = stack.                                                         *)
StoreEsp ==
  /\ call = "esp" /\ CreatorRuns
  /\ gt_esp' = [gt_esp EXCEPT ![thread_idx] = StackOf(thread_idx)]
  /\ call' = "ready"
  /\ UNCHANGED <<gt_current, gt_state, exec_part, thread_idx, part, tickVars,
                 isrVars, memoryVars, cpu, frame, int_enabled, booted,
                 interrupts>>

(* p->state = Ready, the last store of schedule_create; it returns.        *)
MakeReady ==
  /\ call = "ready" /\ CreatorRuns
  /\ gt_state' = [gt_state EXCEPT ![thread_idx] = "Ready"]
  /\ call' = "idle"
  /\ UNCHANGED <<gt_current, gt_esp, exec_part, thread_idx, part, tickVars,
                 isrVars, memoryVars, cpu, frame, int_enabled, booted,
                 interrupts>>

(* schedule_create returned -1: execCommand gives back the partition it    *)
(* chose, main() goes on.                                                  *)
CreateFailed ==
  /\ call = "failed" /\ CreatorRuns
  /\ partition_used' = IF exec_part = NoIndex THEN partition_used
                       ELSE [partition_used EXCEPT ![exec_part] = FALSE]
  /\ call' = "idle"
  /\ UNCHANGED <<exec_part, thread_idx, part, gt_base, entry, loaded, frame,
                 booted>>
  /\ threadStep

-----------------------------------------------------------------------------
Boot   == BootCreate \/ EnableInterrupts
Timer  == TimerInterrupt \/ HandlerCall \/ TimerCall \/ InterruptReturn
Create == \/ ExecLoad \/ FindSlot \/ FindPartition \/ ClaimPartition
          \/ BuildFrame \/ StoreEsp \/ MakeReady \/ CreateFailed

Next == Boot \/ Timer \/ ExecChoose \/ Create

(* The PIT is programmed in rate mode and fires for ever; the processor    *)
(* executes what the interrupt path and the boot code hold; a thread that  *)
(* gets its time slice again and again executes its instructions.          *)
Fairness == /\ WF_vars(Boot)
            /\ WF_vars(Timer)
            /\ SF_vars(Create)

Spec     == Init /\ [][Next]_vars
FairSpec == Spec /\ Fairness
-----------------------------------------------------------------------------
(* Properties.                                                             *)

Calls == {"idle", "load", "find_slot", "find_partition", "claim", "frame",
          "esp", "ready", "failed"}

Alive == {t \in Slots : gt_state[t] # "Unused"}

(* Every variable has a value of its C type; in particular ticks_elapsed   *)
(* never reaches the length of a slice between two timer_callback calls.   *)
TypeOK ==
  /\ gt_current \in Slots
  /\ gt_state \in [Slots -> {"Unused", "Running", "Ready"}]
  /\ gt_esp \in [Slots -> Stacks \cup {NoEsp}]
  /\ gt_base \in [Slots -> Stacks]
  /\ partition_used \in [Partitions -> BOOLEAN]
  /\ ticks_elapsed \in 0 .. Quantum - 1
  /\ total_ticks \in 0 .. TickModulus - 1
  /\ interrupts \in 0 .. TickModulus - 1
  /\ cpu \in Stacks
  /\ frame \in [Stacks -> BOOLEAN]
  /\ entry \in [Slots -> Partitions \cup {KernelText}]
  /\ loaded \in SUBSET Partitions
  /\ isr \in {"none", "handler", "timer", "return"}
  /\ regs \in Stacks
  /\ final_esp \in Stacks
  /\ int_enabled \in BOOLEAN
  /\ booted \in 0 .. KernelThreads
  /\ call \in Calls
  /\ exec_part \in Partitions \cup {NoIndex}
  /\ thread_idx \in Slots \cup {NoIndex}
  /\ part \in Partitions \cup {NoIndex}

(* Whenever a thread executes, the scheduler believes that it is this      *)
(* thread.  generic_isr_handler calls timer_callback twice and drops the   *)
(* first result: a switch decided by the first call would move gt_current  *)
(* without moving the processor, and the next tick would save the esp of   *)
(* one thread in the slot of another.                                      *)
CpuRunsCurrent == isr = "none" => cpu = StackOf(gt_current)

(* Whatever may be switched to can be resumed: the saved esp of a Ready    *)
(* thread points into that thread's own stack and an interrupt frame is    *)
(* there, also while schedule_create is preempted half way; and the iret   *)
(* of a timer interrupt always finds a frame.                              *)
ContextsIntact ==
  /\ \A t \in Ready : gt_esp[t] = StackOf(t) /\ frame[StackOf(t)]
  /\ isr = "return" => frame[final_esp]

BeingBuilt(p) == call \in {"frame", "esp", "ready"} /\ part = p

(* No two threads share a stack, and a partition is marked used exactly    *)
(* when a thread owns it or is being built in it: neither a double claim   *)
(* by the two searches of execCommand and schedule_create, nor a partition *)
(* lost or given back by the error path of execCommand.                    *)
OwnPartition ==
  /\ \A s, t \in Alive : StackOf(s) = StackOf(t) => s = t
  /\ \A p \in Partitions :
       partition_used[p] <=> \/ \E t \in Alive : t # 0 /\ StackOf(t) = p
                             \/ BeingBuilt(p)

(* execCommand reads the file into the partition it looked up, and         *)
(* schedule_create looks up a partition again for the stack: a thread      *)
(* started by exec begins in its own partition and finds its program there.*)
ExecRunsWhatItLoaded ==
  \A t \in Alive : entry[t] # KernelText =>
                     entry[t] = StackOf(t) /\ entry[t] \in loaded

(* The thread that has the processor, and the promise of RoundRobin: the   *)
(* interrupt path passes the processor on in slot order, skips no living   *)
(* thread, and threads only come into being.                               *)
CpuThread == CHOOSE t \in Alive : StackOf(t) = cpu

RR == INSTANCE RoundRobin WITH running <- CpuThread, alive <- Alive

RoundRobinSpec == RR!Spec

(* Every Ready thread gets the processor: no thread starves, however many  *)
(* others exec has started.                                                *)
EveryReadyThreadRuns ==
  \A t \in Slots : gt_state[t] = "Ready" ~> isr = "none" /\ cpu = StackOf(t)

(* Each schedule_create, preempted or not, and each execCommand around it  *)
(* comes to its return, with success or with failure.                      *)
CreateReturns == call # "idle" ~> call = "idle"

(* What the display promises: timer_init(100) makes 100 interrupts in a    *)
(* second and timer_uptime divides total_ticks by 100, so total_ticks has  *)
(* to count interrupts.                                                    *)
UptimeCountsInterrupts == isr = "none" => total_ticks = interrupts
-----------------------------------------------------------------------------
(* The inductive invariant that SchedulerProofs proves: the properties     *)
(* above and what has to hold between the steps of one interrupt and of    *)
(* one schedule_create for them to be preserved.                           *)

OneRunning == \A t \in Slots : gt_state[t] = "Running" <=> t = gt_current

(* Slot 0 is the thread main() became; it alone lives on the boot stack.   *)
BootThread == /\ 0 \in Alive
              /\ \A t \in Alive : t = 0 <=> StackOf(t) = BootStack

(* The counter is even outside the pair of calls, odd between them, so     *)
(* that only the second call can end a slice.                              *)
EvenTicks == \E n \in 0 .. Quantum : ticks_elapsed = 2 * n
OddTicks  == \E n \in 0 .. Quantum : ticks_elapsed = 2 * n + 1
TickParity == IF isr = "timer" THEN OddTicks ELSE EvenTicks

(* The thread that was interrupted and the one to be resumed.              *)
Passed == \E t \in Alive :
            /\ StackOf(t) = cpu
            /\ \/ t = gt_current
               \/ \A k \in Alive : ~RR!Between(t, k, gt_current)

InterruptPath ==
  /\ isr # "return" => cpu = StackOf(gt_current)
  /\ isr # "none" => regs = cpu
  /\ isr \in {"handler", "timer"} => final_esp = cpu /\ frame[cpu]
  /\ isr = "return" => final_esp = StackOf(gt_current) /\ Passed

(* What schedule_create has established when it is interrupted.            *)
HasSlot == call \in {"find_partition", "claim", "frame", "esp", "ready"} =>
             thread_idx \in Unused /\ thread_idx # 0
HasPartition ==
  /\ call = "claim" => Least(FreePartitions, part)
  /\ call \in {"frame", "esp", "ready"} =>
       /\ part \in Partitions
       /\ gt_base[thread_idx] = part
       /\ \A t \in Alive : StackOf(t) # part
HasFrame ==
  /\ call \in {"esp", "ready"} =>
       /\ frame[part]
       /\ entry[thread_idx] = IF exec_part = NoIndex THEN KernelText
                                                     ELSE exec_part
  /\ call = "ready" => gt_esp[thread_idx] = part

(* What execCommand has chosen is what schedule_create will find.          *)
ExecPartition ==
  /\ call = "load" => exec_part # NoIndex
  /\ call \notin {"idle", "load"} /\ exec_part # NoIndex =>
       exec_part \in loaded
  /\ call \in {"load", "find_slot", "find_partition", "claim", "failed"}
       /\ exec_part # NoIndex => Least(FreePartitions, exec_part)
  /\ call \in {"frame", "esp", "ready"} /\ exec_part # NoIndex =>
       part = exec_part

IInv ==
  /\ TypeOK
  /\ OneRunning /\ BootThread
  /\ TickParity /\ InterruptPath
  /\ HasSlot /\ HasPartition /\ HasFrame /\ ExecPartition
  /\ ContextsIntact /\ OwnPartition /\ ExecRunsWhatItLoaded
=============================================================================
