-------------------------- MODULE SchedulerProofs ---------------------------
(***************************************************************************)
(* Theorems about Scheduler for every number of slots, every even slice    *)
(* and every width of the tick counter.                                    *)
(***************************************************************************)
EXTENDS Scheduler, TLAPS

LEMMA Parameters ==
  /\ MaxProcesses \in Nat /\ MaxProcesses >= 2
  /\ Quantum \in Nat /\ \E n \in Nat \ {0} : Quantum = 2 * n
  /\ TickModulus \in Nat \ {0}
  /\ 0 \in Slots /\ Slots = Partitions /\ Slots \subseteq Nat
BY SchedulerAssumption DEF SchedulerAssumption, Slots, Partitions

LEMMA InitInv == Init => IInv
<1> SUFFICES ASSUME Init PROVE IInv
  OBVIOUS
<1> USE Parameters DEF Init
<1>1. TypeOK
  <2>1. 0 \in 0 .. Quantum - 1 /\ 0 \in 0 .. TickModulus - 1
    OBVIOUS
  <2>2. BootStack \in Stacks
    BY DEF Stacks
  <2>3. gt_state \in [Slots -> {"Unused", "Running", "Ready"}]
    OBVIOUS
  <2>4. /\ gt_esp \in [Slots -> Stacks \cup {NoEsp}]
        /\ gt_base \in [Slots -> Stacks]
        /\ frame \in [Stacks -> BOOLEAN]
        /\ partition_used \in [Partitions -> BOOLEAN]
        /\ entry \in [Slots -> Partitions \cup {KernelText}]
    BY <2>2
  <2>5. /\ gt_current \in Slots /\ cpu \in Stacks /\ regs \in Stacks
        /\ final_esp \in Stacks /\ loaded \in SUBSET Partitions
        /\ booted \in 0 .. KernelThreads
    BY <2>2 DEF KernelThreads
  <2>6. /\ isr \in {"none", "handler", "timer", "return"} /\ call \in Calls
        /\ int_enabled \in BOOLEAN
    BY DEF Calls
  <2> QED
    BY <2>1, <2>3, <2>4, <2>5, <2>6 DEF TypeOK
<1>2. Alive = {0}
  BY DEF Alive
<1>3. OneRunning /\ BootThread
  BY <1>2 DEF OneRunning, BootThread, Slots, StackOf, BootStack
<1>4. TickParity /\ InterruptPath
  BY DEF TickParity, EvenTicks, InterruptPath, StackOf, Slots
<1>5. HasSlot /\ HasPartition /\ HasFrame /\ ExecPartition
  BY DEF HasSlot, HasPartition, HasFrame, ExecPartition
<1>6. ContextsIntact
  BY DEF ContextsIntact, Ready
<1>7. OwnPartition /\ ExecRunsWhatItLoaded
  BY <1>2 DEF OwnPartition, ExecRunsWhatItLoaded, BeingBuilt, Partitions,
              KernelText, Slots
<1> QED
  BY <1>1, <1>3, <1>4, <1>5, <1>6, <1>7 DEF IInv

(* A step of a thread leaves the interrupt path as it is.                  *)
LEMMA PathKept ==
  ASSUME IInv, isr = "none", UNCHANGED <<tickVars, isrVars, cpu, gt_current>>,
         gt_base'[gt_current] = gt_base[gt_current]
  PROVE  TickParity' /\ InterruptPath'
<1>1. TickParity'
  BY DEF IInv, TickParity, EvenTicks, OddTicks, tickVars, isrVars
<1>2. InterruptPath'
  BY DEF IInv, InterruptPath, isrVars, StackOf
<1> QED
  BY <1>1, <1>2

(* As long as no thread is born and no living thread moves, the table      *)
(* keeps its shape.                                                        *)
LEMMA TableKept ==
  ASSUME IInv, UNCHANGED <<gt_current, gt_state>>,
         \A t \in Alive : gt_base'[t] = gt_base[t]
  PROVE  /\ Alive' = Alive /\ Ready' = Ready /\ Unused' = Unused
         /\ \A t \in Alive : StackOf(t)' = StackOf(t)
         /\ OneRunning' /\ BootThread'
         /\ gt_base'[gt_current] = gt_base[gt_current]
<1>1. /\ Alive' = Alive /\ Ready' = Ready /\ Unused' = Unused
      /\ \A t \in Alive : StackOf(t)' = StackOf(t)
  BY DEF Alive, Ready, Unused, StackOf
<1>2. gt_current \in Alive
  BY DEF IInv, TypeOK, OneRunning, Alive
<1>3. OneRunning' /\ BootThread'
  BY <1>1 DEF IInv, OneRunning, BootThread
<1> QED
  BY <1>1, <1>2, <1>3

-----------------------------------------------------------------------------
(* The steps of a creating thread.                                         *)

LEMMA BootCreateInv == ASSUME IInv, BootCreate PROVE IInv'
<1> USE DEF BootCreate, threadStep, schedVars, memoryVars
<1>1. TypeOK'
  BY DEF IInv, TypeOK, Calls, KernelThreads, tickVars, isrVars
<1>2. /\ Alive' = Alive /\ Ready' = Ready
      /\ \A t \in Alive : StackOf(t)' = StackOf(t)
      /\ OneRunning' /\ BootThread'
  BY TableKept
<1>3. TickParity' /\ InterruptPath'
  BY <1>2 DEF IInv, TickParity, EvenTicks, OddTicks, tickVars, isrVars,
              InterruptPath, StackOf, Passed
<1>4. HasSlot' /\ HasPartition' /\ HasFrame' /\ ExecPartition'
  BY DEF HasSlot, HasPartition, HasFrame, ExecPartition
<1>5. ContextsIntact'
  BY <1>2 DEF IInv, ContextsIntact, Ready, StackOf, isrVars
<1>6. OwnPartition' /\ ExecRunsWhatItLoaded'
  BY <1>2 DEF IInv, OwnPartition, ExecRunsWhatItLoaded, BeingBuilt, StackOf
<1> QED
  BY <1>1, <1>2, <1>3, <1>4, <1>5, <1>6 DEF IInv

LEMMA EnableInterruptsInv == ASSUME IInv, EnableInterrupts PROVE IInv'
<1> USE DEF EnableInterrupts, schedVars, memoryVars, tickVars, isrVars,
            localVars
<1>1. TypeOK'
  BY DEF IInv, TypeOK
<1>2. /\ Alive' = Alive /\ Ready' = Ready /\ Unused' = Unused
      /\ \A t \in Alive : StackOf(t)' = StackOf(t)
      /\ OneRunning' /\ BootThread'
  BY TableKept
<1>3. TickParity' /\ InterruptPath'
  BY <1>2 DEF IInv, TickParity, EvenTicks, OddTicks, InterruptPath, StackOf,
              Passed
<1>4. HasSlot' /\ HasPartition' /\ HasFrame' /\ ExecPartition'
  BY DEF HasSlot, HasPartition, HasFrame, ExecPartition
<1>5. ContextsIntact'
  BY <1>2 DEF IInv, ContextsIntact, Ready, StackOf
<1>6. OwnPartition' /\ ExecRunsWhatItLoaded'
  BY <1>2 DEF IInv, OwnPartition, ExecRunsWhatItLoaded, BeingBuilt, StackOf
<1> QED
  BY <1>1, <1>2, <1>3, <1>4, <1>5, <1>6 DEF IInv

LEMMA ExecChooseInv == ASSUME IInv, ExecChoose PROVE IInv'
<1> USE DEF ExecChoose, threadStep, schedVars, memoryVars, CreatorRuns
<1>1. TypeOK'
  BY DEF IInv, TypeOK, Calls, tickVars, isrVars, FreePartitions, Least
<1>2. /\ Alive' = Alive /\ Ready' = Ready
      /\ \A t \in Alive : StackOf(t)' = StackOf(t)
      /\ OneRunning' /\ BootThread'
      /\ gt_base'[gt_current] = gt_base[gt_current]
  BY TableKept
<1>3. TickParity' /\ InterruptPath'
  BY <1>2, PathKept
<1>4. HasSlot' /\ HasPartition' /\ HasFrame'
  BY DEF HasSlot, HasPartition, HasFrame
<1>5. ExecPartition'
  BY DEF ExecPartition, FreePartitions, Least, Partitions, NoIndex
<1>6. ContextsIntact'
  BY <1>2 DEF IInv, ContextsIntact, Ready, StackOf, isrVars
<1>7. OwnPartition' /\ ExecRunsWhatItLoaded'
  BY <1>2 DEF IInv, OwnPartition, ExecRunsWhatItLoaded, BeingBuilt, StackOf
<1> QED
  BY <1>1, <1>2, <1>3, <1>4, <1>5, <1>6, <1>7 DEF IInv

LEMMA ExecLoadInv == ASSUME IInv, ExecLoad PROVE IInv'
<1> USE DEF ExecLoad, threadStep, schedVars, CreatorRuns
<1>1. exec_part \in Partitions
  BY DEF IInv, TypeOK, ExecPartition
<1>2. TypeOK'
  BY <1>1 DEF IInv, TypeOK, Calls, tickVars, isrVars
<1>3. /\ Alive' = Alive /\ Ready' = Ready
      /\ \A t \in Alive : StackOf(t)' = StackOf(t)
      /\ OneRunning' /\ BootThread'
      /\ gt_base'[gt_current] = gt_base[gt_current]
  BY TableKept
<1>4. TickParity' /\ InterruptPath'
  BY <1>3, PathKept
<1>5. HasSlot' /\ HasPartition' /\ HasFrame'
  BY DEF HasSlot, HasPartition, HasFrame
<1>6. ExecPartition'
  BY DEF IInv, ExecPartition, FreePartitions, Least
<1>7. ContextsIntact'
  BY <1>3 DEF IInv, ContextsIntact, Ready, StackOf, isrVars
<1>8. OwnPartition' /\ ExecRunsWhatItLoaded'
  BY <1>3 DEF IInv, OwnPartition, ExecRunsWhatItLoaded, BeingBuilt, StackOf
<1> QED
  BY <1>2, <1>3, <1>4, <1>5, <1>6, <1>7, <1>8 DEF IInv

LEMMA FindSlotInv == ASSUME IInv, FindSlot PROVE IInv'
<1> USE DEF FindSlot, threadStep, schedVars, memoryVars, CreatorRuns
<1>1. TypeOK'
  BY DEF IInv, TypeOK, Calls, tickVars, isrVars, Unused, Least
<1>2. /\ Alive' = Alive /\ Ready' = Ready /\ Unused' = Unused
      /\ \A t \in Alive : StackOf(t)' = StackOf(t)
      /\ OneRunning' /\ BootThread'
      /\ gt_base'[gt_current] = gt_base[gt_current]
  BY TableKept
<1>3. TickParity' /\ InterruptPath'
  BY <1>2, PathKept
<1>4. HasSlot'
  BY <1>2 DEF IInv, BootThread, Alive, HasSlot, Unused, Least
<1>5. HasPartition' /\ HasFrame'
  BY DEF HasPartition, HasFrame
<1>6. ExecPartition'
  BY DEF IInv, ExecPartition, FreePartitions, Least
<1>7. ContextsIntact'
  BY <1>2 DEF IInv, ContextsIntact, Ready, StackOf, isrVars
<1>8. OwnPartition' /\ ExecRunsWhatItLoaded'
  BY <1>2 DEF IInv, OwnPartition, ExecRunsWhatItLoaded, BeingBuilt, StackOf
<1> QED
  BY <1>1, <1>2, <1>3, <1>4, <1>5, <1>6, <1>7, <1>8 DEF IInv

LEMMA FindPartitionInv == ASSUME IInv, FindPartition PROVE IInv'
<1> USE DEF FindPartition, threadStep, schedVars, memoryVars, CreatorRuns
<1>1. TypeOK'
  BY DEF IInv, TypeOK, Calls, tickVars, isrVars, FreePartitions, Least
<1>2. /\ Alive' = Alive /\ Ready' = Ready /\ Unused' = Unused
      /\ \A t \in Alive : StackOf(t)' = StackOf(t)
      /\ OneRunning' /\ BootThread'
      /\ gt_base'[gt_current] = gt_base[gt_current]
  BY TableKept
<1>3. TickParity' /\ InterruptPath'
  BY <1>2, PathKept
<1>4. HasSlot' /\ HasFrame'
  BY <1>2 DEF IInv, HasSlot, HasFrame
<1>5. HasPartition'
  BY DEF HasPartition, FreePartitions, Least
<1>6. ExecPartition'
  BY DEF IInv, ExecPartition, FreePartitions, Least
<1>7. ContextsIntact'
  BY <1>2 DEF IInv, ContextsIntact, Ready, StackOf, isrVars
<1>8. OwnPartition' /\ ExecRunsWhatItLoaded'
  BY <1>2 DEF IInv, OwnPartition, ExecRunsWhatItLoaded, BeingBuilt, StackOf
<1> QED
  BY <1>1, <1>2, <1>3, <1>4, <1>5, <1>6, <1>7, <1>8 DEF IInv

LEMMA ClaimPartitionInv == ASSUME IInv, ClaimPartition PROVE IInv'
<1> USE DEF ClaimPartition, threadStep, schedVars, CreatorRuns
<1>1. /\ part \in Partitions /\ ~partition_used[part]
      /\ thread_idx \in Slots /\ thread_idx \notin Alive /\ thread_idx # 0
  BY DEF IInv, HasPartition, HasSlot, Least, FreePartitions, Unused, Alive
<1>2. TypeOK'
  BY <1>1 DEF IInv, TypeOK, Calls, Stacks, tickVars, isrVars
<1>3. /\ gt_base' \in [Slots -> Stacks] /\ gt_base'[thread_idx] = part
      /\ \A t \in Alive : gt_base'[t] = gt_base[t]
  BY <1>1, <1>2 DEF IInv, TypeOK, Alive
<1>4. /\ Alive' = Alive /\ Ready' = Ready /\ Unused' = Unused
      /\ \A t \in Alive : StackOf(t)' = StackOf(t)
      /\ OneRunning' /\ BootThread'
      /\ gt_base'[gt_current] = gt_base[gt_current]
  BY <1>3, TableKept
<1>5. TickParity' /\ InterruptPath'
  BY <1>4, PathKept
<1>6. HasSlot' /\ HasFrame'
  BY <1>4 DEF IInv, HasSlot, HasFrame
<1>7. part \notin {StackOf(t) : t \in Alive}
  BY <1>1 DEF IInv, OwnPartition, BootThread, BootStack, Partitions
<1>8. HasPartition'
  BY <1>1, <1>3, <1>4, <1>7 DEF HasPartition
<1>9. ExecPartition'
  BY <1>1 DEF IInv, ExecPartition, HasPartition, FreePartitions, Least,
              NoIndex, Partitions
<1>10. ContextsIntact'
  BY <1>4 DEF IInv, ContextsIntact, Ready, Alive, StackOf, isrVars
<1>11. OwnPartition' /\ ExecRunsWhatItLoaded'
  BY <1>1, <1>4 DEF IInv, TypeOK, OwnPartition, ExecRunsWhatItLoaded,
                    BeingBuilt
<1> QED
  BY <1>2, <1>4, <1>5, <1>6, <1>8, <1>9, <1>10, <1>11 DEF IInv

LEMMA BuildFrameInv == ASSUME IInv, BuildFrame PROVE IInv'
<1> USE DEF BuildFrame, threadStep, schedVars, CreatorRuns
<1>1. /\ part \in Partitions /\ StackOf(thread_idx) = part
      /\ thread_idx \in Slots /\ thread_idx \notin Alive
      /\ \A t \in Alive : StackOf(t) # part
  BY DEF IInv, HasPartition, HasSlot, Unused, Alive, StackOf
<1>2. TypeOK'
  BY <1>1 DEF IInv, TypeOK, Calls, Stacks, tickVars, isrVars
<1>3. /\ Alive' = Alive /\ Ready' = Ready /\ Unused' = Unused
      /\ \A t \in Alive : StackOf(t)' = StackOf(t)
      /\ OneRunning' /\ BootThread'
      /\ gt_base'[gt_current] = gt_base[gt_current]
  BY TableKept
<1>4. TickParity' /\ InterruptPath'
  BY <1>3, PathKept
<1>5. HasSlot' /\ HasPartition' /\ ExecPartition'
  BY <1>1, <1>3 DEF IInv, HasSlot, HasPartition, ExecPartition
<1>6. HasFrame'
  BY <1>1, <1>2 DEF IInv, TypeOK, HasFrame, Stacks
<1>7. ContextsIntact'
  BY <1>1, <1>3 DEF IInv, TypeOK, ContextsIntact, Ready, Alive, StackOf,
                    isrVars
<1>8. OwnPartition'
  BY <1>1, <1>3 DEF IInv, OwnPartition, BeingBuilt
<1>9. ExecRunsWhatItLoaded'
  BY <1>1, <1>3 DEF IInv, TypeOK, Alive, ExecRunsWhatItLoaded
<1> QED
  BY <1>2, <1>3, <1>4, <1>5, <1>6, <1>7, <1>8, <1>9 DEF IInv

LEMMA StoreEspInv == ASSUME IInv, StoreEsp PROVE IInv'
<1> USE DEF StoreEsp, memoryVars, CreatorRuns
<1>1. /\ part \in Partitions /\ StackOf(thread_idx) = part
      /\ thread_idx \in Slots /\ thread_idx \notin Alive
  BY DEF IInv, HasPartition, HasSlot, Unused, Alive, StackOf
<1>2. TypeOK'
  BY <1>1 DEF IInv, TypeOK, Calls, Stacks, tickVars, isrVars
<1>3. /\ Alive' = Alive /\ Ready' = Ready /\ Unused' = Unused
      /\ \A t \in Alive : StackOf(t)' = StackOf(t)
      /\ OneRunning' /\ BootThread'
      /\ gt_base'[gt_current] = gt_base[gt_current]
  BY TableKept
<1>4. TickParity' /\ InterruptPath'
  BY <1>3, PathKept
<1>5. HasSlot' /\ HasPartition' /\ ExecPartition'
  BY <1>1, <1>3 DEF IInv, HasSlot, HasPartition, ExecPartition
<1>6. HasFrame'
  BY <1>1, <1>2 DEF IInv, TypeOK, HasFrame
<1>7. ContextsIntact'
  BY <1>1, <1>3 DEF IInv, TypeOK, ContextsIntact, Ready, Alive, StackOf,
                    isrVars
<1>8. OwnPartition' /\ ExecRunsWhatItLoaded'
  BY <1>1, <1>3 DEF IInv, OwnPartition, ExecRunsWhatItLoaded, BeingBuilt,
                    StackOf
<1> QED
  BY <1>2, <1>3, <1>4, <1>5, <1>6, <1>7, <1>8 DEF IInv

LEMMA MakeReadyInv == ASSUME IInv, MakeReady PROVE IInv'
<1> USE DEF MakeReady, memoryVars, CreatorRuns
<1>1. /\ part \in Partitions /\ StackOf(thread_idx) = part
      /\ thread_idx \in Slots /\ thread_idx \notin Alive
      /\ thread_idx # 0 /\ thread_idx # gt_current
      /\ \A t \in Alive : StackOf(t) # part
      /\ frame[part] /\ gt_esp[thread_idx] = part
      /\ entry[thread_idx] = IF exec_part = NoIndex THEN KernelText
                                                    ELSE exec_part
      /\ exec_part # NoIndex => exec_part = part /\ exec_part \in loaded
  BY DEF IInv, HasPartition, HasSlot, HasFrame, ExecPartition, Unused, Alive,
         StackOf, OneRunning
<1>2. TypeOK'
  BY <1>1 DEF IInv, TypeOK, Calls, tickVars, isrVars
<1>3. /\ Alive' = Alive \cup {thread_idx} /\ Ready' = Ready \cup {thread_idx}
      /\ \A t \in Slots : StackOf(t)' = StackOf(t)
  BY <1>1 DEF IInv, TypeOK, Alive, Ready, StackOf
<1>4. OneRunning'
  BY <1>1 DEF IInv, TypeOK, OneRunning
<1>5. BootThread'
  BY <1>1, <1>3 DEF IInv, BootThread, BootStack, Partitions, Alive
<1>6. TickParity' /\ InterruptPath'
  BY PathKept
<1>7. HasSlot' /\ HasPartition' /\ HasFrame' /\ ExecPartition'
  BY DEF HasSlot, HasPartition, HasFrame, ExecPartition
<1>8. ContextsIntact'
  BY <1>1, <1>3 DEF IInv, ContextsIntact, Ready, isrVars
<1>9. \A s, t \in Alive' : StackOf(s)' = StackOf(t)' => s = t
  BY <1>1, <1>3 DEF IInv, OwnPartition, Alive
<1>10. \A p \in Partitions : partition_used[p] <=>
                               \E t \in Alive' : t # 0 /\ StackOf(t)' = p
  BY <1>1, <1>3 DEF IInv, OwnPartition, BeingBuilt, Alive
<1>11. OwnPartition'
  BY <1>9, <1>10 DEF OwnPartition, BeingBuilt
<1>12. ExecRunsWhatItLoaded'
  BY <1>1, <1>3 DEF IInv, ExecRunsWhatItLoaded, Alive
<1> QED
  BY <1>2, <1>4, <1>5, <1>6, <1>7, <1>8, <1>11, <1>12 DEF IInv

LEMMA CreateFailedInv == ASSUME IInv, CreateFailed PROVE IInv'
<1> USE DEF CreateFailed, threadStep, schedVars, CreatorRuns
<1>1. partition_used' = partition_used
  BY DEF IInv, TypeOK, ExecPartition, FreePartitions, Least
<1>2. TypeOK'
  BY <1>1 DEF IInv, TypeOK, Calls, tickVars, isrVars
<1>3. /\ Alive' = Alive /\ Ready' = Ready
      /\ \A t \in Alive : StackOf(t)' = StackOf(t)
      /\ OneRunning' /\ BootThread'
      /\ gt_base'[gt_current] = gt_base[gt_current]
  BY TableKept
<1>4. TickParity' /\ InterruptPath'
  BY <1>3, PathKept
<1>5. HasSlot' /\ HasPartition' /\ HasFrame' /\ ExecPartition'
  BY DEF HasSlot, HasPartition, HasFrame, ExecPartition
<1>6. ContextsIntact'
  BY <1>3 DEF IInv, ContextsIntact, Ready, StackOf, isrVars
<1>7. OwnPartition' /\ ExecRunsWhatItLoaded'
  BY <1>1, <1>3 DEF IInv, OwnPartition, ExecRunsWhatItLoaded, BeingBuilt,
                    StackOf
<1> QED
  BY <1>2, <1>3, <1>4, <1>5, <1>6, <1>7 DEF IInv

-----------------------------------------------------------------------------
(* The steps of the timer interrupt.                                       *)

(* Of the two calls of timer_callback only the second can end a slice.     *)
LEMMA SliceEnds ==
  ASSUME IInv
  PROVE  /\ isr = "handler" => ~SliceOver(ticks_elapsed + 1)
         /\ isr = "timer" => \/ SliceOver(ticks_elapsed + 1)
                             \/ ticks_elapsed + 1 < Quantum
<1>1. PICK q \in Nat \ {0} : Quantum = 2 * q
  BY Parameters
<1>2. ticks_elapsed \in Nat /\ ticks_elapsed < Quantum
  BY <1>1 DEF IInv, TypeOK
<1>3. ASSUME isr = "handler" PROVE ~SliceOver(ticks_elapsed + 1)
  <2>1. PICK n \in 0 .. Quantum : ticks_elapsed = 2 * n
    BY <1>3 DEF IInv, TickParity, EvenTicks
  <2> QED
    BY <1>1, <1>2, <2>1 DEF SliceOver
<1> QED
  BY <1>1, <1>2, <1>3 DEF SliceOver

(* The counters keep their types, and the counter of a slice its parity.   *)
LEMMA CountersKept ==
  ASSUME IInv, timer_callback, isr \in {"handler", "timer"}
  PROVE  /\ ticks_elapsed' \in 0 .. Quantum - 1
         /\ total_ticks' \in 0 .. TickModulus - 1
         /\ isr = "handler" => OddTicks'
         /\ isr = "timer" => EvenTicks'
<1>1. PICK q \in Nat \ {0} : Quantum = 2 * q
  BY Parameters
<1>2. ticks_elapsed \in Nat /\ ticks_elapsed < Quantum
  BY <1>1 DEF IInv, TypeOK
<1>3. total_ticks' \in 0 .. TickModulus - 1
  BY Parameters DEF IInv, TypeOK, timer_callback
<1>4. CASE isr = "handler"
  <2>1. PICK n \in 0 .. Quantum : ticks_elapsed = 2 * n
    BY <1>4 DEF IInv, TickParity, EvenTicks
  <2>2. ticks_elapsed' = ticks_elapsed + 1
    BY <1>4, SliceEnds DEF timer_callback
  <2> QED
    BY <1>1, <1>2, <1>3, <1>4, <2>1, <2>2 DEF OddTicks
<1>5. CASE isr = "timer"
  <2>1. PICK n \in 0 .. Quantum : ticks_elapsed = 2 * n + 1
    BY <1>5 DEF IInv, TickParity, OddTicks
  <2>2. CASE SliceOver(ticks_elapsed + 1)
    <3>1. ticks_elapsed' = 2 * 0
      BY <2>2 DEF timer_callback
    <3> QED
      BY <1>1, <1>3, <1>5, <3>1 DEF EvenTicks
  <2>3. CASE ~SliceOver(ticks_elapsed + 1)
    <3>1. ticks_elapsed' = 2 * (n + 1) /\ ticks_elapsed' < Quantum
      BY <1>1, <1>2, <2>1, <2>3 DEF timer_callback, SliceOver
    <3>2. n + 1 \in 0 .. Quantum
      BY <1>1, <2>1, <3>1
    <3> QED
      BY <1>1, <1>3, <1>5, <3>1, <3>2 DEF EvenTicks
  <2> QED
    BY <2>2, <2>3
<1> QED
  BY <1>4, <1>5

LEMMA TimerInterruptInv == ASSUME IInv, TimerInterrupt PROVE IInv'
<1> USE DEF TimerInterrupt, schedVars, tickVars, localVars, memoryVars
<1>1. interrupts' \in 0 .. TickModulus - 1
  BY Parameters DEF IInv, TypeOK
<1>2. TypeOK'
  BY <1>1 DEF IInv, TypeOK
<1>3. /\ Alive' = Alive /\ Ready' = Ready /\ Unused' = Unused
      /\ \A t \in Alive : StackOf(t)' = StackOf(t)
      /\ OneRunning' /\ BootThread'
      /\ gt_base'[gt_current] = gt_base[gt_current]
  BY TableKept
<1>4. \A s \in Stacks : frame[s] => frame'[s]
  BY DEF IInv, TypeOK
<1>5. frame'[cpu]
  BY DEF IInv, TypeOK
<1>6. TickParity'
  BY DEF IInv, TickParity, EvenTicks
<1>7. InterruptPath'
  BY <1>3, <1>5 DEF IInv, InterruptPath, StackOf
<1>8. HasSlot' /\ HasPartition' /\ ExecPartition'
  BY <1>3 DEF IInv, HasSlot, HasPartition, ExecPartition, FreePartitions
<1>9. HasFrame'
  BY <1>4 DEF IInv, HasFrame, HasPartition, Stacks
<1>10. ContextsIntact'
  BY <1>3, <1>4 DEF IInv, TypeOK, ContextsIntact, Ready, StackOf
<1>11. OwnPartition' /\ ExecRunsWhatItLoaded'
  BY <1>3 DEF IInv, OwnPartition, ExecRunsWhatItLoaded, BeingBuilt, StackOf
<1> QED
  BY <1>2, <1>3, <1>6, <1>7, <1>8, <1>9, <1>10, <1>11 DEF IInv

LEMMA HandlerCallInv == ASSUME IInv, HandlerCall PROVE IInv'
<1> USE DEF HandlerCall, localVars, memoryVars
<1>1. UNCHANGED schedVars
  BY SliceEnds DEF timer_callback
<1>2. TypeOK'
  BY <1>1, CountersKept DEF IInv, TypeOK, schedVars
<1>3. /\ Alive' = Alive /\ Ready' = Ready /\ Unused' = Unused
      /\ \A t \in Alive : StackOf(t)' = StackOf(t)
      /\ OneRunning' /\ BootThread'
      /\ gt_base'[gt_current] = gt_base[gt_current]
  BY <1>1, TableKept DEF schedVars
<1>4. TickParity'
  BY CountersKept DEF TickParity
<1>5. InterruptPath'
  BY <1>1 DEF IInv, InterruptPath, StackOf, schedVars
<1>6. HasSlot' /\ HasPartition' /\ HasFrame' /\ ExecPartition'
  BY <1>1, <1>3 DEF IInv, HasSlot, HasPartition, HasFrame, ExecPartition,
                    FreePartitions, schedVars
<1>7. ContextsIntact'
  BY <1>1, <1>3 DEF IInv, ContextsIntact, Ready, StackOf, schedVars
<1>8. OwnPartition' /\ ExecRunsWhatItLoaded'
  BY <1>3 DEF IInv, OwnPartition, ExecRunsWhatItLoaded, BeingBuilt, StackOf
<1> QED
  BY <1>2, <1>3, <1>4, <1>5, <1>6, <1>7, <1>8 DEF IInv

(* What schedule_tick does: the processor goes to the next living thread   *)
(* in slot order; every other living thread is Ready.                      *)
LEMMA SwitchResult ==
  ASSUME IInv, schedule_tick(regs), regs \in Stacks
  PROVE  /\ gt_current' \in Alive
         /\ gt_state' \in [Slots -> {"Unused", "Running", "Ready"}]
         /\ Alive' = Alive
         /\ OneRunning'
         /\ Ready' \subseteq Ready \cup {gt_current}
         /\ \A k \in Alive : ~RR!Between(gt_current, k, gt_current')
<1>1. gt_current \in Slots /\ gt_state[gt_current] = "Running"
  BY DEF IInv, TypeOK, OneRunning
<1> DEFINE suspended == [gt_state EXCEPT ![gt_current] =
                           IF @ = "Running" THEN "Ready" ELSE @]
           ready == {t \in Slots : suspended[t] = "Ready"}
<1>2. /\ suspended \in [Slots -> {"Unused", "Running", "Ready"}]
      /\ suspended[gt_current] = "Ready"
      /\ \A t \in Slots \ {gt_current} :
           suspended[t] = gt_state[t] /\ suspended[t] # "Running"
  BY <1>1 DEF IInv, TypeOK, OneRunning
<1>3. ready = Alive /\ ready # {}
  BY <1>1, <1>2 DEF Alive
<1>4. PICK next \in Slots :
         /\ FirstInScan(gt_current, ready, next)
         /\ gt_current' = next
         /\ gt_state' = [suspended EXCEPT ![next] = "Running"]
  BY <1>3 DEF schedule_tick
<1> HIDE DEF suspended, ready
<1>5. next \in Alive /\ \A k \in Alive : ~ScanMeets(gt_current, k, next)
  BY <1>3, <1>4 DEF FirstInScan
<1>6. \A k \in Alive : ~RR!Between(gt_current, k, next)
  BY <1>1, <1>5, Parameters DEF ScanMeets, RR!Between, Alive
<1>7. gt_state' \in [Slots -> {"Unused", "Running", "Ready"}]
  BY <1>2, <1>4
<1>8. Alive' = Alive
  BY <1>1, <1>2, <1>4, <1>5 DEF Alive
<1>9. OneRunning'
  BY <1>2, <1>4 DEF OneRunning
<1>10. Ready' \subseteq Ready \cup {gt_current}
  BY <1>2, <1>4 DEF Ready
<1> QED
  BY <1>4, <1>5, <1>6, <1>7, <1>8, <1>9, <1>10

LEMMA TimerCallInv == ASSUME IInv, TimerCall PROVE IInv'
<1> USE DEF TimerCall, localVars, memoryVars
<1>1. /\ gt_current \in Alive /\ cpu = StackOf(gt_current)
      /\ regs = cpu /\ frame[cpu] /\ cpu \in Stacks
      /\ gt_esp \in [Slots -> Stacks \cup {NoEsp}]
  BY DEF IInv, TypeOK, OneRunning, InterruptPath, Alive
<1>2. /\ gt_current' \in Alive
      /\ gt_state' \in [Slots -> {"Unused", "Running", "Ready"}]
      /\ gt_esp' \in [Slots -> Stacks \cup {NoEsp}]
      /\ Alive' = Alive /\ OneRunning'
      /\ gt_current' = gt_current
            \/ \A k \in Alive : ~RR!Between(gt_current, k, gt_current')
      /\ \A t \in Ready' : gt_esp'[t] = StackOf(t) /\ frame[StackOf(t)]
      /\ final_esp' = StackOf(gt_current')
      /\ \A t \in Slots \ Alive : gt_esp'[t] = gt_esp[t]
  <2>1. CASE SliceOver(ticks_elapsed + 1)
    <3>1. /\ schedule_tick(regs)
          /\ gt_esp' = [gt_esp EXCEPT ![gt_current] = regs]
      BY <2>1 DEF timer_callback, schedule_tick
    <3>2. /\ gt_current' \in Alive
          /\ gt_state' \in [Slots -> {"Unused", "Running", "Ready"}]
          /\ Alive' = Alive
          /\ OneRunning'
          /\ Ready' \subseteq Ready \cup {gt_current}
          /\ \A k \in Alive : ~RR!Between(gt_current, k, gt_current')
      BY <1>1, <3>1, SwitchResult
    <3>3. \A t \in Ready \cup {gt_current} :
             gt_esp'[t] = StackOf(t) /\ frame[StackOf(t)]
      BY <1>1, <3>1 DEF IInv, ContextsIntact, Ready, Alive
    <3>4. gt_current' \in Ready \cup {gt_current}
      BY <3>2 DEF IInv, OneRunning, TypeOK, Alive, Ready
    <3>5. final_esp' = StackOf(gt_current')
      BY <2>1, <3>3, <3>4 DEF CallbackResult
    <3>6. \A t \in Slots \ Alive : gt_esp'[t] = gt_esp[t]
      BY <1>1, <3>1
    <3>7. gt_esp' \in [Slots -> Stacks \cup {NoEsp}]
      BY <1>1, <3>1 DEF Alive
    <3> QED
      BY <3>2, <3>3, <3>5, <3>6, <3>7
  <2>2. CASE ~SliceOver(ticks_elapsed + 1)
    <3>1. UNCHANGED schedVars
      BY <2>2 DEF timer_callback
    <3>2. final_esp' = regs
      BY <2>2 DEF CallbackResult
    <3>3. Alive' = Alive /\ Ready' = Ready
      BY <3>1 DEF schedVars, Alive, Ready
    <3>4. \A t \in Ready : gt_esp[t] = StackOf(t) /\ frame[StackOf(t)]
      BY DEF IInv, ContextsIntact
    <3> QED
      BY <1>1, <3>1, <3>2, <3>3, <3>4 DEF IInv, OneRunning, TypeOK, schedVars
  <2> QED
    BY <2>1, <2>2
<1>3. \A t \in Slots : StackOf(t)' = StackOf(t)
  BY DEF StackOf
<1>4. gt_current' \in Slots /\ StackOf(gt_current') \in Stacks
  BY <1>2 DEF IInv, TypeOK, Alive, StackOf
<1>5. TypeOK'
  BY <1>2, <1>4, CountersKept DEF IInv, TypeOK
<1>6. TickParity'
  BY CountersKept DEF TickParity
<1>7. InterruptPath'
  BY <1>1, <1>2, <1>3 DEF IInv, InterruptPath, Passed, StackOf
<1>8. BootThread' /\ OwnPartition' /\ ExecRunsWhatItLoaded'
  BY <1>2, <1>3 DEF IInv, BootThread, OwnPartition, ExecRunsWhatItLoaded,
                    BeingBuilt, Alive
<1>9. Unused' = Unused
  BY <1>2 DEF Alive, Unused, IInv, TypeOK
<1>10. HasSlot' /\ HasPartition' /\ ExecPartition'
  BY <1>2, <1>3, <1>9 DEF IInv, HasSlot, HasPartition, ExecPartition,
                          FreePartitions, Alive
<1>11. HasFrame'
  BY <1>2 DEF IInv, HasFrame, HasSlot, Unused, Alive
<1>12. ContextsIntact'
  <2>1. frame[StackOf(gt_current')]
    BY <1>1, <1>2 DEF IInv, ContextsIntact, TypeOK, OneRunning, Alive, Ready
  <2> QED
    BY <1>2, <1>3, <2>1 DEF ContextsIntact, Ready
<1> QED
  BY <1>2, <1>5, <1>6, <1>7, <1>8, <1>10, <1>11, <1>12 DEF IInv

LEMMA InterruptReturnInv == ASSUME IInv, InterruptReturn PROVE IInv'
<1> USE DEF InterruptReturn, schedVars, tickVars, localVars, memoryVars
<1>1. /\ gt_current \in Alive /\ final_esp = StackOf(gt_current)
      /\ final_esp \in Stacks
  BY DEF IInv, TypeOK, OneRunning, InterruptPath, Alive
<1>2. TypeOK'
  BY <1>1 DEF IInv, TypeOK
<1>3. /\ Alive' = Alive /\ Ready' = Ready /\ Unused' = Unused
      /\ \A t \in Alive : StackOf(t)' = StackOf(t)
      /\ OneRunning' /\ BootThread'
      /\ gt_base'[gt_current] = gt_base[gt_current]
  BY TableKept
<1>4. TickParity'
  BY DEF IInv, TickParity, EvenTicks
<1>5. InterruptPath'
  BY <1>1, <1>3 DEF InterruptPath
<1>6. \A s \in Stacks \ {final_esp} : frame'[s] = frame[s]
  BY DEF IInv, TypeOK
<1>7. HasSlot' /\ HasPartition' /\ ExecPartition'
  BY <1>3 DEF IInv, HasSlot, HasPartition, ExecPartition, FreePartitions
<1>8. HasFrame'
  BY <1>1, <1>6 DEF IInv, HasFrame, HasPartition, Stacks
<1>9. \A t \in Ready : StackOf(t) # final_esp /\ StackOf(t) \in Stacks
  BY <1>1 DEF IInv, TypeOK, OwnPartition, OneRunning, Ready, Alive, StackOf
<1>10. ContextsIntact'
  BY <1>3, <1>6, <1>9 DEF IInv, ContextsIntact, Ready, Alive
<1>11. OwnPartition' /\ ExecRunsWhatItLoaded'
  BY <1>3 DEF IInv, OwnPartition, ExecRunsWhatItLoaded, BeingBuilt, StackOf
<1> QED
  BY <1>2, <1>3, <1>4, <1>5, <1>7, <1>8, <1>10, <1>11 DEF IInv

LEMMA StutterInv == ASSUME IInv, UNCHANGED vars PROVE IInv'
<1> USE DEF vars, schedVars, tickVars, isrVars, localVars, memoryVars
<1>1. /\ Alive' = Alive /\ Ready' = Ready /\ Unused' = Unused
      /\ \A t \in Alive : StackOf(t)' = StackOf(t)
      /\ OneRunning' /\ BootThread'
  BY TableKept
<1>2. TypeOK'
  BY DEF IInv, TypeOK
<1>3. TickParity' /\ InterruptPath'
  BY <1>1 DEF IInv, TickParity, EvenTicks, OddTicks, InterruptPath, StackOf,
              Passed
<1>4. HasSlot' /\ HasPartition' /\ HasFrame' /\ ExecPartition'
  BY <1>1 DEF IInv, HasSlot, HasPartition, HasFrame, ExecPartition,
              FreePartitions
<1>5. ContextsIntact' /\ OwnPartition' /\ ExecRunsWhatItLoaded'
  BY <1>1 DEF IInv, ContextsIntact, Ready, StackOf, OwnPartition,
              ExecRunsWhatItLoaded, BeingBuilt
<1> QED
  BY <1>1, <1>2, <1>3, <1>4, <1>5 DEF IInv

LEMMA NextInv == IInv /\ [Next]_vars => IInv'
<1> SUFFICES ASSUME IInv, [Next]_vars PROVE IInv'
  OBVIOUS
<1>1. CASE Boot
  BY <1>1, BootCreateInv, EnableInterruptsInv DEF Boot
<1>2. CASE Timer
  BY <1>2, TimerInterruptInv, HandlerCallInv, TimerCallInv, InterruptReturnInv
     DEF Timer
<1>3. CASE ExecChoose
  BY <1>3, ExecChooseInv
<1>4. CASE Create
  BY <1>4, ExecLoadInv, FindSlotInv, FindPartitionInv, ClaimPartitionInv,
     BuildFrameInv, StoreEspInv, MakeReadyInv, CreateFailedInv DEF Create
<1>5. CASE UNCHANGED vars
  BY <1>5, StutterInv
<1> QED
  BY <1>1, <1>2, <1>3, <1>4, <1>5 DEF Next

-----------------------------------------------------------------------------
(* The inductive invariant holds for every number of slots, every even     *)
(* slice length and every width of the tick counters.                      *)
THEOREM Invariance == Spec => []IInv
<1>1. Init => IInv
  BY InitInv
<1>2. IInv /\ [Next]_vars => IInv'
  BY NextInv
<1> QED
  BY <1>1, <1>2, PTL DEF Spec

(* The variables keep the types of the code.                               *)
THEOREM TypeCorrect == Spec => []TypeOK
<1>1. IInv => TypeOK
  BY DEF IInv
<1> QED
  BY <1>1, Invariance, PTL

(* The thread on the processor is the one gt_current points to, although   *)
(* generic_isr_handler drops the result of the first timer_callback call.  *)
THEOREM CurrentOnCpu == Spec => []CpuRunsCurrent
<1>1. IInv => CpuRunsCurrent
  BY DEF IInv, InterruptPath, CpuRunsCurrent
<1> QED
  BY <1>1, Invariance, PTL

(* schedule_tick can resume any Ready thread at any moment, also while     *)
(* schedule_create is preempted.                                           *)
THEOREM ContextsStayIntact == Spec => []ContextsIntact
<1>1. IInv => ContextsIntact
  BY DEF IInv
<1> QED
  BY <1>1, Invariance, PTL

(* No two threads share a stack and no partition is lost.                  *)
THEOREM PartitionsOwned == Spec => []OwnPartition
<1>1. IInv => OwnPartition
  BY DEF IInv
<1> QED
  BY <1>1, Invariance, PTL

(* The two look-ups of a partition made by execCommand and schedule_create *)
(* agree.                                                                  *)
THEOREM ExecStartsItsProgram == Spec => []ExecRunsWhatItLoaded
<1>1. IInv => ExecRunsWhatItLoaded
  BY DEF IInv
<1> QED
  BY <1>1, Invariance, PTL

-----------------------------------------------------------------------------
(* The scheduler implements RoundRobin.                                    *)

(* Some thread always has the processor.                                   *)
LEMMA CpuHasThread == ASSUME IInv PROVE \E t \in Alive : StackOf(t) = cpu
<1>1. gt_current \in Alive
  BY DEF IInv, TypeOK, OneRunning, Alive
<1> QED
  BY <1>1 DEF IInv, InterruptPath, Passed

LEMMA CpuThreadIs ==
  ASSUME IInv, NEW t \in Alive, StackOf(t) = cpu PROVE CpuThread = t
BY DEF IInv, OwnPartition, CpuThread

(* A step that moves neither the processor nor a living thread leaves the  *)
(* processor with the thread that has it.                                  *)
LEMMA CpuThreadKept ==
  ASSUME IInv, IInv', Alive \subseteq Alive', UNCHANGED cpu,
         \A t \in Alive : StackOf(t)' = StackOf(t)
  PROVE  CpuThread' = CpuThread
<1>1. PICK t \in Alive : StackOf(t) = cpu
  BY CpuHasThread
<1>2. CpuThread = t
  BY <1>1, CpuThreadIs
<1>3. t \in Alive' /\ StackOf(t)' = cpu'
  BY <1>1
<1>4. \A s \in Alive' : StackOf(s)' = cpu' => s = t
  BY <1>3 DEF IInv, OwnPartition
<1>5. CpuThread' = t
  BY <1>3, <1>4 DEF CpuThread
<1> QED
  BY <1>2, <1>5

LEMMA RefineInit == Init => RR!Init
<1> SUFFICES ASSUME Init PROVE RR!Init
  OBVIOUS
<1>1. Alive = {0}
  BY Parameters DEF Init, Alive
<1>2. CpuThread = 0
  <2>1. StackOf(0) = cpu /\ 0 \in Alive
    BY <1>1, Parameters DEF Init, StackOf
  <2> QED
    BY <2>1, InitInv, CpuThreadIs
<1> QED
  BY <1>1, <1>2 DEF RR!Init

LEMMA RefineNext == IInv /\ IInv' /\ [Next]_vars => [RR!Next]_RR!vars
<1> SUFFICES ASSUME IInv, IInv', [Next]_vars PROVE [RR!Next]_RR!vars
  OBVIOUS
<1>1. CASE MakeReady
  <2>1. thread_idx \in Slots \ Alive
    BY <1>1 DEF IInv, HasSlot, MakeReady, Unused, Alive
  <2>2. /\ Alive' = Alive \cup {thread_idx}
        /\ \A t \in Alive : StackOf(t)' = StackOf(t)
        /\ UNCHANGED cpu
    BY <1>1, <2>1 DEF IInv, TypeOK, MakeReady, Alive, StackOf, memoryVars
  <2>3. CpuThread' = CpuThread
    BY <2>2, CpuThreadKept
  <2> QED
    BY <2>1, <2>2, <2>3 DEF RR!Next, RR!Spawn, RR!Slots, Slots
<1>2. CASE InterruptReturn
  <2>1. PICK t \in Alive : /\ StackOf(t) = cpu
                           /\ \/ t = gt_current
                              \/ \A k \in Alive :
                                   ~RR!Between(t, k, gt_current)
    BY <1>2 DEF InterruptReturn, IInv, InterruptPath, Passed
  <2>2. CpuThread = t
    BY <2>1, CpuThreadIs
  <2>3. /\ Alive' = Alive /\ gt_current \in Alive /\ UNCHANGED gt_current
        /\ StackOf(gt_current)' = cpu'
    BY <1>2 DEF InterruptReturn, IInv, InterruptPath, TypeOK, OneRunning,
                Alive, StackOf, schedVars, memoryVars
  <2>4. \A s \in Alive' : StackOf(s)' = cpu' => s = gt_current
    BY <2>3 DEF IInv, OwnPartition
  <2>5. CpuThread' = gt_current
    BY <2>3, <2>4 DEF CpuThread
  <2> QED
    BY <2>1, <2>2, <2>3, <2>5 DEF RR!Next, RR!Rotate, RR!vars
<1>3. CASE UNCHANGED <<cpu, gt_state>>
             /\ \A t \in Alive : StackOf(t)' = StackOf(t)
  <2>1. Alive' = Alive
    BY <1>3 DEF Alive
  <2>2. CpuThread' = CpuThread
    BY <1>3, <2>1, CpuThreadKept
  <2> QED
    BY <2>1, <2>2 DEF RR!vars
<1>4. CASE TimerCall \/ HandlerCall
  <2>1. Alive' = Alive
    <3>1. CASE SliceOver(ticks_elapsed + 1)
      BY <1>4, <3>1, SwitchResult
         DEF TimerCall, HandlerCall, timer_callback, IInv, TypeOK
    <3>2. CASE ~SliceOver(ticks_elapsed + 1)
      BY <1>4, <3>2 DEF TimerCall, HandlerCall, timer_callback, schedVars,
                        Alive
    <3> QED
      BY <3>1, <3>2
  <2>2. UNCHANGED cpu /\ \A t \in Alive : StackOf(t)' = StackOf(t)
    BY <1>4 DEF TimerCall, HandlerCall, memoryVars, StackOf
  <2>3. CpuThread' = CpuThread
    BY <2>1, <2>2, CpuThreadKept
  <2> QED
    BY <2>1, <2>3 DEF RR!vars
<1>5. CASE ClaimPartition
  <2>1. thread_idx \notin Alive
    BY <1>5 DEF IInv, HasSlot, ClaimPartition, Unused, Alive
  <2>2. \A t \in Alive : StackOf(t)' = StackOf(t)
    BY <1>5, <2>1 DEF ClaimPartition, StackOf, IInv, TypeOK, Alive
  <2> QED
    BY <1>3, <1>5, <2>2 DEF ClaimPartition, threadStep, schedVars
<1>6. CASE UNCHANGED <<cpu, gt_state, gt_base>>
  BY <1>3, <1>6 DEF StackOf
<1>7. CASE \/ BootCreate \/ EnableInterrupts \/ TimerInterrupt
          \/ ExecChoose \/ ExecLoad \/ FindSlot \/ FindPartition
          \/ BuildFrame \/ StoreEsp \/ CreateFailed \/ UNCHANGED vars
  BY <1>6, <1>7 DEF BootCreate, EnableInterrupts, TimerInterrupt, ExecChoose,
     ExecLoad, FindSlot, FindPartition, BuildFrame, StoreEsp, CreateFailed,
     threadStep, vars, schedVars, memoryVars
<1> QED
  BY <1>1, <1>2, <1>4, <1>5, <1>7 DEF Next, Boot, Timer, Create

(* Whatever exec starts and wherever the timer strikes, the processor goes *)
(* from thread to thread in slot order and no living thread is skipped.    *)
THEOREM Refinement == Spec => RoundRobinSpec
<1>1. Init => RR!Init
  BY RefineInit
<1>2. IInv /\ IInv' /\ [Next]_vars => [RR!Next]_RR!vars
  BY RefineNext
<1> QED
  BY <1>1, <1>2, Invariance, PTL DEF Spec, RoundRobinSpec, RR!Spec
=============================================================================
