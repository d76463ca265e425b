----------------------------- MODULE RoundRobin -----------------------------
(***************************************************************************)
(* What the kernel's multitasking promises to the threads: there is one    *)
(* processor, threads are only ever added, and the processor passes from   *)
(* the thread that has it to the next living thread in slot order.  No     *)
(* interrupt, stack pointer or table of states appears here; the module    *)
(* Scheduler is shown to implement this one.                               *)
(***************************************************************************)
EXTENDS Integers

CONSTANT MaxProcesses   \* number of thread slots

Slots == 0 .. MaxProcesses - 1

VARIABLES running,      \* the slot whose thread has the processor
          alive         \* the slots that hold a thread

vars == <<running, alive>>

(* In the circular order of the slots, k lies strictly between i and j:    *)
(* whoever walks the slots upwards from i meets k before reaching j.       *)
Between(i, k, j) == IF i < j THEN i < k /\ k < j
                             ELSE i < k \/ k < j

Init == /\ running = 0
        /\ alive = {0}

(* A thread is born in an empty slot; it does not get the processor yet.   *)
Spawn == \E t \in Slots \ alive : /\ alive' = alive \cup {t}
                                  /\ UNCHANGED running

(* The processor passes on, and skips no living thread.                    *)
Rotate == \E t \in alive : /\ \A k \in alive : ~Between(running, k, t)
                           /\ running' = t
                           /\ UNCHANGED alive

Next == Spawn \/ Rotate

Spec == Init /\ [][Next]_vars
=============================================================================
