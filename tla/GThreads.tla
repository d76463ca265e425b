------------------------------ MODULE GThreads ------------------------------
(***************************************************************************)
(* The user-level threads of gthreads/gthr.c: one process, a table of      *)
(* threads, and gt_schedule, which main and ending threads call and the    *)
(* handler of SIGALRM calls on the stack of whatever thread it interrupts. *)
(* The three scheduling policies share everything but the choice.          *)
(*                                                                         *)
(* A context (gt_switch) is the stack it is on and the calls of            *)
(* gt_schedule in progress there.  Times are abstracted to what they       *)
(* decide: a thread that was never scheduled nor aged has last_start 0 and *)
(* has waited for more than any threshold, any other one may or may not    *)
(* have.  Statistics, and what threads do apart from returning, are left   *)
(* out.  As in main.c, all threads are created before the first schedule.  *)
(***************************************************************************)
EXTENDS Integers, SequencesExt

CONSTANTS MaxGThreads,  \* slots of gt_table
          Algs,         \* the scheduling policies set before gt_init
          FirstPriority, LastPriority,  \* of the queues (-20, 19)
          Nesting       \* alarms that may strike in gt_schedule (see Alarm)

ASSUME GThreadsAssumption ==
  /\ MaxGThreads \in Nat /\ MaxGThreads >= 2
  /\ Algs \subseteq {"RR", "RP", "LOT"} /\ Algs # {}
  /\ FirstPriority \in Int /\ LastPriority \in Nat /\ FirstPriority < 0
  /\ Nesting \in Nat

Slots      == 0 .. MaxGThreads - 1
Priorities == FirstPriority .. LastPriority
NoStack    == -1

VARIABLES
  schedulingAlg,
  gt_state,        \* gt_table[t].state
  gt_current,      \* the slot gt_current points to
  ctx,             \* gt_table[t].ctx
  priority,        \* gt_table[t].priority, which priority_create never sets
  scheduled,       \* slots whose last_start is not 0
  priorityQueues,  \* by priority; the code adds 20 for the index
  armed,           \* the alarm timer runs
  cpu,             \* the stack the process executes on
  calls,           \* the calls of gt_schedule on that stack, innermost first
  phase            \* of the process

tableVars == <<gt_state, gt_current, ctx>>
rpVars    == <<priority, scheduled, priorityQueues>>
vars == <<schedulingAlg, tableVars, rpVars, armed, cpu, calls, phase>>

Context(stack, cs) == [stack |-> stack, calls |-> cs]

(* A call of gt_schedule: who made it, where it is, the thread it has      *)
(* chosen (p) and the one whose context it will save (old).                *)
Activation(caller) == [caller |-> caller, at |-> "choose", p |-> 0, old |-> 0]

Ready  == {t \in Slots : gt_state[t] = "Ready"}
Unused == {t \in Slots : gt_state[t] = "Unused"}

Least(S, i) == i \in S /\ \A k \in S : i <= k

-----------------------------------------------------------------------------
(* gt_init, called by main, which is thread 0.                             *)
Init ==
  /\ schedulingAlg \in Algs
  /\ gt_state = [t \in Slots |-> IF t = 0 THEN "Running" ELSE "Unused"]
  /\ gt_current = 0
  /\ ctx = [t \in Slots |-> Context(NoStack, <<>>)]
  /\ priority = [t \in Slots |-> 0]
  /\ scheduled = {0}
  /\ priorityQueues = [i \in Priorities |-> <<>>]
  /\ armed = FALSE
  /\ cpu = 0 /\ calls = <<>>
  /\ phase = "create"

(* gt_create, priority_create, lottery_create: main fills a slot.          *)
Create ==
  /\ phase = "create"
  /\ \E t \in Slots, i \in Priorities :
       /\ Least(Unused, t)
       /\ ctx' = [ctx EXCEPT ![t] = Context(t, <<>>)]
       /\ gt_state' = [gt_state EXCEPT ![t] = "Ready"]
       /\ priorityQueues' = IF schedulingAlg = "RP"
                              THEN [priorityQueues EXCEPT ![i] = Append(@, t)]
                              ELSE priorityQueues
  /\ UNCHANGED <<schedulingAlg, gt_current, priority, scheduled, armed, cpu,
                 calls, phase>>

(* main calls gt_return, whose loop calls gt_schedule.                     *)
Start ==
  /\ phase = "create"
  /\ phase' = "run"
  /\ calls' = <<Activation("main")>>
  /\ UNCHANGED <<schedulingAlg, tableVars, rpVars, armed, cpu>>

-----------------------------------------------------------------------------
(* The choice of the next thread.                                          *)

(* Mutation: the scan starts at the first slot.                            *)
ScanFrom_Zero(i, j) == j

(* The distance from slot i to slot j, upwards and around.                 *)
ScanFrom(i, j) == (j - i) % MaxGThreads

(* RR: the scan begins with the current thread itself.                     *)
RoundRobinChoice == {t \in Ready : \A k \in Ready :
                       ScanFrom(gt_current, t) <= ScanFrom(gt_current, k)}

(* priority_remove, on a queue.  When t is not in it the count still goes  *)
(* down, and the last thread drops out of it.  (A count below zero is kept *)
(* as an empty queue: nothing is put in that queue after the first         *)
(* schedule, because promoted threads go to queues below 0.)               *)
Removed(queue, t) == IF t \in ToSet(queue) THEN RemoveFirst(queue, t)
                     ELSE IF queue = <<>> THEN <<>> ELSE Front(queue)

(* Whom priority_age may promote, and whom it does for certain.            *)
Promotable(t) == t \in Ready \ {gt_current} /\ priority[t] > FirstPriority

(* Thread t moves up one queue.                                            *)
Promoted(queues, t) ==
  [[queues EXCEPT ![priority[t]] = Removed(@, t)]
     EXCEPT ![priority[t] - 1] = Append(@, t)]

(* priority_age: the slots in S have waited for too long; they are         *)
(* promoted in the order of the table.                                     *)
Aged(S) ==
  LET after[i \in -1 .. MaxGThreads - 1] ==
        IF i = -1 THEN priorityQueues
        ELSE IF i \in S THEN Promoted(after[i - 1], i) ELSE after[i - 1]
  IN  after[MaxGThreads - 1]

(* Mutation: the thread at the front is dropped instead of rotated.        *)
Rotated_Drop(queue) == Tail(queue)

Rotated(queue) == Append(Tail(queue), Head(queue))

(* priority_schedule: of the first queue with a Ready thread it takes the  *)
(* last such thread, and moves the first thread to the end.                *)
SomeReady(queue) == ToSet(queue) \cap Ready # {}

LastReady(queue) ==
  queue[SelectLastInSeq(queue, LAMBDA t : t \in Ready)]

(* lottery_schedule: any Ready thread with a ticket, that is, any but main.*)
LotteryChoice == Ready \ {0}

-----------------------------------------------------------------------------
(* gt_schedule.                                                            *)

Top  == calls[1]
At(label) == phase = "run" /\ calls # <<>> /\ Top.at = label
Goto(label) == calls' = <<[Top EXCEPT !.at = label]>> \o Tail(calls)

(* gt_reset_sig: the timer is set; SIGALRM is unblocked, which is what     *)
(* leaving "choose" means (see Alarm).                                     *)
Arm == armed' = TRUE

(* Thread p is the next one (calc_statistics sets its last_start); those   *)
(* in S have been promoted.                                                *)
Commit(p, S) ==
  /\ calls' = <<[Top EXCEPT !.at = "suspend", !.p = p]>> \o Tail(calls)
  /\ scheduled' = scheduled \cup S \cup {p}
  /\ UNCHANGED phase

(* gt_schedule returns false: main exits, an ending thread meets the       *)
(* assertion, the interrupted thread goes on.                              *)
ReturnFalse(S) ==
  /\ calls' = Tail(calls)
  /\ scheduled' = scheduled \cup S
  /\ phase' = CASE Top.caller = "main"  -> "exited"
                [] Top.caller = "end"   -> "assertion failed"
                [] Top.caller = "alarm" -> phase

ChooseRoundRobin ==
  /\ At("choose") /\ schedulingAlg = "RR"
  /\ Arm
  /\ \/ Ready = {} /\ ReturnFalse({})
     \/ \E p \in RoundRobinChoice : Commit(p, {})
  /\ UNCHANGED <<schedulingAlg, tableVars, priority, priorityQueues, cpu>>

ChoosePriority ==
  /\ At("choose") /\ schedulingAlg = "RP"
  /\ Arm
  /\ \E S \in SUBSET {t \in Slots : Promotable(t)} :
       /\ \A t \in Slots \ scheduled : Promotable(t) => t \in S
       /\ priority' = [t \in Slots |-> IF t \in S THEN priority[t] - 1
                                                  ELSE priority[t]]
       /\ \E queues \in {Aged(S)} :
            \/ \E i \in Priorities :
                 /\ Least({k \in Priorities : SomeReady(queues[k])}, i)
                 /\ priorityQueues' = [queues EXCEPT ![i] = Rotated(@)]
                 /\ IF LastReady(queues[i]) = gt_current
                      THEN ReturnFalse(S)
                      ELSE Commit(LastReady(queues[i]), S)
            \/ /\ \A i \in Priorities : ~SomeReady(queues[i])
               /\ priorityQueues' = queues
               /\ ReturnFalse(S)
  /\ UNCHANGED <<schedulingAlg, tableVars, cpu>>

(* Without a ticket in a Ready thread rand() % 0 ends the process.         *)
ChooseLottery ==
  /\ At("choose") /\ schedulingAlg = "LOT"
  /\ Arm
  /\ \/ /\ LotteryChoice = {}
        /\ phase' = "division by zero" /\ UNCHANGED <<calls, scheduled>>
     \/ \E p \in LotteryChoice : Commit(p, {})
  /\ UNCHANGED <<schedulingAlg, tableVars, priority, priorityQueues, cpu>>

(* Mutation: an ending thread is put back with the Ready ones.             *)
Suspend_Unused ==
  /\ At("suspend")
  /\ gt_state' = [gt_state EXCEPT ![gt_current] = "Ready"]
  /\ Goto("run")
  /\ UNCHANGED <<schedulingAlg, gt_current, ctx, rpVars, armed, cpu, phase>>

(* Mutation: the thread that is left stays Running.                        *)
Suspend_Running ==
  /\ At("suspend")
  /\ Goto("run")
  /\ UNCHANGED <<schedulingAlg, tableVars, rpVars, armed, cpu, phase>>

(* if (gt_current->state != Unused) gt_current->state = Ready              *)
Suspend ==
  /\ At("suspend")
  /\ gt_state' = [gt_state EXCEPT ![gt_current] =
                    IF @ = "Unused" THEN @ ELSE "Ready"]
  /\ Goto("run")
  /\ UNCHANGED <<schedulingAlg, gt_current, ctx, rpVars, armed, cpu, phase>>

(* p->state = Running; old = &gt_current->ctx                              *)
Run ==
  /\ At("run")
  /\ gt_state' = [gt_state EXCEPT ![Top.p] = "Running"]
  /\ calls' = <<[Top EXCEPT !.at = "current", !.old = gt_current]>> \o Tail(calls)
  /\ UNCHANGED <<schedulingAlg, gt_current, ctx, rpVars, armed, cpu, phase>>

(* Mutation: old is taken after gt_current has moved.                      *)
SetCurrent_First ==
  /\ At("current")
  /\ gt_current' = Top.p
  /\ calls' = <<[Top EXCEPT !.at = "switch", !.old = Top.p]>> \o Tail(calls)
  /\ UNCHANGED <<schedulingAlg, gt_state, ctx, rpVars, armed, cpu, phase>>

(* gt_current = p                                                          *)
SetCurrent ==
  /\ At("current")
  /\ gt_current' = Top.p
  /\ Goto("switch")
  /\ UNCHANGED <<schedulingAlg, gt_state, ctx, rpVars, armed, cpu, phase>>

(* gt_switch saves the context, from which the call will return, and       *)
(* continues with the one of p.                                            *)
Switch ==
  /\ At("switch")
  /\ LET saved == [ctx EXCEPT ![Top.old] =
                     Context(cpu, <<[Activation(Top.caller) EXCEPT !.at = "return"]>>
                                  \o Tail(calls))]
     IN  /\ ctx' = saved
         /\ cpu' = saved[Top.p].stack
         /\ calls' = saved[Top.p].calls
  /\ UNCHANGED <<schedulingAlg, gt_state, gt_current, rpVars, armed, phase>>

(* gt_schedule returns true: main loops, the interrupted thread goes on,   *)
(* and an ending thread, if it ever gets here, meets the assertion.        *)
Return ==
  /\ At("return")
  /\ calls' = IF Top.caller = "main" THEN <<Activation("main")>> \o Tail(calls)
                                     ELSE Tail(calls)
  /\ phase' = IF Top.caller = "end" THEN "assertion failed" ELSE phase
  /\ UNCHANGED <<schedulingAlg, tableVars, rpVars, armed, cpu>>

-----------------------------------------------------------------------------
(* Who calls gt_schedule.                                                  *)

(* A thread function returns to gt_stop, which calls gt_return.            *)
End ==
  /\ phase = "run" /\ calls = <<>>
  /\ IF gt_current = 0
       THEN calls' = <<Activation("main")>> /\ UNCHANGED gt_state
       ELSE /\ gt_state' = [gt_state EXCEPT ![gt_current] = "Unused"]
            /\ calls' = <<Activation("end")>>
  /\ UNCHANGED <<schedulingAlg, gt_current, ctx, rpVars, armed, cpu, phase>>

(* gt_alarm_handle.  SIGALRM is blocked in its handler until gt_reset_sig, *)
(* which starts a new period; main and ending threads call gt_schedule     *)
(* with the signal unblocked, and can be hit before they get there.  An    *)
(* alarm after "choose" means that the process took, or was kept waiting,  *)
(* more than the period of 500 microseconds of real time in the rest of    *)
(* gt_schedule; Nesting bounds how many such calls one stack holds.        *)
Blocked   == At("choose") /\ Top.caller = "alarm"
LateCalls == {i \in DOMAIN calls : calls[i].at # "choose"}

Alarm ==
  /\ phase = "run" /\ armed /\ ~Blocked
  /\ Cardinality(LateCalls) <= Nesting
  /\ calls' = <<Activation("alarm")>> \o calls
  /\ UNCHANGED <<schedulingAlg, tableVars, rpVars, armed, cpu, phase>>

-----------------------------------------------------------------------------
Schedule == \/ ChooseRoundRobin \/ ChoosePriority \/ ChooseLottery
            \/ Suspend \/ Run \/ SetCurrent \/ Switch \/ Return

Next == Create \/ Start \/ Schedule \/ End \/ Alarm

Spec == Init /\ [][Next]_vars

(* The process runs, and its timer fires; nobody has to end.  Time passes: *)
(* who waits through one choice after the other is promoted in the end.    *)
FairSpec ==
  /\ Spec
  /\ WF_vars(Start) /\ WF_vars(Schedule) /\ WF_vars(Alarm)
  /\ \A t \in Slots : SF_vars(ChoosePriority /\ priority'[t] < priority[t])

-----------------------------------------------------------------------------
(* The table, the queues and the contexts hold what the code expects: a    *)
(* promotion never leaves the range of the queues (priority_age).          *)
TypeOK ==
  /\ schedulingAlg \in {"RR", "RP", "LOT"}
  /\ gt_state \in [Slots -> {"Unused", "Ready", "Running"}]
  /\ gt_current \in Slots /\ cpu \in Slots
  /\ \A t \in Slots : /\ ctx[t].stack \in Slots \cup {NoStack}
                     /\ ctx[t].calls \in Seq([caller : {"main", "end", "alarm"},
                          at : {"choose", "suspend", "run", "current",
                                "switch", "return"},
                          p : Slots, old : Slots])
  /\ priority \in [Slots -> Priorities]
  /\ priorityQueues \in [Priorities -> Seq(Slots)]
  /\ armed \in BOOLEAN
  /\ phase \in {"create", "run", "exited", "assertion failed",
                "division by zero"}

(* Outside gt_schedule the process executes on the stack of gt_current,    *)
(* and no other thread is marked Running.                                  *)
OnlyCurrentRuns ==
  (phase = "run" /\ (calls = <<>> \/ At("choose") \/ At("return"))) =>
    /\ cpu = gt_current
    /\ {t \in Slots : gt_state[t] = "Running"} \subseteq {gt_current}

(* A thread that has not ended and does not execute is resumed, when its   *)
(* turn comes, on its own stack, where it stopped: the save in gt_switch   *)
(* never goes to another thread's context.                                 *)
ContextsIntact ==
  \A t \in Slots : (gt_state[t] # "Unused" /\ t # cpu) => ctx[t].stack = t

(* Once the threads run, one that has ended is never scheduled again       *)
(* (gt_return).                                                            *)
EndedStaysEnded ==
  [][\A t \in Slots : (phase = "run" /\ gt_state[t] = "Unused") =>
                         gt_state'[t] = "Unused"]_vars

(* gt_schedule tells main that there is nothing left to run only when      *)
(* every other thread has ended: the rotation and the promotions of the    *)
(* priority queues, out of step with the threads as they are, lose nobody. *)
ExitsLast == phase = "exited" => \A t \in Slots \ {0} : gt_state[t] = "Unused"

(* assert(!"reachable"): gt_schedule does not return to a thread that has  *)
(* ended (gt_return).                                                      *)
EndsForGood == phase # "assertion failed"

(* Under round robin, and under priorities thanks to aging, a Ready thread *)
(* gets the processor, or the process ends, though nobody gives the        *)
(* processor up.                                                           *)
ReadyRuns ==
  \A t \in Slots :
    (schedulingAlg # "LOT" /\ gt_state[t] = "Ready") ~>
      (cpu = t \/ phase # "run" \/ gt_state[t] = "Unused")
=============================================================================
