--------------------------- MODULE GThreadsProofs ---------------------------
(***************************************************************************)
(* Proofs about GThreads, for any number of threads and any range of       *)
(* priorities, when no alarm strikes in gt_schedule after the choice       *)
(* (Nesting = 0).  That hypothesis is needed: gthreads_reentrant shows     *)
(* what a second call of gt_schedule does to the first.                    *)
(***************************************************************************)
EXTENDS GThreads, SequenceTheorems, FiniteSetTheorems, NaturalsInduction,
        WellFoundedInduction, TLAPS

States == {"Unused", "Ready", "Running"}
Labels == {"choose", "suspend", "run", "current", "switch", "return"}
Call   == [caller : {"main", "end", "alarm"}, at : Labels, p : Slots, old : Slots]

Queues == [Priorities -> Seq(Slots)]

(* What the queues and contexts are made of.                               *)
Types ==
  /\ schedulingAlg \in Algs
  /\ gt_state \in [Slots -> States]
  /\ gt_current \in Slots /\ cpu \in Slots
  /\ ctx \in [Slots -> [stack : Slots \cup {NoStack}, calls : Seq(Call)]]
  /\ priority \in [Slots -> Priorities]
  /\ scheduled \subseteq Slots
  /\ priorityQueues \in Queues
  /\ armed \in BOOLEAN
  /\ phase \in {"create", "run", "exited", "assertion failed", "division by zero"}
  /\ calls \in Seq(Call)

Running == {t \in Slots : gt_state[t] = "Running"}
Ended(t) == gt_state[t] = "Unused"

(* A call that has not chosen yet is that of main or of an ended thread,   *)
(* or that of an alarm, which may have struck before one of those chose.   *)
Waits(cs, caller) ==
  cs # <<>> /\ cs[1].caller = caller /\ cs[1].at = "choose" /\ Tail(cs) = <<>>

Base(cs, t) == cs = <<>> \/ (Waits(cs, "main") /\ t = 0)

CallsOf(cs, t) ==
  \/ cs = <<>>
  \/ /\ cs # <<>>
     /\ cs[1].caller = "alarm"
     /\ Base(Tail(cs), t) \/ (Waits(Tail(cs), "end") /\ Ended(t))
  \/ cs # <<>> /\ cs[1].caller = "main" /\ Tail(cs) = <<>> /\ t = 0
  \/ cs # <<>> /\ cs[1].caller = "end" /\ Tail(cs) = <<>> /\ Ended(t)

(* The calls on the stack of a thread that gt_switch has left.             *)
Left(cs, t) ==
  \/ cs = <<>>
  \/ /\ cs # <<>> /\ cs[1].at = "return"
     /\ \/ cs[1].caller = "alarm" /\ Base(Tail(cs), t)
        \/ cs[1].caller = "main" /\ Tail(cs) = <<>> /\ t = 0

(* What holds where in gt_schedule: who is Running, who is chosen.         *)
InStep ==
  /\ cpu = gt_current
  /\ Running \subseteq {gt_current}
  /\ gt_current \notin Ready

Control ==
  /\ CallsOf(calls, cpu)
  /\ calls = <<>> => InStep
  /\ calls # <<>> =>
       /\ Top.at \in {"choose", "return", "suspend"} => InStep
       /\ Top.at = "return" => Top.caller # "end"
       /\ Top.at \in {"suspend", "run"} => Top.p \in Ready \cap scheduled
       /\ Top.at = "run" => cpu = gt_current /\ Running = {} /\ Top.p # cpu
       /\ Top.at \in {"current", "switch"} =>
            Top.old = cpu /\ Running = {Top.p} /\ Top.p # cpu
       /\ Top.at = "current" => gt_current = cpu
       /\ Top.at = "switch" => gt_current = Top.p

(* Whoever has not ended and does not execute can be resumed.              *)
Resumable ==
  \A t \in Slots : ~Ended(t) /\ t # cpu =>
    ctx[t].stack = t /\ Left(ctx[t].calls, t)

(* main never ends; before it starts the others it is alone.               *)
MainLives ==
  /\ ~Ended(0)
  /\ phase = "create" =>
       cpu = 0 /\ calls = <<>> /\ Running = {0} /\ scheduled = {0}

(* In the queue of its priority, which is above that of new threads.       *)
Listed(t) == priority[t] < 0 /\ t \in ToSet(priorityQueues[priority[t]])

(* Under priorities every thread that lives is Listed after the first      *)
(* choice, which promotes all that have never been scheduled; main is when *)
(* it has been promoted.                                                   *)
Queued ==
  schedulingAlg = "RP" =>
    /\ 0 \in scheduled
    /\ \A t \in Slots : priority[t] <= 0
    /\ \A t \in scheduled : Ended(t) \/ Listed(t) \/ (t = 0 /\ priority[t] = 0)
    /\ \A t \in Slots \ scheduled : t \notin Running /\ priority[t] = 0

(* Only priority_schedule lets an ended thread down.                       *)
EndingIsFinal == schedulingAlg # "RP" => EndsForGood

IInv ==
  Types /\ Control /\ Resumable /\ MainLives /\ Queued /\ ExitsLast /\ EndingIsFinal

-----------------------------------------------------------------------------
(* Least elements, sequences as sets.                                      *)
LEMMA HasLeast ==
  ASSUME NEW S, S \subseteq Nat, S # {}
  PROVE  \E x \in S : \A y \in S : x <= y
<1>1. PICK x \in S : \A y \in S : ~ (<<y, x>> \in OpToRel(<, Nat))
  BY WFMin, NatLessThanWellFounded
<1>2. \A y \in S : ~(y < x)
  BY <1>1 DEF OpToRel
<1> QED
  BY <1>2

(* The minimum of positions of a sequence is one of them.                  *)
LEMMA MinIs ==
  ASSUME NEW n \in Nat, NEW S, S \subseteq 1 .. n, S # {}
  PROVE  Min(S) \in S /\ \A y \in S : Min(S) <= y
<1>1. \E x \in S : \A y \in S : x <= y
  <2>1. S \subseteq Nat
    OBVIOUS
  <2> QED
    BY <2>1, HasLeast
<1> QED
  BY <1>1 DEF Min

(* The maximum of positions of a sequence is one of them.                  *)
LEMMA MaxIs ==
  ASSUME NEW n \in Nat, NEW S, S \subseteq 1 .. n, S # {}
  PROVE  Max(S) \in S /\ \A y \in S : Max(S) >= y
<1> DEFINE T == {n - x : x \in S}
<1>1. T \subseteq Nat /\ T # {}
  OBVIOUS
<1>2. PICK k \in T : \A y \in T : k <= y
  BY <1>1, HasLeast
<1>3. PICK x \in S : k = n - x
  OBVIOUS
<1>4. \A y \in S : x >= y
  <2> TAKE y \in S
  <2>1. k <= n - y
    BY <1>2
  <2> QED
    BY <1>3, <2>1
<1>5. \E m \in S : \A y \in S : m >= y
  BY <1>4
<1> QED
  BY <1>5 DEF Max

(* The elements of a sequence.                                             *)
LEMMA Elements ==
  ASSUME NEW S, NEW s \in Seq(S)
  PROVE  /\ ToSet(s) = {s[i] : i \in 1 .. Len(s)}
         /\ ToSet(s) \subseteq S
BY DEF ToSet

(* A queue with one more thread.                                           *)
LEMMA Appended ==
  ASSUME NEW S, NEW s \in Seq(S), NEW e \in S
  PROVE  Append(s, e) \in Seq(S) /\ ToSet(Append(s, e)) = ToSet(s) \cup {e}
<1>1. /\ Append(s, e) \in Seq(S) /\ Len(Append(s, e)) = Len(s) + 1
      /\ \A i \in 1 .. Len(s) : Append(s, e)[i] = s[i]
      /\ Append(s, e)[Len(s) + 1] = e /\ Len(s) \in Nat
  OBVIOUS
<1>2. ToSet(Append(s, e)) = {Append(s, e)[i] : i \in 1 .. Len(s) + 1}
  BY <1>1 DEF ToSet
<1>3. ToSet(s) = {s[i] : i \in 1 .. Len(s)}
  BY DEF ToSet
<1> HIDE DEF ToSet
<1>4. ASSUME NEW x \in ToSet(Append(s, e)) PROVE x \in ToSet(s) \cup {e}
  <2>1. PICK i \in 1 .. Len(s) + 1 : x = Append(s, e)[i]
    BY <1>2
  <2> QED
    BY <1>1, <1>3, <2>1
<1>5. ASSUME NEW x \in ToSet(s) PROVE x \in ToSet(Append(s, e))
  <2>1. PICK i \in 1 .. Len(s) : x = s[i]
    BY <1>3
  <2>2. i \in 1 .. Len(s) + 1
    BY <1>1
  <2> QED
    BY <1>1, <1>2, <2>1, <2>2
<1>6. e \in ToSet(Append(s, e))
  <2>1. Len(s) + 1 \in 1 .. Len(s) + 1
    BY <1>1
  <2> QED
    BY <1>1, <1>2, <2>1
<1> QED
  BY <1>1, <1>4, <1>5, <1>6

(* A sequence without the first occurrence of e has all other elements.    *)
LEMMA FirstRemoved ==
  ASSUME NEW S, NEW s \in Seq(S), NEW e, e \in ToSet(s)
  PROVE  /\ RemoveFirst(s, e) \in Seq(S)
         /\ ToSet(s) \ {e} \subseteq ToSet(RemoveFirst(s, e))
<1> DEFINE I == {i \in 1 .. Len(s) : s[i] = e}
<1>1. PICK n \in Nat : n = Len(s)
  OBVIOUS
<1>2. PICK k \in I : k = Min(I)
  <2>1. I \subseteq 1 .. n /\ I # {}
    BY <1>1 DEF ToSet
  <2> HIDE DEF I
  <2> QED
    BY <1>1, <2>1, MinIs
<1>3. RemoveFirst(s, e) = SubSeq(s, 1, k - 1) \o SubSeq(s, k + 1, Len(s))
  BY <1>2 DEF RemoveFirst, RemoveAt, SelectInSeq
<1>4. k \in 1 .. n /\ s[k] = e /\ s \in [1 .. n -> S]
  BY <1>1, <1>2
<1> DEFINE a == SubSeq(s, 1, k - 1)
           b == SubSeq(s, k + 1, n)
<1>5. /\ a \in Seq(S) /\ Len(a) = k - 1
      /\ \A i \in 1 .. k - 1 : a[i] = s[i]
  <2>1. \A i \in 1 .. k - 1 : s[i] \in S
    BY <1>4
  <2>2. /\ a \in Seq(S) /\ Len(a) = IF 1 <= k - 1 THEN k - 1 - 1 + 1 ELSE 0
        /\ \A i \in 1 .. k - 1 - 1 + 1 : a[i] = s[1 + i - 1]
    BY <1>4, <2>1, SubSeqProperties
  <2> QED
    BY <1>4, <2>2
<1>6. /\ b \in Seq(S) /\ Len(b) = n - k
      /\ \A i \in 1 .. n - k : b[i] = s[k + i]
  <2>1. \A i \in k + 1 .. n : s[i] \in S
    BY <1>4
  <2>2. /\ b \in Seq(S) /\ Len(b) = IF k + 1 <= n THEN n - (k + 1) + 1 ELSE 0
        /\ \A i \in 1 .. n - (k + 1) + 1 : b[i] = s[k + 1 + i - 1]
    BY <1>4, <2>1, SubSeqProperties
  <2> QED
    BY <1>4, <2>2
<1> HIDE DEF a, b
<1>7. /\ a \o b \in Seq(S) /\ Len(a \o b) = (k - 1) + (n - k)
      /\ \A i \in 1 .. (k - 1) + (n - k) :
           (a \o b)[i] = IF i <= k - 1 THEN a[i] ELSE b[i - (k - 1)]
  <2>1. /\ a \o b \in Seq(S) /\ Len(a \o b) = Len(a) + Len(b)
        /\ \A i \in 1 .. Len(a) + Len(b) :
             (a \o b)[i] = IF i <= Len(a) THEN a[i] ELSE b[i - Len(a)]
    BY <1>5, <1>6, ConcatProperties
  <2> QED
    BY <1>5, <1>6, <2>1
<1>8. ASSUME NEW i \in 1 .. n, i # k
      PROVE  s[i] \in ToSet(a \o b)
  <2>1. CASE i < k
    BY <1>4, <1>5, <1>7, <2>1 DEF ToSet
  <2>2. CASE i > k
    <3>1. i - 1 \in 1 .. (k - 1) + (n - k) /\ ~(i - 1 <= k - 1)
          /\ (i - 1) - (k - 1) = i - k /\ i - k \in 1 .. n - k /\ k + (i - k) = i
      BY <1>4, <2>2
    <3>2. (a \o b)[i - 1] = s[i]
      BY <1>6, <1>7, <3>1
    <3>3. DOMAIN (a \o b) = 1 .. (k - 1) + (n - k)
      BY <1>7
    <3> QED
      BY <3>1, <3>2, <3>3 DEF ToSet
  <2> QED
    BY <1>4, <1>8, <2>1, <2>2
<1>9. RemoveFirst(s, e) = a \o b
  BY <1>1, <1>3 DEF a, b
<1>10. ASSUME NEW x \in ToSet(s) \ {e} PROVE x \in ToSet(a \o b)
  <2>1. PICK i \in 1 .. n : x = s[i]
    BY <1>1 DEF ToSet
  <2> QED
    BY <1>4, <1>8, <2>1
<1> QED
  BY <1>7, <1>9, <1>10

Iterates(f, N, start, step) ==
  f[-1] = start /\ \A i \in 0 .. N : f[i] = step[i][f[i - 1]]

(* A finite sequence of steps has a result: what a recursive function over *)
(* an interval computes exists.                                            *)
LEMMA StepsTaken ==
  ASSUME NEW N \in Nat, NEW Q, NEW q0 \in Q, NEW step \in [0 .. N -> [Q -> Q]]
  PROVE  \E f \in [-1 .. N -> Q] : Iterates(f, N, q0, step)
<1> USE DEF Iterates
<1> DEFINE Solves(f, n) == Iterates(f, n, q0, step)
           Solved(n) == \E f \in [-1 .. n -> Q] : Solves(f, n)
           Bad == {n \in 0 .. N : ~Solved(n)}
<1>1. SUFFICES ASSUME Bad # {} PROVE FALSE
  <2>1. N \in 0 .. N
    OBVIOUS
  <2> QED
    BY <2>1
<1>2. PICK n \in Bad : \A k \in Bad : n <= k
  <2>1. Bad \subseteq Nat
    OBVIOUS
  <2> HIDE DEF Bad
  <2> QED
    BY <1>1, <2>1, HasLeast
<1>3. n \in 0 .. N /\ ~Solved(n) /\ \A k \in 0 .. N : k < n => Solved(k)
  <2>1. \A k \in 0 .. N : k < n => k \notin Bad
    <3> HIDE DEF Solved
    <3> QED
      BY <1>2
  <2> HIDE DEF Solved
  <2> QED
    BY <2>1
<1>4. ASSUME NEW g \in [-1 .. n - 1 -> Q], Solves(g, n - 1)
      PROVE  Solved(n)
  <2> DEFINE f == [i \in -1 .. n |-> IF i < n THEN g[i] ELSE step[n][g[n - 1]]]
  <2>1. g[n - 1] \in Q /\ step[n] \in [Q -> Q]
    BY <1>3
  <2>2. f \in [-1 .. n -> Q]
    BY <1>3, <2>1
  <2>3. \A i \in 0 .. n : f[i] = step[i][f[i - 1]]
    <3> TAKE i \in 0 .. n
    <3>1. CASE i < n
      BY <1>3, <1>4, <3>1
    <3>2. CASE i = n
      BY <1>3, <3>2
    <3> QED
      BY <1>3, <3>1, <3>2
  <2>4. f[-1] = q0
    BY <1>3, <1>4
  <2> HIDE DEF f
  <2> QED
    BY <2>2, <2>3, <2>4
<1>5. CASE n = 0
  <2> DEFINE g == [i \in -1 .. n - 1 |-> q0]
  <2>1. g \in [-1 .. n - 1 -> Q] /\ Solves(g, n - 1)
    BY <1>5
  <2> HIDE DEF g, Solves, Solved
  <2> QED
    BY <1>3, <1>4, <2>1
<1>6. CASE n # 0
  <2>1. n - 1 \in 0 .. N /\ n - 1 < n
    BY <1>3, <1>6
  <2>2. PICK g \in [-1 .. n - 1 -> Q] : Solves(g, n - 1)
    <3> HIDE DEF Solves
    <3> QED
      BY <1>3, <2>1
  <2> HIDE DEF Solves, Solved
  <2> QED
    BY <1>3, <1>4, <2>2
<1> QED
  BY <1>5, <1>6

AgedBy(f, S) ==
  /\ f[-1] = priorityQueues
  /\ \A i \in Slots : f[i] = IF i \in S THEN Promoted(f[i - 1], i) ELSE f[i - 1]
  /\ Aged(S) = f[MaxGThreads - 1]

(* Aged is what its recursion says.                                        *)
LEMMA AgedIs ==
  ASSUME NEW S, NEW Q, priorityQueues \in Q,
         \A q \in Q : \A i \in S \cap Slots : Promoted(q, i) \in Q
  PROVE  \E f \in [-1 .. MaxGThreads - 1 -> Q] : AgedBy(f, S)
<1>1. PICK N : N = MaxGThreads - 1
  OBVIOUS
<1>2. N \in Nat /\ Slots = 0 .. N
  BY <1>1, GThreadsAssumption DEF Slots
<1> DEFINE step == [i \in 0 .. N |-> [q \in Q |-> IF i \in S THEN Promoted(q, i) ELSE q]]
           Eq(f) == f = [i \in -1 .. N |->
                           IF i = -1 THEN priorityQueues
                           ELSE IF i \in S THEN Promoted(f[i - 1], i) ELSE f[i - 1]]
<1>3. step \in [0 .. N -> [Q -> Q]]
  BY <1>2
<1>4. PICK f \in [-1 .. N -> Q] :
        f[-1] = priorityQueues /\ \A i \in 0 .. N : f[i] = step[i][f[i - 1]]
  <2>1. N \in Nat
    BY <1>2
  <2> HIDE DEF step
  <2>2. \E f \in [-1 .. N -> Q] : Iterates(f, N, priorityQueues, step)
    BY <1>3, <2>1, StepsTaken
  <2> QED
    BY <2>2 DEF Iterates
<1>5. \A i \in 0 .. N :
        /\ i - 1 \in -1 .. N /\ i # -1
        /\ f[i] = IF i \in S THEN Promoted(f[i - 1], i) ELSE f[i - 1]
  <2> TAKE i \in 0 .. N
  <2>1. i - 1 \in -1 .. N /\ i # -1
    BY <1>2
  <2>2. f[i - 1] \in Q
    BY <2>1
  <2> QED
    BY <1>4, <2>1, <2>2
<1>6. Eq(f)
  <2> DEFINE h == [i \in -1 .. N |->
                     IF i = -1 THEN priorityQueues
                     ELSE IF i \in S THEN Promoted(f[i - 1], i) ELSE f[i - 1]]
  <2>1. \A i \in -1 .. N : f[i] = h[i]
    <3> TAKE i \in -1 .. N
    <3>1. i = -1 \/ i \in 0 .. N
      BY <1>2
    <3> QED
      BY <1>4, <1>5, <3>1
  <2>2. DOMAIN h = -1 .. N /\ h = [i \in -1 .. N |-> h[i]] /\ f = [i \in -1 .. N |-> f[i]]
    OBVIOUS
  <2>3. f = h
    <3> HIDE DEF h
    <3> QED
      BY <2>1, <2>2
  <2> QED
    BY <2>3
<1>7. PICK g : g = CHOOSE h : Eq(h)
  OBVIOUS
<1>8. Eq(g)
  <2> HIDE DEF Eq
  <2> QED
    BY <1>6, <1>7
<1>9. Aged(S) = g[N]
  BY <1>1, <1>7 DEF Aged
<1>10. g = f
  <2> DEFINE Bad == {i \in 0 .. N : g[i] # f[i]}
  <2>1. g[-1] = f[-1]
    BY <1>2, <1>4, <1>8
  <2>2. Bad = {}
    <3> SUFFICES ASSUME Bad # {} PROVE FALSE
      OBVIOUS
    <3>1. PICK n \in Bad : \A k \in Bad : n <= k
      <4>1. Bad \subseteq Nat
        OBVIOUS
      <4> HIDE DEF Bad
      <4> QED
        BY <4>1, HasLeast
    <3>2. n \in 0 .. N /\ n # -1 /\ (n - 1 = -1 \/ n - 1 \in 0 .. N)
      BY <1>2
    <3>3. g[n - 1] = f[n - 1]
      <4>1. n - 1 \in 0 .. N => n - 1 \notin Bad
        BY <3>1, <3>2
      <4> QED
        BY <2>1, <3>2, <4>1
    <3>4. g[n] = IF n \in S THEN Promoted(g[n - 1], n) ELSE g[n - 1]
      <4>1. n \in -1 .. N
        BY <3>2
      <4>2. g[n] = IF n = -1 THEN priorityQueues
                   ELSE IF n \in S THEN Promoted(g[n - 1], n) ELSE g[n - 1]
        BY <1>8, <4>1, Zenon
      <4> QED
        BY <3>2, <4>2
    <3>5. f[n] = g[n]
      BY <1>5, <3>2, <3>3, <3>4
    <3> QED
      BY <3>5
  <2>3. \A i \in -1 .. N : g[i] = f[i]
    <3> TAKE i \in -1 .. N
    <3>1. i = -1 \/ i \in 0 .. N
      BY <1>2
    <3> QED
      BY <2>1, <2>2, <3>1
  <2>4. g = [i \in -1 .. N |-> g[i]] /\ f = [i \in -1 .. N |-> f[i]]
    BY <1>8
  <2> QED
    BY <2>3, <2>4
<1> QED
  BY <1>1, <1>2, <1>4, <1>5, <1>9, <1>10 DEF AgedBy

(* priority_remove takes nobody else out when the thread is in the queue.  *)
LEMMA RemovedFrom ==
  ASSUME NEW q \in Seq(Slots), NEW t \in Slots
  PROVE  /\ Removed(q, t) \in Seq(Slots)
         /\ t \in ToSet(q) => ToSet(q) \ {t} \subseteq ToSet(Removed(q, t))
<1>1. CASE t \in ToSet(q)
  BY <1>1, FirstRemoved DEF Removed
<1>2. CASE t \notin ToSet(q)
  <2>1. CASE q = <<>>
    BY <1>2, <2>1 DEF Removed
  <2>2. CASE q # <<>>
    <3>1. \A i \in 1 .. Len(q) - 1 : q[i] \in Slots
      OBVIOUS
    <3>2. Front(q) \in Seq(Slots)
      BY <3>1, SubSeqProperties DEF Front
    <3> QED
      BY <1>2, <2>2, <3>2 DEF Removed
  <2> QED
    BY <2>1, <2>2
<1> QED
  BY <1>1, <1>2

(* The rotation of a queue loses nobody (priority_schedule).               *)
LEMMA RotatedIs ==
  ASSUME NEW q \in Seq(Slots), q # <<>>
  PROVE  Rotated(q) \in Seq(Slots) /\ ToSet(Rotated(q)) = ToSet(q)
<1>1. PICK n \in Nat \ {0} : n = Len(q)
  BY EmptySeq
<1>2. /\ Head(q) = q[1] /\ q[1] \in Slots
      /\ Tail(q) \in Seq(Slots) /\ Len(Tail(q)) = n - 1
      /\ \A i \in 1 .. n - 1 : Tail(q)[i] = q[i + 1]
  BY <1>1, HeadTailProperties
<1>3. Rotated(q) \in Seq(Slots) /\ ToSet(Rotated(q)) = ToSet(Tail(q)) \cup {q[1]}
  <2>1. \A e \in Slots : /\ Append(Tail(q), e) \in Seq(Slots)
                          /\ ToSet(Append(Tail(q), e)) = ToSet(Tail(q)) \cup {e}
    BY <1>2, Appended
  <2> QED
    BY <1>2, <2>1 DEF Rotated
<1>4. ToSet(Tail(q)) = {q[i + 1] : i \in 1 .. n - 1}
  <2>1. ToSet(Tail(q)) = {Tail(q)[i] : i \in 1 .. n - 1}
    BY <1>2, Elements
  <2> QED
    BY <1>2, <2>1
<1>5. ToSet(q) = {q[i] : i \in 1 .. n}
  BY <1>1 DEF ToSet
<1>6. ASSUME NEW x \in ToSet(q) PROVE x \in ToSet(Tail(q)) \cup {q[1]}
  <2>1. PICK i \in 1 .. n : x = q[i]
    BY <1>5
  <2>2. i = 1 \/ (i - 1 \in 1 .. n - 1 /\ i = (i - 1) + 1)
    BY <1>1
  <2> QED
    BY <1>4, <2>1, <2>2
<1>7. ASSUME NEW x \in ToSet(Tail(q)) \cup {q[1]} PROVE x \in ToSet(q)
  <2>1. \A i \in 1 .. n - 1 : i + 1 \in 1 .. n
    BY <1>1
  <2>2. 1 \in 1 .. n
    BY <1>1
  <2> QED
    BY <1>4, <1>5, <2>1, <2>2
<1> QED
  BY <1>3, <1>6, <1>7

(* The thread that priority_schedule takes is Ready.                       *)
LEMMA LastReadyIs ==
  ASSUME NEW q \in Seq(Slots), SomeReady(q)
  PROVE  LastReady(q) \in Ready /\ q # <<>>
<1> DEFINE I == {i \in 1 .. Len(q) : q[i] \in Ready}
<1>1. PICK n \in Nat : n = Len(q)
  OBVIOUS
<1>2. I \subseteq 1 .. n /\ I # {}
  BY <1>1 DEF SomeReady, ToSet
<1>3. Max(I) \in I
  <2> HIDE DEF I
  <2> QED
    BY <1>1, <1>2, MaxIs
<1>4. SelectLastInSeq(q, LAMBDA t : t \in Ready) = Max(I)
  BY <1>2 DEF SelectLastInSeq
<1>5. q[Max(I)] \in Ready /\ 1 <= Len(q)
  BY <1>3
<1> QED
  BY <1>4, <1>5 DEF LastReady

(* Who is promoted, and what is left to be done after slot k.              *)
Aging(S) ==
  /\ S \subseteq Slots
  /\ priority \in [Slots -> Priorities] /\ priorityQueues \in Queues
  /\ \A t \in Slots : priority[t] <= 0
  /\ \A t \in S : priority[t] > FirstPriority /\ (Listed(t) \/ priority[t] = 0)

AgedTo(queues, S, k) ==
  \A t \in Slots :
    /\ t \in S /\ t <= k => t \in ToSet(queues[priority[t] - 1])
    /\ ~(t \in S /\ t <= k) /\ Listed(t) => t \in ToSet(queues[priority[t]])

(* A promotion takes nobody out of a queue but the thread itself, unless   *)
(* the thread is not in the queue of its priority.                         *)
LEMMA PromotedIs ==
  ASSUME NEW S, Aging(S), NEW k \in S, NEW q \in Queues
  PROVE  /\ Promoted(q, k) \in Queues
         /\ \A i \in Priorities :
              \A x \in ToSet(q[i]) :
                i = priority[k] => x \in ToSet(Promoted(q, k)[i])
                                  \/ x = k \/ k \notin ToSet(q[i])
         /\ \A i \in Priorities \ {priority[k]} :
              ToSet(q[i]) \subseteq ToSet(Promoted(q, k)[i])
         /\ k \in ToSet(Promoted(q, k)[priority[k] - 1])
<1>1. PICK i \in Priorities : i = priority[k]
  BY DEF Aging
<1>2. i - 1 \in Priorities /\ i - 1 # i /\ k \in Slots
  BY <1>1, GThreadsAssumption DEF Aging, Priorities
<1>3. PICK mid : mid = [q EXCEPT ![i] = Removed(@, k)]
  OBVIOUS
<1>4. mid \in Queues /\ mid[i] = Removed(q[i], k) /\ \A j \in Priorities \ {i} : mid[j] = q[j]
  BY <1>2, <1>3, RemovedFrom DEF Queues
<1>5. Promoted(q, k) = [mid EXCEPT ![i - 1] = Append(@, k)]
  BY <1>1, <1>3 DEF Promoted
<1>6. /\ Append(mid[i - 1], k) \in Seq(Slots)
      /\ ToSet(Append(mid[i - 1], k)) = ToSet(q[i - 1]) \cup {k}
  <2>1. mid[i - 1] \in Seq(Slots) /\ mid[i - 1] = q[i - 1]
    BY <1>2, <1>4 DEF Queues
  <2> QED
    BY <1>2, <2>1, Appended
<1>7. /\ Promoted(q, k) \in Queues
      /\ Promoted(q, k)[i - 1] = Append(mid[i - 1], k)
      /\ \A j \in Priorities \ {i - 1} : Promoted(q, k)[j] = mid[j]
  BY <1>2, <1>4, <1>5, <1>6 DEF Queues
<1>8. k \in ToSet(q[i]) => ToSet(q[i]) \ {k} \subseteq ToSet(mid[i])
  BY <1>2, <1>4, RemovedFrom DEF Queues
<1> QED
  BY <1>1, <1>2, <1>4, <1>6, <1>7, <1>8

(* The promotion of slot k, after those of the slots before it.            *)
LEMMA AgedOne ==
  ASSUME NEW S, Aging(S), NEW k \in S, NEW q \in Queues, AgedTo(q, S, k - 1)
  PROVE  Promoted(q, k) \in Queues /\ AgedTo(Promoted(q, k), S, k)
<1>1. k \in Slots /\ k \in Int /\ priority[k] \in Int /\ priority[k] - 1 \in Int
  BY DEF Aging, Slots, Priorities
<1> DEFINE r == Promoted(q, k)
<1>2. ASSUME NEW t \in Slots, t \in S, t <= k
      PROVE  t \in ToSet(r[priority[t] - 1])
  <2>1. CASE t = k
    BY <2>1, PromotedIs
  <2>2. CASE t # k
    <3>1. t <= k - 1
      BY <1>1, <1>2, <2>2 DEF Slots
    <3>2. t \in ToSet(q[priority[t] - 1])
      BY <1>2, <3>1 DEF AgedTo
    <3>3. priority[t] - 1 \in Priorities
      BY <1>2, GThreadsAssumption DEF Aging, Priorities
    <3>4. CASE priority[t] - 1 # priority[k]
      BY <3>2, <3>3, <3>4, PromotedIs
    <3>5. CASE priority[t] - 1 = priority[k]
      <4>1. priority[k] # 0 /\ Listed(k)
        BY <1>1, <1>2, <3>5 DEF Aging, Priorities
      <4>2. k \in ToSet(q[priority[k]])
        BY <1>1, <4>1 DEF AgedTo
      <4> QED
        BY <2>2, <3>2, <3>3, <3>5, <4>2, PromotedIs
    <3> QED
      BY <3>4, <3>5
  <2> QED
    BY <2>1, <2>2
<1>3. ASSUME NEW t \in Slots, ~(t \in S /\ t <= k), Listed(t)
      PROVE  t \in ToSet(r[priority[t]])
  <2>1. t # k /\ ~(t \in S /\ t <= k - 1)
    BY <1>1, <1>3 DEF Slots
  <2>2. t \in ToSet(q[priority[t]]) /\ priority[t] \in Priorities /\ priority[t] # 0
    BY <1>3, <2>1 DEF AgedTo, Aging, Listed, Priorities
  <2>3. CASE priority[t] # priority[k]
    BY <2>2, <2>3, PromotedIs
  <2>4. CASE priority[t] = priority[k]
    <3>1. Listed(k)
      BY <2>2, <2>4 DEF Aging
    <3>2. k \in ToSet(q[priority[k]])
      BY <1>1, <3>1 DEF AgedTo
    <3> QED
      BY <2>1, <2>2, <2>4, <3>2, PromotedIs
  <2> QED
    BY <2>3, <2>4
<1> QED
  BY <1>2, <1>3, PromotedIs DEF AgedTo

(* After priority_age everyone promoted is in the next queue, and who was  *)
(* in the queue of his priority still is.                                  *)
LEMMA AgedAll ==
  ASSUME NEW S, Aging(S)
  PROVE  Aged(S) \in Queues /\ AgedTo(Aged(S), S, MaxGThreads - 1)
<1>1. \A q \in Queues : \A i \in S \cap Slots : Promoted(q, i) \in Queues
  BY PromotedIs
<1>2. priorityQueues \in Queues
  BY DEF Aging
<1>3. PICK N : N = MaxGThreads - 1
  OBVIOUS
<1>4. N \in Nat /\ Slots = 0 .. N
  BY <1>3, GThreadsAssumption DEF Slots
<1>5. PICK f \in [-1 .. N -> Queues] :
        /\ f[-1] = priorityQueues
        /\ \A i \in Slots :
             f[i] = IF i \in S THEN Promoted(f[i - 1], i) ELSE f[i - 1]
        /\ Aged(S) = f[N]
  <2>1. \E f \in [-1 .. N -> Queues] : AgedBy(f, S)
    BY <1>1, <1>2, <1>3, AgedIs
  <2> QED
    BY <1>3, <2>1 DEF AgedBy
<1>6. AgedTo(f[-1], S, -1)
  BY <1>4, <1>5 DEF AgedTo, Listed
<1> DEFINE Bad == {i \in 0 .. N : ~AgedTo(f[i], S, i)}
<1>7. Bad = {}
  <2> SUFFICES ASSUME Bad # {} PROVE FALSE
    OBVIOUS
  <2>1. PICK n \in Bad : \A k \in Bad : n <= k
    <3>1. Bad \subseteq Nat
      OBVIOUS
    <3> HIDE DEF Bad
    <3> QED
      BY <3>1, HasLeast
  <2>2. n \in Slots /\ n \in Int /\ ~AgedTo(f[n], S, n) /\ (n - 1 = -1 \/ n - 1 \in 0 .. N)
    BY <1>4
  <2>3. AgedTo(f[n - 1], S, n - 1) /\ f[n - 1] \in Queues
    <3>1. n - 1 \in 0 .. N => n - 1 \notin Bad
      BY <2>1, <2>2
    <3> QED
      BY <1>4, <1>5, <1>6, <2>2, <3>1
  <2>4. CASE n \in S
    BY <1>5, <2>2, <2>3, <2>4, AgedOne
  <2>5. CASE n \notin S
    <3>1. f[n] = f[n - 1]
      BY <1>5, <2>2, <2>5
    <3>2. \A t \in Slots : (t \in S /\ t <= n) <=> (t \in S /\ t <= n - 1)
      BY <2>2, <2>5 DEF Slots
    <3> QED
      BY <2>2, <2>3, <3>1, <3>2 DEF AgedTo
  <2> QED
    BY <2>4, <2>5
<1> QED
  BY <1>3, <1>4, <1>5, <1>7

-----------------------------------------------------------------------------
(* Facts about a stack of calls.                                           *)
LEMMA Popped ==
  ASSUME NEW s \in Seq(Call), s # <<>>
  PROVE  s[1] \in Call /\ Tail(s) \in Seq(Call)
<1>1. Len(s) \in Nat \ {0}
  BY EmptySeq
<1> QED
  BY <1>1, HeadTailProperties

(* A call on top of others.                                                *)
LEMMA Pushed ==
  ASSUME NEW s \in Seq(Call), NEW c \in Call
  PROVE  /\ <<c>> \o s \in Seq(Call) /\ <<c>> \o s # <<>>
         /\ (<<c>> \o s)[1] = c /\ Tail(<<c>> \o s) = s
<1>1. <<c>> \in Seq(Call) /\ Len(<<c>>) = 1 /\ <<c>>[1] = c
  OBVIOUS
<1>2. /\ <<c>> \o s \in Seq(Call) /\ Len(<<c>> \o s) = 1 + Len(s)
      /\ \A i \in 1 .. 1 + Len(s) :
           (<<c>> \o s)[i] = IF i <= 1 THEN <<c>>[i] ELSE s[i - 1]
  BY <1>1, ConcatProperties
<1>3. PICK t : t = <<c>> \o s
  OBVIOUS
<1>4. PICK n \in Nat : n = Len(s)
  OBVIOUS
<1>5. t \in Seq(Call) /\ Len(t) = 1 + n /\ t # <<>> /\ t[1] = c /\ \A i \in 1 .. n : t[i + 1] = s[i]
  BY <1>1, <1>2, <1>3, <1>4
<1>6. /\ Tail(t) \in Seq(Call) /\ Len(Tail(t)) = n
      /\ \A i \in 1 .. n : Tail(t)[i] = t[i + 1]
  <2>1. /\ Tail(t) \in Seq(Call) /\ Len(Tail(t)) = Len(t) - 1
        /\ \A i \in 1 .. Len(Tail(t)) : Tail(t)[i] = t[i + 1]
    BY <1>5, HeadTailProperties
  <2> QED
    BY <1>5, <2>1
<1>7. Tail(t) = s
  BY <1>4, <1>5, <1>6, SeqEqual
<1> QED
  BY <1>3, <1>5, <1>7

(* A call that begins.                                                     *)
LEMMA Fresh ==
  ASSUME NEW caller \in {"main", "end", "alarm"}
  PROVE  /\ Activation(caller) \in Call
         /\ Activation(caller).caller = caller /\ Activation(caller).at = "choose"
         /\ <<Activation(caller)>> \in Seq(Call)
         /\ <<Activation(caller)>> # <<>>
         /\ <<Activation(caller)>>[1] = Activation(caller)
         /\ Tail(<<Activation(caller)>>) = <<>>
<1>1. 0 \in Slots
  BY GThreadsAssumption DEF Slots
<1>2. Activation(caller) \in Call
  BY <1>1 DEF Activation, Call, Labels
<1> QED
  BY <1>2 DEF Activation

(* The calls on the stack the process is on, one of them still going on.   *)
LEMMA Outer ==
  ASSUME IInv, calls # <<>>
  PROVE  /\ Top \in Call /\ Tail(calls) \in Seq(Call)
         /\ CallsOf(Tail(calls), cpu)
         /\ Tail(calls) # <<>> => Tail(calls)[1].at = "choose"
         /\ Top.caller # "alarm" => Tail(calls) = <<>>
         /\ Top.caller = "main" => cpu = 0
         /\ Top.caller = "end" => Ended(cpu)
         /\ ~Ended(cpu) => Base(Tail(calls), cpu)
<1>1. Top \in Call /\ Tail(calls) \in Seq(Call)
  BY Popped DEF IInv, Types, Top
<1>2. CallsOf(calls, cpu)
  BY DEF IInv, Control
<1>3. ASSUME NEW cs, Waits(cs, "main") /\ cpu = 0
      PROVE  CallsOf(cs, cpu) /\ cs[1].at = "choose"
  BY <1>3 DEF CallsOf, Waits
<1>4. ASSUME NEW cs, Waits(cs, "end") /\ Ended(cpu)
      PROVE  CallsOf(cs, cpu) /\ cs[1].at = "choose"
  BY <1>4 DEF CallsOf, Waits
<1>5. CallsOf(<<>>, cpu)
  BY DEF CallsOf
<1>6. Top.caller \in {"main", "end", "alarm"}
  BY <1>1 DEF Call
<1> QED
  BY <1>1, <1>2, <1>3, <1>4, <1>5, <1>6 DEF CallsOf, Base, Top

(* The innermost call goes on.                                             *)
LEMMA GoesOn ==
  ASSUME IInv, calls # <<>>, NEW c, c \in Call, c.caller = Top.caller,
         calls' = <<c>> \o Tail(calls), cpu' = cpu,
         Ended(cpu) => Ended(cpu)'
  PROVE  /\ calls' \in Seq(Call) /\ calls' # <<>> /\ calls'[1] = c
         /\ Tail(calls') = Tail(calls)
         /\ CallsOf(calls, cpu)'
<1>1. /\ calls' \in Seq(Call) /\ calls' # <<>> /\ calls'[1] = c
      /\ Tail(calls') = Tail(calls)
  BY Outer, Pushed
<1>2. CallsOf(calls, cpu)
  BY DEF IInv, Control
<1> QED
  BY <1>1, <1>2 DEF CallsOf, Base, Ended, Top

-----------------------------------------------------------------------------
(* The steps.                                                              *)
LEMMA CreateStep ==
  ASSUME IInv, Create
  PROVE  IInv'
<1>1. PICK t \in Slots, i \in Priorities :
        /\ Least(Unused, t)
        /\ ctx' = [ctx EXCEPT ![t] = Context(t, <<>>)]
        /\ gt_state' = [gt_state EXCEPT ![t] = "Ready"]
        /\ priorityQueues' = IF schedulingAlg = "RP"
                               THEN [priorityQueues EXCEPT ![i] = Append(@, t)]
                               ELSE priorityQueues
  BY DEF Create
<1>2. /\ phase = "create" /\ cpu = 0 /\ calls = <<>> /\ Running = {0} /\ scheduled = {0}
      /\ UNCHANGED <<schedulingAlg, gt_current, priority, scheduled, armed, cpu,
                     calls, phase>>
  BY DEF Create, IInv, MainLives
<1>3. Ended(t) /\ t # 0 /\ t # cpu /\ t \notin Running
  BY <1>1, <1>2 DEF Least, Unused, Ended, IInv, MainLives, Running
<1>4. /\ \A s \in Slots : gt_state'[s] = IF s = t THEN "Ready" ELSE gt_state[s]
      /\ Running' = Running /\ Ready' = Ready \cup {t}
      /\ \A s \in Slots \ {t} : Ended(s)' = Ended(s) /\ ctx'[s] = ctx[s]
      /\ ctx'[t] = Context(t, <<>>)
  BY <1>1, <1>3 DEF IInv, Types, Running, Ready, Ended
<1>5. \A k \in Priorities : /\ priorityQueues'[k] \in Seq(Slots)
                            /\ ToSet(priorityQueues[k]) \subseteq ToSet(priorityQueues'[k])
  <2> TAKE k \in Priorities
  <2>1. priorityQueues \in Queues
    BY DEF IInv, Types
  <2>2. priorityQueues'[k] \in {priorityQueues[k], Append(priorityQueues[k], t)}
    BY <1>1, <2>1 DEF Queues
  <2>3. priorityQueues[k] \in Seq(Slots)
    BY <2>1 DEF Queues
  <2>4. /\ Append(priorityQueues[k], t) \in Seq(Slots)
        /\ ToSet(Append(priorityQueues[k], t)) = ToSet(priorityQueues[k]) \cup {t}
    BY <2>3, Appended
  <2> QED
    BY <2>2, <2>3, <2>4
<1>6. Types'
  <2>1. priorityQueues' \in Queues
    BY <1>1, <1>5 DEF IInv, Types, Queues
  <2>2. ctx' \in [Slots -> [stack : Slots \cup {NoStack}, calls : Seq(Call)]]
    <3>1. Context(t, <<>>) \in [stack : Slots \cup {NoStack}, calls : Seq(Call)]
      BY DEF Context
    <3> QED
      BY <1>1, <3>1 DEF IInv, Types
  <2>3. gt_state' \in [Slots -> States]
    BY <1>1 DEF IInv, Types, States
  <2> QED
    BY <1>2, <2>1, <2>2, <2>3 DEF IInv, Types
<1>7. Control'
  BY <1>2, <1>3, <1>4 DEF IInv, Control, CallsOf, InStep
<1>8. Resumable'
  <2> SUFFICES ASSUME NEW s \in Slots, ~Ended(s)', s # cpu'
               PROVE  (ctx[s].stack)' = s /\ Left((ctx[s].calls)', s)
    BY DEF Resumable, Left, Base
  <2>1. CASE s = t
    BY <1>4, <2>1 DEF Context, Left
  <2>2. CASE s # t
    BY <1>2, <1>4, <2>2 DEF IInv, Resumable
  <2> QED
    BY <2>1, <2>2
<1>9. MainLives'
  BY <1>2, <1>3, <1>4, GThreadsAssumption DEF IInv, MainLives, Slots
<1>10. Queued'
  BY <1>2, <1>3, <1>4, <1>5 DEF IInv, Types, Queued, Listed
<1>11. ExitsLast' /\ EndingIsFinal'
  BY <1>2 DEF ExitsLast, EndingIsFinal, EndsForGood
<1> QED
  BY <1>6, <1>7, <1>8, <1>9, <1>10, <1>11 DEF IInv

(* main enters gt_return.                                                  *)
LEMMA StartStep ==
  ASSUME IInv, Start
  PROVE  IInv'
<1>1. /\ phase = "create" /\ phase' = "run" /\ cpu = 0 /\ calls = <<>>
      /\ calls' = <<Activation("main")>>
      /\ UNCHANGED <<schedulingAlg, gt_state, gt_current, ctx, priority, scheduled,
                     priorityQueues, armed, cpu>>
  BY DEF Start, tableVars, rpVars, IInv, MainLives
<1>2. /\ calls' \in Seq(Call) /\ calls' # <<>> /\ calls'[1].caller = "main"
      /\ calls'[1].at = "choose" /\ Tail(calls') = <<>>
  BY <1>1, Fresh
<1>3. Types'
  BY <1>1, <1>2 DEF IInv, Types
<1>4. InStep' = InStep
  BY <1>1 DEF InStep, Running, Ready
<1>5. Control'
  BY <1>1, <1>2, <1>4 DEF IInv, Control, CallsOf, Top
<1>6. Resumable' /\ MainLives' /\ Queued'
  BY <1>1 DEF IInv, Resumable, MainLives, Queued, Listed, Ended, Left, Base, Running
<1>7. ExitsLast' /\ EndingIsFinal'
  BY <1>1 DEF ExitsLast, EndingIsFinal, EndsForGood
<1> QED
  BY <1>3, <1>5, <1>6, <1>7 DEF IInv

(* Somebody has been chosen.                                               *)
LEMMA Committed ==
  ASSUME IInv, At("choose"), NEW p \in Ready, NEW S, S \subseteq Slots, Commit(p, S),
         UNCHANGED <<schedulingAlg, gt_state, gt_current, ctx, cpu>>
  PROVE  /\ calls' \in Seq(Call) /\ scheduled' = scheduled \cup S \cup {p}
         /\ scheduled' \subseteq Slots
         /\ phase' = "run"
         /\ Control' /\ Resumable' /\ MainLives' /\ ExitsLast' /\ EndingIsFinal'
<1> DEFINE c == [Top EXCEPT !.at = "suspend", !.p = p]
<1>1. /\ phase = "run" /\ phase' = "run" /\ calls # <<>> /\ Top.at = "choose"
      /\ calls' = <<c>> \o Tail(calls) /\ scheduled' = scheduled \cup S \cup {p}
  BY DEF At, Commit
<1>2. c \in Call /\ c.caller = Top.caller /\ c.at = "suspend" /\ c.p = p
  BY <1>1, Outer DEF Call, Labels, Ready
<1> HIDE DEF c
<1>3. /\ calls' \in Seq(Call) /\ calls' # <<>> /\ calls'[1] = c /\ CallsOf(calls, cpu)'
  BY <1>1, <1>2, GoesOn DEF Ended
<1>4. InStep' /\ Ready' = Ready
  BY <1>1 DEF IInv, Control, InStep, Running, Ready
<1>5. Control'
  BY <1>1, <1>2, <1>3, <1>4 DEF Control, Top
<1>6. Resumable' /\ MainLives'
  BY <1>1 DEF IInv, Resumable, MainLives, Ended, Left, Base
<1> QED
  BY <1>1, <1>3, <1>5, <1>6 DEF ExitsLast, EndingIsFinal, EndsForGood, IInv, Types, Ready

(* There is nobody to choose.                                              *)
LEMMA Refused ==
  ASSUME IInv, At("choose"), NEW S, S \subseteq Slots, ReturnFalse(S),
         UNCHANGED <<schedulingAlg, gt_state, gt_current, ctx, cpu>>,
         Top.caller = "main" => \A t \in Slots \ {0} : Ended(t),
         Top.caller = "end" => schedulingAlg = "RP"
  PROVE  /\ calls' \in Seq(Call) /\ scheduled' = scheduled \cup S
         /\ scheduled' \subseteq Slots
         /\ phase' \in {"run", "exited", "assertion failed"}
         /\ Control' /\ Resumable' /\ MainLives' /\ ExitsLast' /\ EndingIsFinal'
<1>1. /\ phase = "run" /\ calls # <<>> /\ Top.at = "choose"
      /\ calls' = Tail(calls) /\ scheduled' = scheduled \cup S
      /\ Top.caller \in {"main", "end", "alarm"}
      /\ phase' = CASE Top.caller = "main"  -> "exited"
                    [] Top.caller = "end"   -> "assertion failed"
                    [] Top.caller = "alarm" -> phase
  BY Outer DEF At, ReturnFalse, Call
<1>2. /\ phase' \in {"run", "exited", "assertion failed"}
      /\ phase' = "exited" => Top.caller = "main"
      /\ phase' = "assertion failed" => Top.caller = "end"
  BY <1>1
<1>3. /\ calls' \in Seq(Call) /\ CallsOf(calls', cpu)
      /\ calls' # <<>> => calls'[1].at = "choose"
  BY <1>1, Outer
<1>4. InStep' /\ Ready' = Ready
  BY <1>1 DEF IInv, Control, InStep, Running, Ready
<1>5. CallsOf(calls, cpu)'
  BY <1>3 DEF CallsOf, Base, Ended
<1>6. Control'
  BY <1>1, <1>3, <1>4, <1>5 DEF Control, Top
<1>7. Resumable' /\ MainLives'
  BY <1>1, <1>2 DEF IInv, Resumable, MainLives, Ended, Left, Base
<1>8. ExitsLast' /\ EndingIsFinal'
  BY <1>2 DEF ExitsLast, EndingIsFinal, EndsForGood, Ended
<1> QED
  BY <1>1, <1>2, <1>3, <1>6, <1>7, <1>8 DEF IInv, Types

(* The choice of round robin.                                              *)
LEMMA RoundRobinStep ==
  ASSUME IInv, ChooseRoundRobin
  PROVE  IInv'
<1>1. /\ At("choose") /\ schedulingAlg = "RR" /\ armed' = TRUE
      /\ UNCHANGED <<schedulingAlg, gt_state, gt_current, ctx, priority,
                     priorityQueues, cpu>>
  BY DEF ChooseRoundRobin, Arm, tableVars
<1> DEFINE Kept ==
             /\ calls' \in Seq(Call) /\ scheduled' \subseteq Slots
             /\ phase' \in {"run", "exited", "assertion failed"}
             /\ Control' /\ Resumable' /\ MainLives' /\ ExitsLast' /\ EndingIsFinal'
<1>2. Kept
  <2>1. CASE Ready = {} /\ ReturnFalse({})
    <3>1. InStep /\ calls # <<>>
      BY <1>1 DEF IInv, Control, At
    <3>2. \A t \in Slots \ {gt_current} : Ended(t)
      BY <2>1, <3>1 DEF IInv, Types, States, InStep, Running, Ready, Ended
    <3>3. Top.caller = "main" => \A t \in Slots \ {0} : Ended(t)
      BY <3>1, <3>2, Outer DEF InStep
    <3>4. Top.caller # "end"
      <4>1. 0 \in Slots /\ ~Ended(0)
        BY GThreadsAssumption DEF Slots, IInv, MainLives
      <4> QED
        BY <3>1, <3>2, <4>1, Outer DEF InStep
    <3>5. {} \subseteq Slots
      OBVIOUS
    <3> QED
      BY <1>1, <2>1, <3>3, <3>4, <3>5, Refused
  <2>2. ASSUME NEW p \in RoundRobinChoice, Commit(p, {})
        PROVE  Kept
    <3>1. p \in Ready /\ {} \subseteq Slots
      BY <2>2 DEF RoundRobinChoice
    <3> QED
      BY <1>1, <2>2, <3>1, Committed
  <2> QED
    BY <2>1, <2>2 DEF ChooseRoundRobin
<1>3. Types'
  BY <1>1, <1>2 DEF IInv, Types
<1>4. Queued'
  BY <1>1 DEF Queued
<1> QED
  BY <1>2, <1>3, <1>4 DEF IInv

(* The choice of the lottery.                                              *)
LEMMA LotteryStep ==
  ASSUME IInv, ChooseLottery
  PROVE  IInv'
<1>1. /\ At("choose") /\ schedulingAlg = "LOT" /\ armed' = TRUE
      /\ UNCHANGED <<schedulingAlg, gt_state, gt_current, ctx, priority,
                     priorityQueues, cpu>>
  BY DEF ChooseLottery, Arm, tableVars
<1> DEFINE Kept ==
             /\ calls' \in Seq(Call) /\ scheduled' \subseteq Slots
             /\ phase' \in {"run", "division by zero"}
             /\ Control' /\ Resumable' /\ MainLives' /\ ExitsLast' /\ EndingIsFinal'
<1>2. Kept
  <2>1. CASE phase' = "division by zero" /\ UNCHANGED <<calls, scheduled>>
    <3>1. Control' /\ Resumable'
      BY <1>1, <2>1, ZenonT(30)
         DEF IInv, Control, CallsOf, Base, InStep, Running, Ready, Ended, Top, Resumable,
         Left
    <3>2. MainLives' /\ ExitsLast' /\ EndingIsFinal'
      BY <1>1, <2>1 DEF IInv, MainLives, ExitsLast, EndingIsFinal, EndsForGood, Ended
    <3> QED
      BY <2>1, <3>1, <3>2 DEF IInv, Types
  <2>2. ASSUME NEW p \in LotteryChoice, Commit(p, {})
        PROVE  Kept
    <3>1. p \in Ready /\ {} \subseteq Slots
      BY <2>2 DEF LotteryChoice
    <3> QED
      BY <1>1, <2>2, <3>1, Committed
  <2> QED
    BY <2>1, <2>2 DEF ChooseLottery
<1>3. Types'
  BY <1>1, <1>2 DEF IInv, Types
<1>4. Queued'
  BY <1>1 DEF Queued
<1> QED
  BY <1>2, <1>3, <1>4 DEF IInv

(* After aging, whoever lives and is not running is in the queue of its    *)
(* priority, main only when it has been promoted.                          *)
LEMMA AllListed ==
  ASSUME IInv, schedulingAlg = "RP", At("choose"),
         NEW S, S \subseteq {t \in Slots : Promotable(t)},
         \A t \in Slots \ scheduled : Promotable(t) => t \in S,
         priority' = [t \in Slots |-> IF t \in S THEN priority[t] - 1 ELSE priority[t]]
  PROVE  /\ Aged(S) \in Queues
         /\ priority' \in [Slots -> Priorities]
         /\ \A t \in Slots : priority'[t] <= 0
         /\ \A t \in scheduled \cup S \cup Ready :
              \/ Ended(t) \/ (t = 0 /\ priority'[t] = 0)
              \/ priority'[t] < 0 /\ t \in ToSet(Aged(S)[priority'[t]])
         /\ \A t \in Slots \ (scheduled \cup S) : priority'[t] = 0
<1>1. InStep
  BY DEF IInv, Control, At
<1>2. Aging(S)
  <2>1. \A t \in Slots : priority[t] <= 0
    BY DEF IInv, Queued
  <2>2. ASSUME NEW t \in S
        PROVE  priority[t] > FirstPriority /\ (Listed(t) \/ priority[t] = 0)
    <3>1. t \in Ready /\ priority[t] > FirstPriority /\ t \in Slots
      BY DEF Promotable, Ready
    <3>2. ~Ended(t)
      BY <3>1 DEF Ready, Ended
    <3> QED
      BY <3>1, <3>2 DEF IInv, Queued
  <2> QED
    BY <2>1, <2>2 DEF Aging, IInv, Types
<1>3. Aged(S) \in Queues /\ AgedTo(Aged(S), S, MaxGThreads - 1)
  BY <1>2, AgedAll
<1>4. \A t \in Slots : /\ t <= MaxGThreads - 1
                       /\ priority'[t] = IF t \in S THEN priority[t] - 1 ELSE priority[t]
                       /\ priority[t] \in Priorities /\ priority[t] <= 0
  BY <1>2, GThreadsAssumption DEF Slots, Aging
<1>5. \A t \in Slots : priority'[t] \in Priorities /\ priority'[t] <= 0
                       /\ (t \in S => priority'[t] < 0)
  BY <1>2, <1>4, GThreadsAssumption DEF Aging, Priorities
<1>6. \A t \in Slots : t \in S => t \in ToSet(Aged(S)[priority'[t]])
  BY <1>3, <1>4 DEF AgedTo
<1>7. \A t \in Slots \ S : Listed(t) => t \in ToSet(Aged(S)[priority'[t]])
  BY <1>3, <1>4 DEF AgedTo
<1>8. ASSUME NEW t \in Ready PROVE t \in scheduled \cup S
  <2>1. t \in Slots /\ t # gt_current
    BY <1>1 DEF InStep, Ready
  <2>2. CASE t \notin scheduled
    <3>1. priority[t] = 0
      BY <2>1, <2>2 DEF IInv, Queued
    <3>2. Promotable(t)
      BY <2>1, <3>1, GThreadsAssumption DEF Promotable
    <3> QED
      BY <2>1, <2>2, <3>2
  <2> QED
    BY <2>2
<1>9. ASSUME NEW t \in scheduled \cup S
      PROVE  \/ Ended(t) \/ (t = 0 /\ priority'[t] = 0)
             \/ priority'[t] < 0 /\ t \in ToSet(Aged(S)[priority'[t]])
  <2>1. t \in Slots
    BY DEF IInv, Types
  <2>2. CASE t \in S
    BY <1>5, <1>6, <2>1, <2>2
  <2>3. CASE t \notin S
    <3>1. Ended(t) \/ Listed(t) \/ (t = 0 /\ priority[t] = 0)
      BY <2>3 DEF IInv, Queued
    <3> QED
      BY <1>4, <1>7, <2>1, <2>3, <3>1 DEF Listed
  <2> QED
    BY <2>2, <2>3
<1>10. \A t \in Slots \ (scheduled \cup S) : priority'[t] = 0
  BY <1>4 DEF IInv, Queued
<1>11. priority' \in [Slots -> Priorities]
  BY <1>4, <1>5
<1> QED
  BY <1>3, <1>5, <1>8, <1>9, <1>10, <1>11

(* The choice by priorities, with aging and rotation.                      *)
LEMMA PriorityStep ==
  ASSUME IInv, ChoosePriority
  PROVE  IInv'
<1>1. /\ At("choose") /\ schedulingAlg = "RP" /\ armed' = TRUE
      /\ UNCHANGED <<schedulingAlg, gt_state, gt_current, ctx, cpu>>
  BY DEF ChoosePriority, Arm, tableVars
<1>2. PICK S \in SUBSET {t \in Slots : Promotable(t)} :
        /\ \A t \in Slots \ scheduled : Promotable(t) => t \in S
        /\ priority' = [t \in Slots |-> IF t \in S THEN priority[t] - 1 ELSE priority[t]]
        /\ \E queues \in {Aged(S)} :
            \/ \E i \in Priorities :
                 /\ Least({k \in Priorities : SomeReady(queues[k])}, i)
                 /\ priorityQueues' = [queues EXCEPT ![i] = Rotated(@)]
                 /\ IF LastReady(queues[i]) = gt_current
                      THEN ReturnFalse(S)
                      ELSE Commit(LastReady(queues[i]), S)
            \/ /\ \A i \in Priorities : ~SomeReady(queues[i])
               /\ priorityQueues' = queues
               /\ ReturnFalse(S)
  BY DEF ChoosePriority
<1>3. PICK qs : qs = Aged(S)
  OBVIOUS
<1>4. /\ qs \in Queues
      /\ priority' \in [Slots -> Priorities]
      /\ \A t \in Slots : priority'[t] <= 0
      /\ \A t \in scheduled \cup S \cup Ready :
           \/ Ended(t) \/ (t = 0 /\ priority'[t] = 0)
           \/ priority'[t] < 0 /\ t \in ToSet(qs[priority'[t]])
      /\ \A t \in Slots \ (scheduled \cup S) : priority'[t] = 0
  BY <1>1, <1>2, <1>3, AllListed
<1>5. InStep /\ calls # <<>> /\ S \subseteq Slots
  BY <1>1 DEF IInv, Control, At
<1> DEFINE Kept ==
       /\ priorityQueues' \in Queues
       /\ \A k \in Priorities : ToSet(priorityQueues'[k]) = ToSet(qs[k])
       /\ \E R \in SUBSET Ready : scheduled' = scheduled \cup S \cup R
       /\ calls' \in Seq(Call) /\ scheduled' \subseteq Slots
       /\ phase' \in {"run", "exited", "assertion failed"}
       /\ Control' /\ Resumable' /\ MainLives' /\ ExitsLast' /\ EndingIsFinal'
<1>6. Kept
  <2>1. ASSUME NEW i \in Priorities, SomeReady(qs[i]),
               priorityQueues' = [qs EXCEPT ![i] = Rotated(@)],
               IF LastReady(qs[i]) = gt_current THEN ReturnFalse(S)
                                                ELSE Commit(LastReady(qs[i]), S)
        PROVE  Kept
    <3>1. qs[i] \in Seq(Slots)
      BY <1>4 DEF Queues
    <3>2. PICK p \in Ready : p = LastReady(qs[i])
      BY <2>1, <3>1, LastReadyIs
    <3>3. Rotated(qs[i]) \in Seq(Slots) /\ ToSet(Rotated(qs[i])) = ToSet(qs[i])
      BY <2>1, <3>1, LastReadyIs, RotatedIs
    <3>4. /\ priorityQueues' \in Queues
          /\ \A k \in Priorities : ToSet(priorityQueues'[k]) = ToSet(qs[k])
      BY <1>4, <2>1, <3>3 DEF Queues
    <3>5. Commit(p, S)
      BY <1>5, <2>1, <3>2 DEF InStep
    <3>6. /\ calls' \in Seq(Call) /\ scheduled' = scheduled \cup S \cup {p}
          /\ scheduled' \subseteq Slots
          /\ phase' = "run"
          /\ Control' /\ Resumable' /\ MainLives' /\ ExitsLast' /\ EndingIsFinal'
      BY <1>1, <1>5, <3>5, Committed
    <3> QED
      BY <3>4, <3>6
  <2>2. ASSUME \A i \in Priorities : ~SomeReady(qs[i]), priorityQueues' = qs,
               ReturnFalse(S)
        PROVE  Kept
    <3>1. \A t \in Slots \ {0} : t \notin Ready
      <4> SUFFICES ASSUME NEW t \in Slots \ {0}, t \in Ready PROVE FALSE
        OBVIOUS
      <4>1. priority'[t] \in Priorities /\ t \in ToSet(qs[priority'[t]])
        BY <1>4 DEF Ready, Ended
      <4> QED
        BY <2>2, <4>1 DEF SomeReady
    <3>2. Top.caller = "main" => \A t \in Slots \ {0} : Ended(t)
      BY <1>5, <3>1, Outer DEF InStep, Running, Ready, Ended, IInv, Types, States
    <3>3. /\ calls' \in Seq(Call) /\ scheduled' = scheduled \cup S
          /\ scheduled' \subseteq Slots
          /\ phase' \in {"run", "exited", "assertion failed"}
          /\ Control' /\ Resumable' /\ MainLives' /\ ExitsLast' /\ EndingIsFinal'
      BY <1>1, <1>5, <2>2, <3>2, Refused
    <3>4. {} \in SUBSET Ready /\ scheduled' = scheduled \cup S \cup {}
      BY <3>3
    <3> QED
      BY <1>4, <2>2, <3>3, <3>4
  <2> QED
    BY <1>2, <1>3, <2>1, <2>2 DEF Least
<1>7. Types'
  BY <1>1, <1>4, <1>6 DEF IInv, Types
<1>8. Queued'
  <2>1. 0 \in scheduled'
    BY <1>1, <1>6 DEF IInv, Queued
  <2>2. \A t \in scheduled' : Ended(t)' \/ Listed(t)' \/ (t = 0 /\ priority'[t] = 0)
    <3> SUFFICES ASSUME NEW t \in scheduled'
                 PROVE  Ended(t)' \/ Listed(t)' \/ (t = 0 /\ priority'[t] = 0)
      OBVIOUS
    <3>1. t \in scheduled \cup S \cup Ready /\ t \in Slots
      BY <1>6
    <3>2. Ended(t)' = Ended(t)
      BY <1>1 DEF Ended
    <3>3. priority'[t] \in Priorities
      BY <1>4, <3>1
    <3> QED
      BY <1>4, <1>6, <3>1, <3>2, <3>3 DEF Listed
  <2>3. \A t \in Slots \ scheduled' : t \notin Running' /\ priority'[t] = 0
    <3>1. Running' = Running
      BY <1>1 DEF Running
    <3> QED
      BY <1>1, <1>4, <1>6, <3>1 DEF IInv, Queued
  <2> QED
    BY <1>4, <2>1, <2>2, <2>3 DEF Queued
<1> QED
  BY <1>6, <1>7, <1>8 DEF IInv

(* The thread that is left is Ready again, or stays ended.                 *)
LEMMA SuspendStep ==
  ASSUME IInv, Suspend
  PROVE  IInv'
<1> DEFINE c == [Top EXCEPT !.at = "run"]
<1>1. /\ phase = "run" /\ calls # <<>> /\ Top.at = "suspend"
      /\ gt_state' = [gt_state EXCEPT ![gt_current] =
                        IF @ = "Unused" THEN @ ELSE "Ready"]
      /\ calls' = <<c>> \o Tail(calls)
      /\ UNCHANGED <<schedulingAlg, gt_current, ctx, priority, scheduled,
                     priorityQueues, armed, cpu, phase>>
  BY DEF Suspend, At, Goto, rpVars
<1>2. c \in Call /\ c.caller = Top.caller /\ c.at = "run" /\ c.p = Top.p
  BY <1>1, Outer DEF Call, Labels
<1> HIDE DEF c
<1>3. InStep /\ Top.p \in Ready \cap scheduled
  BY <1>1 DEF IInv, Control
<1>4. /\ \A t \in Slots : Ended(t)' = Ended(t)
      /\ Running' = {} /\ Ready \subseteq Ready'
  BY <1>1, <1>3 DEF IInv, Types, InStep, Running, Ready, Ended
<1>5. cpu \in Slots
  BY DEF IInv, Types
<1>6. calls' \in Seq(Call) /\ calls' # <<>> /\ calls'[1] = c /\ CallsOf(calls, cpu)'
  BY <1>1, <1>2, <1>4, <1>5, GoesOn DEF Ended
<1>7. gt_state' \in [Slots -> States]
  BY <1>1 DEF IInv, Types, States
<1>8. Types'
  BY <1>1, <1>6, <1>7 DEF IInv, Types
<1>9. Control'
  BY <1>1, <1>2, <1>3, <1>4, <1>6 DEF Control, Top, InStep
<1>10. Resumable' /\ MainLives'
  <2>1. 0 \in Slots
    BY GThreadsAssumption DEF Slots
  <2> QED
    BY <1>1, <1>4, <2>1 DEF IInv, Resumable, MainLives, Left, Base
<1>11. Queued'
  BY <1>1, <1>4 DEF IInv, Types, Queued, Listed
<1>12. ExitsLast' /\ EndingIsFinal'
  BY <1>1 DEF ExitsLast, EndingIsFinal, EndsForGood
<1> QED
  BY <1>8, <1>9, <1>10, <1>11, <1>12 DEF IInv

(* The chosen thread is marked Running.                                    *)
LEMMA RunStep ==
  ASSUME IInv, Run
  PROVE  IInv'
<1> DEFINE c == [Top EXCEPT !.at = "current", !.old = gt_current]
<1>1. /\ phase = "run" /\ calls # <<>> /\ Top.at = "run"
      /\ gt_state' = [gt_state EXCEPT ![Top.p] = "Running"]
      /\ calls' = <<c>> \o Tail(calls)
      /\ UNCHANGED <<schedulingAlg, gt_current, ctx, priority, scheduled,
                     priorityQueues, armed, cpu, phase>>
  BY DEF Run, At, rpVars
<1>2. c \in Call /\ c.caller = Top.caller /\ c.at = "current" /\ c.p = Top.p
      /\ c.old = gt_current
  BY <1>1, Outer DEF Call, Labels, IInv, Types
<1> HIDE DEF c
<1>3. Top.p \in Ready \cap scheduled /\ cpu = gt_current /\ Running = {} /\ Top.p # cpu
  BY <1>1 DEF IInv, Control
<1>4. /\ \A t \in Slots : Ended(t)' = Ended(t)
      /\ Running' = {Top.p}
  BY <1>1, <1>3 DEF IInv, Types, Running, Ready, Ended
<1>5. cpu \in Slots
  BY DEF IInv, Types
<1>6. calls' \in Seq(Call) /\ calls' # <<>> /\ calls'[1] = c /\ CallsOf(calls, cpu)'
  BY <1>1, <1>2, <1>4, <1>5, GoesOn DEF Ended
<1>7. gt_state' \in [Slots -> States]
  BY <1>1 DEF IInv, Types, States
<1>8. Types'
  BY <1>1, <1>6, <1>7 DEF IInv, Types
<1>9. Control'
  BY <1>1, <1>2, <1>3, <1>4, <1>6 DEF Control, Top
<1>10. Resumable' /\ MainLives'
  <2>1. 0 \in Slots
    BY GThreadsAssumption DEF Slots
  <2> QED
    BY <1>1, <1>4, <2>1 DEF IInv, Resumable, MainLives, Left, Base
<1>11. Queued'
  BY <1>1, <1>3, <1>4 DEF IInv, Types, Queued, Listed
<1>12. ExitsLast' /\ EndingIsFinal'
  BY <1>1 DEF ExitsLast, EndingIsFinal, EndsForGood
<1> QED
  BY <1>8, <1>9, <1>10, <1>11, <1>12 DEF IInv

(* The chosen thread becomes current.                                      *)
LEMMA SetCurrentStep ==
  ASSUME IInv, SetCurrent
  PROVE  IInv'
<1> DEFINE c == [Top EXCEPT !.at = "switch"]
<1>1. /\ phase = "run" /\ calls # <<>> /\ Top.at = "current"
      /\ gt_current' = Top.p
      /\ calls' = <<c>> \o Tail(calls)
      /\ UNCHANGED <<schedulingAlg, gt_state, ctx, priority, scheduled,
                     priorityQueues, armed, cpu, phase>>
  BY DEF SetCurrent, At, Goto, rpVars
<1>2. c \in Call /\ c.caller = Top.caller /\ c.at = "switch" /\ c.p = Top.p
      /\ c.old = Top.old /\ Top.p \in Slots
  BY <1>1, Outer DEF Call, Labels
<1> HIDE DEF c
<1>3. Top.old = cpu /\ Running = {Top.p} /\ Top.p # cpu
  BY <1>1 DEF IInv, Control
<1>4. calls' \in Seq(Call) /\ calls' # <<>> /\ calls'[1] = c /\ CallsOf(calls, cpu)'
  BY <1>1, <1>2, GoesOn DEF Ended
<1>5. Types'
  BY <1>1, <1>2, <1>4 DEF IInv, Types
<1>6. Control'
  <2>1. Running' = Running
    BY <1>1 DEF Running
  <2> QED
    BY <1>1, <1>2, <1>3, <1>4, <2>1 DEF Control, Top
<1>7. Resumable' /\ MainLives' /\ Queued' /\ ExitsLast' /\ EndingIsFinal'
  BY <1>1 DEF IInv, Resumable, MainLives, Left, Base, Ended, Queued, Listed, Running,
     ExitsLast, EndingIsFinal, EndsForGood
<1> QED
  BY <1>5, <1>6, <1>7 DEF IInv

(* gt_switch saves one context and continues with another.                 *)
LEMMA SwitchStep ==
  ASSUME IInv, Switch
  PROVE  IInv'
<1>1. /\ phase = "run" /\ calls # <<>> /\ Top.at = "switch"
      /\ UNCHANGED <<schedulingAlg, gt_state, gt_current, priority, scheduled,
                     priorityQueues, armed, phase>>
  BY DEF Switch, At, rpVars
<1>2. /\ Top.old = cpu /\ Running = {Top.p} /\ Top.p # cpu /\ gt_current = Top.p
      /\ cpu \in Slots /\ Top.p \in Slots /\ Top \in Call
  BY <1>1, Outer DEF IInv, Types, Control, Call
<1>3. PICK c : c = [Activation(Top.caller) EXCEPT !.at = "return"]
  OBVIOUS
<1>4. c \in Call /\ c.caller = Top.caller /\ c.at = "return"
  BY <1>2, <1>3, Fresh DEF Call, Labels
<1>5. PICK cs : cs = <<c>> \o Tail(calls)
  OBVIOUS
<1>6. cs \in Seq(Call) /\ cs # <<>> /\ cs[1] = c /\ Tail(cs) = Tail(calls)
  BY <1>1, <1>4, <1>5, Outer, Pushed
<1>7. PICK saved : saved = [ctx EXCEPT ![cpu] = Context(cpu, cs)]
  OBVIOUS
<1>8. ctx' = saved /\ cpu' = saved[Top.p].stack /\ calls' = saved[Top.p].calls
  BY <1>2, <1>3, <1>5, <1>7 DEF Switch
<1>9. /\ ctx' \in [Slots -> [stack : Slots \cup {NoStack}, calls : Seq(Call)]]
      /\ ctx'[cpu] = Context(cpu, cs)
      /\ \A t \in Slots \ {cpu} : ctx'[t] = ctx[t]
  <2>1. Context(cpu, cs) \in [stack : Slots \cup {NoStack}, calls : Seq(Call)]
    BY <1>2, <1>6 DEF Context
  <2> QED
    BY <1>2, <1>7, <1>8, <2>1 DEF IInv, Types
<1>10. /\ cpu' = Top.p /\ calls' = ctx[Top.p].calls
       /\ Left(ctx[Top.p].calls, Top.p)
  <2>1. ~Ended(Top.p)
    BY <1>2 DEF Running, Ended
  <2> QED
    BY <1>2, <1>8, <1>9, <2>1 DEF IInv, Resumable
<1>11. calls' \in Seq(Call)
  BY <1>2, <1>10 DEF IInv, Types
<1>12. Types'
  BY <1>1, <1>2, <1>9, <1>10, <1>11 DEF IInv, Types
<1>13. Left(calls', cpu')
  BY <1>10
<1>14. InStep'
  BY <1>1, <1>2, <1>10 DEF InStep, Running, Ready
<1>15. Control'
  BY <1>13, <1>14 DEF Control, Left, CallsOf, Base, Top
<1>16. Resumable'
  <2> SUFFICES ASSUME NEW t \in Slots, ~Ended(t)', t # cpu'
               PROVE  ctx'[t].stack = t /\ Left(ctx'[t].calls, t)
    BY DEF Resumable, Left, Base
  <2>1. ~Ended(t)
    BY <1>1 DEF Ended
  <2>2. CASE t = cpu
    <3>1. Left(cs, cpu)
      BY <1>1, <1>2, <1>4, <1>6, <2>1, <2>2, Outer DEF Left, Call
    <3> QED
      BY <1>9, <2>2, <3>1 DEF Context
  <2>3. CASE t # cpu
    BY <1>9, <2>1, <2>3 DEF IInv, Resumable
  <2> QED
    BY <2>2, <2>3
<1>17. MainLives' /\ Queued' /\ ExitsLast' /\ EndingIsFinal'
  BY <1>1 DEF IInv, MainLives, Ended, Queued, Listed, Running, ExitsLast,
     EndingIsFinal, EndsForGood
<1> QED
  BY <1>12, <1>15, <1>16, <1>17 DEF IInv

(* A call of gt_schedule comes back.                                       *)
LEMMA ReturnStep ==
  ASSUME IInv, Return
  PROVE  IInv'
<1>1. /\ phase = "run" /\ calls # <<>> /\ Top.at = "return"
      /\ calls' = IF Top.caller = "main" THEN <<Activation("main")>> \o Tail(calls)
                                         ELSE Tail(calls)
      /\ phase' = IF Top.caller = "end" THEN "assertion failed" ELSE phase
      /\ UNCHANGED <<schedulingAlg, gt_state, gt_current, ctx, priority, scheduled,
                     priorityQueues, armed, cpu>>
  BY DEF Return, At, rpVars, tableVars
<1>2. InStep /\ Top.caller # "end"
  BY <1>1 DEF IInv, Control
<1>3. InStep'
  BY <1>1, <1>2 DEF InStep, Running, Ready
<1>4. /\ calls' \in Seq(Call) /\ CallsOf(calls', cpu)
      /\ calls' # <<>> => calls'[1].at = "choose"
  <2>1. CASE Top.caller = "main"
    <3>1. Tail(calls) = <<>> /\ cpu = 0 /\ calls' = <<Activation("main")>> \o Tail(calls)
      BY <1>1, <2>1, Outer
    <3>2. /\ calls' \in Seq(Call) /\ calls' # <<>> /\ calls'[1] = Activation("main")
          /\ Tail(calls') = <<>>
      <4>1. Activation("main") \in Call /\ Tail(calls) \in Seq(Call)
        BY <1>1, Fresh, Outer
      <4> QED
        BY <3>1, <4>1, Pushed
    <3> QED
      BY <3>1, <3>2, Fresh DEF CallsOf
  <2>2. CASE Top.caller # "main"
    BY <1>1, <2>2, Outer
  <2> QED
    BY <2>1, <2>2
<1>5. CallsOf(calls, cpu)'
  BY <1>1, <1>4 DEF CallsOf, Base, Ended
<1>6. Control'
  BY <1>3, <1>4, <1>5 DEF Control, Top
<1>7. Types'
  BY <1>1, <1>2, <1>4 DEF IInv, Types
<1>8. Resumable' /\ MainLives' /\ Queued' /\ ExitsLast' /\ EndingIsFinal'
  BY <1>1, <1>2 DEF IInv, Resumable, MainLives, Left, Base, Ended, Queued, Listed,
     Running, ExitsLast, EndingIsFinal, EndsForGood
<1> QED
  BY <1>6, <1>7, <1>8 DEF IInv

(* A thread function returns.                                              *)
LEMMA EndStep ==
  ASSUME IInv, End
  PROVE  IInv'
<1>1. /\ phase = "run" /\ calls = <<>>
      /\ UNCHANGED <<schedulingAlg, gt_current, ctx, priority, scheduled,
                     priorityQueues, armed, cpu, phase>>
  BY DEF End, rpVars
<1>2. InStep /\ gt_current \in Slots
  BY <1>1 DEF IInv, Types, Control
<1>3. /\ gt_state' \in [Slots -> States]
      /\ \A t \in Slots : Ended(t)' = (Ended(t) \/ (t = gt_current /\ t # 0))
      /\ InStep' /\ Running' \subseteq Running
  BY <1>1, <1>2 DEF End, IInv, Types, States, InStep, Running, Ready, Ended
<1>4. /\ calls' \in Seq(Call) /\ calls' # <<>> /\ calls'[1].at = "choose"
      /\ Tail(calls') = <<>>
      /\ \/ calls'[1].caller = "main" /\ cpu' = 0
         \/ calls'[1].caller = "end" /\ Ended(cpu)'
  <2>1. CASE gt_current = 0
    BY <1>1, <1>2, <2>1, Fresh DEF End, InStep
  <2>2. CASE gt_current # 0
    <3>1. calls' = <<Activation("end")>> /\ cpu' = gt_current
          /\ gt_state' = [gt_state EXCEPT ![gt_current] = "Unused"]
      BY <1>1, <1>2, <2>2 DEF End, InStep
    <3>2. Ended(cpu)'
      BY <1>2, <3>1 DEF Ended, IInv, Types
    <3> QED
      BY <3>1, <3>2, Fresh
  <2> QED
    BY <2>1, <2>2
<1>5. Control'
  BY <1>3, <1>4 DEF Control, CallsOf, Top
<1>6. Types'
  BY <1>1, <1>3, <1>4 DEF IInv, Types
<1>7. Resumable'
  BY <1>1, <1>3 DEF IInv, Resumable, Left, Base
<1>8. MainLives'
  <2>1. 0 \in Slots
    BY GThreadsAssumption DEF Slots
  <2> QED
    BY <1>1, <1>3, <2>1 DEF IInv, MainLives
<1>9. Queued'
  BY <1>1, <1>3 DEF IInv, Types, Queued, Listed
<1>10. ExitsLast' /\ EndingIsFinal'
  BY <1>1 DEF ExitsLast, EndingIsFinal, EndsForGood
<1> QED
  BY <1>5, <1>6, <1>7, <1>8, <1>9, <1>10 DEF IInv

(* The alarm strikes outside gt_schedule or in a call that has not chosen. *)
LEMMA AlarmStep ==
  ASSUME Nesting = 0, IInv, Alarm
  PROVE  IInv'
<1>1. /\ phase = "run" /\ ~Blocked /\ Cardinality(LateCalls) <= 0
      /\ calls' = <<Activation("alarm")>> \o calls
      /\ UNCHANGED <<schedulingAlg, gt_state, gt_current, ctx, priority, scheduled,
                     priorityQueues, armed, cpu, phase>>
  BY DEF Alarm, rpVars, tableVars
<1>2. calls \in Seq(Call) /\ DOMAIN calls = 1 .. Len(calls) /\ Len(calls) \in Nat
  <2>1. calls \in Seq(Call)
    BY DEF IInv, Types
  <2> QED
    BY <2>1, LenProperties
<1>3. LateCalls = {}
  <2>1. IsFiniteSet(1 .. Len(calls))
    BY <1>2, FS_Interval
  <2>2. LateCalls \subseteq 1 .. Len(calls)
    BY <1>2 DEF LateCalls
  <2>3. IsFiniteSet(LateCalls)
    BY <2>1, <2>2, FS_Subset
  <2>4. Cardinality(LateCalls) = 0
    BY <1>1, <2>3, FS_CardinalityType
  <2> QED
    BY <2>3, <2>4, FS_EmptySet
<1>4. ASSUME calls # <<>>
      PROVE  /\ Top.at = "choose" /\ Top.caller # "alarm"
             /\ Tail(calls) = <<>> /\ (Top.caller = "main" => cpu = 0)
             /\ (Top.caller = "end" => Ended(cpu))
  <2>1. 1 \in DOMAIN calls
    BY <1>2, <1>4, EmptySeq
  <2>2. Top.at = "choose"
    BY <1>3, <2>1 DEF LateCalls, Top
  <2> QED
    BY <1>1, <1>4, <2>2, Outer DEF Blocked, At
<1>5. InStep
  BY <1>4 DEF IInv, Control
<1>6. /\ calls' \in Seq(Call) /\ calls' # <<>> /\ calls'[1] = Activation("alarm")
      /\ Tail(calls') = calls
  BY <1>1, <1>2, Fresh, Pushed
<1>7. Base(calls, cpu) \/ (Waits(calls, "end") /\ Ended(cpu))
  <2>1. calls # <<>> => Top.caller \in {"main", "end", "alarm"}
    BY Outer DEF Call
  <2> QED
    BY <1>4, <2>1 DEF Base, Waits, Top
<1>8. Control'
  <2>1. CallsOf(calls', cpu)
    BY <1>6, <1>7, Fresh DEF CallsOf
  <2>2. CallsOf(calls, cpu)'
    BY <1>1, <2>1 DEF CallsOf, Base, Waits, Ended
  <2>3. InStep'
    BY <1>1, <1>5 DEF InStep, Running, Ready
  <2> QED
    BY <1>6, <2>2, <2>3, Fresh DEF Control, Top
<1>9. Types'
  BY <1>1, <1>6 DEF IInv, Types
<1>10. Resumable' /\ MainLives' /\ Queued' /\ ExitsLast' /\ EndingIsFinal'
  BY <1>1 DEF IInv, Resumable, MainLives, Left, Base, Waits, Ended, Queued, Listed,
     Running, ExitsLast, EndingIsFinal, EndsForGood
<1> QED
  BY <1>8, <1>9, <1>10 DEF IInv

(* Every step preserves the invariant.                                     *)
LEMMA Steps ==
  ASSUME Nesting = 0
  PROVE  IInv /\ [Next]_vars => IInv'
<1> SUFFICES ASSUME IInv, [Next]_vars PROVE IInv'
  OBVIOUS
<1>1. CASE UNCHANGED vars
  <2>1. UNCHANGED <<schedulingAlg, gt_state, gt_current, ctx, priority, scheduled,
                    priorityQueues, armed, cpu, calls, phase>>
    BY <1>1 DEF vars, tableVars, rpVars
  <2>2. Types' /\ MainLives' /\ Queued' /\ ExitsLast' /\ EndingIsFinal'
    BY <2>1 DEF IInv, Types, MainLives, Ended, Running, Queued, Listed, ExitsLast,
       EndingIsFinal, EndsForGood
  <2>3. Control'
    BY <2>1 DEF IInv, Control, CallsOf, Base, Waits, InStep, Running, Ready, Ended, Top
  <2>4. Resumable'
    BY <2>1 DEF IInv, Resumable, Left, Base, Waits, Ended
  <2> QED
    BY <2>2, <2>3, <2>4 DEF IInv
<1> QED
  BY <1>1, CreateStep, StartStep, RoundRobinStep, PriorityStep, LotteryStep,
     SuspendStep, RunStep, SetCurrentStep, SwitchStep, ReturnStep, EndStep, AlarmStep
     DEF Next, Schedule

(* gt_init establishes it.                                                 *)
LEMMA Starts == Init => IInv
<1> SUFFICES ASSUME Init PROVE IInv
  OBVIOUS
<1>1. 0 \in Slots /\ 0 \in Priorities /\ \A t \in Slots : t # 0 => gt_state[t] = "Unused"
  BY GThreadsAssumption DEF Init, Slots, Priorities
<1>2. gt_state[0] = "Running"
  BY <1>1 DEF Init
<1>3. Types
  <2>1. ctx \in [Slots -> [stack : Slots \cup {NoStack}, calls : Seq(Call)]]
    <3>1. Context(NoStack, <<>>) \in [stack : Slots \cup {NoStack}, calls : Seq(Call)]
      BY DEF Context
    <3> QED
      BY <3>1 DEF Init
  <2> QED
    BY <1>1, <2>1 DEF Init, Types, States, Queues
<1>4. Control /\ MainLives
  BY <1>1, <1>2 DEF Init, Control, CallsOf, InStep, Running, Ready, MainLives, Ended
<1>5. Resumable /\ Queued /\ ExitsLast /\ EndingIsFinal
  BY <1>1, <1>2 DEF Init, Resumable, Ended, Queued, Running, ExitsLast, EndingIsFinal,
     EndsForGood
<1> QED
  BY <1>3, <1>4, <1>5 DEF IInv

(* The inductive invariant of the threads.                                 *)
THEOREM Invariance ==
  ASSUME Nesting = 0
  PROVE  Spec => []IInv
<1>1. Init => IInv
  BY Starts
<1>2. IInv /\ [Next]_vars => IInv'
  BY Steps
<1> QED
  BY <1>1, <1>2, PTL DEF Spec

(* Contexts, table and queues hold what the code expects; in particular no *)
(* promotion leaves the range of the queues.                               *)
THEOREM TypeCorrect ==
  ASSUME Nesting = 0
  PROVE  Spec => []TypeOK
<1>1. IInv => TypeOK
  BY GThreadsAssumption DEF IInv, Types, TypeOK, States, Call, Labels, Queues
<1> QED
  BY <1>1, Invariance, PTL

(* Outside gt_schedule the process is on the stack of gt_current, and      *)
(* nobody else is marked Running.                                          *)
THEOREM OneRuns ==
  ASSUME Nesting = 0
  PROVE  Spec => []OnlyCurrentRuns
<1>1. IInv => OnlyCurrentRuns
  BY DEF IInv, Control, InStep, Running, OnlyCurrentRuns, At
<1> QED
  BY <1>1, Invariance, PTL

(* Every thread that lives and waits has its own stack in its context.     *)
THEOREM ContextsAreIntact ==
  ASSUME Nesting = 0
  PROVE  Spec => []ContextsIntact
<1>1. IInv => ContextsIntact
  BY DEF IInv, Resumable, Ended, ContextsIntact
<1> QED
  BY <1>1, Invariance, PTL

(* main exits only when every other thread has ended, under priorities     *)
(* too: although threads are put in the queue they ask for and looked for  *)
(* in that of priority 0, the first aging brings all of them together.     *)
THEOREM NobodyIsLost ==
  ASSUME Nesting = 0
  PROVE  Spec => []ExitsLast
<1>1. IInv => ExitsLast
  BY DEF IInv
<1> QED
  BY <1>1, Invariance, PTL

(* A thread that has ended is never scheduled again.                       *)
THEOREM EndedIsEnded ==
  ASSUME Nesting = 0
  PROVE  Spec => EndedStaysEnded
<1>1. IInv /\ [Next]_vars =>
        [\A t \in Slots : (phase = "run" /\ gt_state[t] = "Unused") =>
                             gt_state'[t] = "Unused"]_vars
  <2> SUFFICES ASSUME IInv, [Next]_vars, NEW t \in Slots, phase = "run",
                      gt_state[t] = "Unused"
               PROVE  gt_state'[t] = "Unused"
    OBVIOUS
  <2>1. gt_state \in [Slots -> States]
    BY DEF IInv, Types
  <2>2. CASE UNCHANGED gt_state
    BY <2>2
  <2>3. CASE Suspend
    BY <2>1, <2>3 DEF Suspend
  <2>4. CASE Run
    <3>1. Top.p \in Ready
      BY <2>4 DEF Run, At, IInv, Control
    <3> QED
      BY <2>1, <2>4, <3>1 DEF Run, Ready
  <2>5. CASE End
    BY <2>1, <2>5 DEF End
  <2> QED
    BY <2>2, <2>3, <2>4, <2>5 DEF Next, Schedule, Create, Start, ChooseRoundRobin,
       ChoosePriority, ChooseLottery, SetCurrent, Switch, Return, Alarm, tableVars, vars
<1> QED
  BY <1>1, Invariance, PTL DEF Spec, EndedStaysEnded

(* Under round robin and the lottery gt_schedule never returns to an       *)
(* ending thread; under priorities it does (gthreads_assert).              *)
THEOREM EndingsAreFinal ==
  ASSUME Nesting = 0
  PROVE  Spec => [](schedulingAlg # "RP" => EndsForGood)
<1>1. IInv => (schedulingAlg # "RP" => EndsForGood)
  BY DEF IInv, EndingIsFinal
<1> QED
  BY <1>1, Invariance, PTL
=============================================================================
