--------------------------- MODULE KeyboardProofs ---------------------------
(***************************************************************************)
(* Theorems about Keyboard for every size of the ring and every set of     *)
(* keys.                                                                   *)
(***************************************************************************)
EXTENDS Keyboard, SequenceTheorems, TLAPS

(* The only remainders the driver takes are of numbers below 2 * N.        *)
LEMMA Remainder ==
  ASSUME NEW n \in Nat \ {0}, NEW a \in 0 .. 2 * n - 1
  PROVE  a % n = IF a < n THEN a ELSE a - n
<1>1. CASE a < n
  BY <1>1
<1>2. CASE a >= n
  BY <1>2
<1> QED
  BY <1>1, <1>2

LEMMA Size == /\ KBD_BUFFER_SIZE \in Nat \ {0} /\ KBD_BUFFER_SIZE >= 2
              /\ NoCode \notin Scancode
BY KeyboardAssumption DEF KeyboardAssumption, Modifiers, Shifts, NoCode,
   Scancode

-----------------------------------------------------------------------------
(* The content of a ring as a sequence.                                    *)

LEMMA CountRange ==
  ASSUME NEW h \in Slots, NEW t \in Slots
  PROVE  /\ CountOf(h, t) \in 0 .. KBD_BUFFER_SIZE - 1
         /\ CountOf(h, t) = 0 <=> h = t
BY Size DEF CountOf, Slots

LEMMA SlotValue ==
  ASSUME NEW t \in Slots, NEW i \in 1 .. KBD_BUFFER_SIZE
  PROVE  /\ SlotOf(t, i) = IF t + i - 1 < KBD_BUFFER_SIZE
                             THEN t + i - 1
                             ELSE t + i - 1 - KBD_BUFFER_SIZE
         /\ SlotOf(t, i) \in Slots
<1> DEFINE a == t + i - 1
<1>1. a \in 0 .. 2 * KBD_BUFFER_SIZE - 1
  BY Size DEF Slots
<1>2. SlotOf(t, i) = a % KBD_BUFFER_SIZE
  BY DEF SlotOf
<1> HIDE DEF a
<1>3. SlotOf(t, i) = IF a < KBD_BUFFER_SIZE THEN a ELSE a - KBD_BUFFER_SIZE
  BY <1>1, <1>2, Size, Remainder
<1> QED
  BY <1>1, <1>3, Size DEF Slots, a

LEMMA AfterValue ==
  ASSUME NEW i \in Slots
  PROVE  /\ After(i) = IF i = KBD_BUFFER_SIZE - 1 THEN 0 ELSE i + 1
         /\ After(i) \in Slots
<1> DEFINE a == i + 1
<1>1. a \in 0 .. 2 * KBD_BUFFER_SIZE - 1
  BY Size DEF Slots
<1>2. After(i) = a % KBD_BUFFER_SIZE
  BY DEF After
<1> HIDE DEF a
<1>3. After(i) = IF a < KBD_BUFFER_SIZE THEN a ELSE a - KBD_BUFFER_SIZE
  BY <1>1, <1>2, Size, Remainder
<1> QED
  BY <1>1, <1>3, Size DEF Slots, a

LEMMA ContentSeq ==
  ASSUME NEW b, NEW h, NEW t, RingOf(b, h, t)
  PROVE  /\ ContentOf(b, h, t) \in Seq(Scancode)
         /\ Len(ContentOf(b, h, t)) = CountOf(h, t)
         /\ \A i \in 1 .. CountOf(h, t) :
              ContentOf(b, h, t)[i] = b[SlotOf(t, i)]
<1> DEFINE n == CountOf(h, t)
<1>1. n \in Nat
  BY CountRange DEF RingOf
<1>2. ContentOf(b, h, t) = [i \in 1 .. n |-> b[SlotOf(t, i)]]
  BY DEF ContentOf
<1>3. \A i \in 1 .. n : b[SlotOf(t, i)] \in Scancode
  BY DEF RingOf
<1> HIDE DEF n
<1>4. /\ ContentOf(b, h, t) \in Seq(Scancode)
      /\ Len(ContentOf(b, h, t)) = n
      /\ \A i \in 1 .. n : ContentOf(b, h, t)[i] = b[SlotOf(t, i)]
  BY <1>1, <1>2, <1>3
<1> QED
  BY <1>4 DEF n

(* What kbd_enqueue does to the content, unless the ring is full.          *)
LEMMA Enqueued ==
  ASSUME NEW b, NEW h, NEW t, RingOf(b, h, t), NEW code \in Scancode,
         After(h) # t, NEW c \in [Slots -> Scancode \cup {NoCode}],
         \A i \in Slots : c[i] = IF i = h THEN code ELSE b[i]
  PROVE  /\ RingOf(c, After(h), t)
         /\ CountOf(h, t) < KBD_BUFFER_SIZE - 1
         /\ ContentOf(c, After(h), t) = Append(ContentOf(b, h, t), code)
<1> DEFINE g == After(h)
           n == CountOf(h, t)
<1>1. /\ n \in 0 .. KBD_BUFFER_SIZE - 1 /\ h \in Slots /\ t \in Slots
      /\ g \in Slots /\ g = IF h = KBD_BUFFER_SIZE - 1 THEN 0 ELSE h + 1
  BY CountRange, AfterValue DEF RingOf
<1>2. n < KBD_BUFFER_SIZE - 1 /\ CountOf(g, t) = n + 1
  BY <1>1, Size DEF CountOf, Slots
<1>3. \A i \in 1 .. n : SlotOf(t, i) # h /\ SlotOf(t, i) \in Slots
  <2> SUFFICES ASSUME NEW i \in 1 .. n
               PROVE  SlotOf(t, i) # h /\ SlotOf(t, i) \in Slots
    OBVIOUS
  <2>1. i \in 1 .. KBD_BUFFER_SIZE
    BY <1>1, Size
  <2>2. /\ SlotOf(t, i) = IF t + i - 1 < KBD_BUFFER_SIZE
                            THEN t + i - 1 ELSE t + i - 1 - KBD_BUFFER_SIZE
        /\ SlotOf(t, i) \in Slots
    BY <1>1, <2>1, SlotValue
  <2> QED
    BY <1>1, <2>1, <2>2, Size DEF CountOf, Slots
<1>4. SlotOf(t, n + 1) = h
  <2> DEFINE j == n + 1
  <2>1. j \in 1 .. KBD_BUFFER_SIZE
    BY <1>1, <1>2, Size
  <2>2. SlotOf(t, j) = IF t + j - 1 < KBD_BUFFER_SIZE
                         THEN t + j - 1 ELSE t + j - 1 - KBD_BUFFER_SIZE
    <3> HIDE DEF j
    <3> QED
      BY <1>1, <2>1, SlotValue
  <2> QED
    BY <1>1, <2>2, Size DEF CountOf, Slots
<1>6. \A i \in 1 .. n : c[SlotOf(t, i)] = b[SlotOf(t, i)]
  BY <1>3
<1>7. c[SlotOf(t, n + 1)] = code
  BY <1>1, <1>4
<1>8. \A i \in 1 .. n : b[SlotOf(t, i)] \in Scancode
  BY DEF RingOf
<1> HIDE DEF g, n
<1>9. RingOf(c, g, t)
  BY <1>1, <1>2, <1>6, <1>7, <1>8 DEF RingOf
<1>10. /\ ContentOf(b, h, t) \in Seq(Scancode)
       /\ Len(ContentOf(b, h, t)) = n
       /\ \A i \in 1 .. n : ContentOf(b, h, t)[i] = b[SlotOf(t, i)]
  BY ContentSeq DEF n
<1>11. /\ ContentOf(c, g, t) \in Seq(Scancode)
       /\ Len(ContentOf(c, g, t)) = n + 1
       /\ \A i \in 1 .. n + 1 : ContentOf(c, g, t)[i] = c[SlotOf(t, i)]
  BY <1>2, <1>9, ContentSeq
<1> DEFINE s == ContentOf(b, h, t)
           u == ContentOf(c, g, t)
<1>12. /\ Append(s, code) \in Seq(Scancode) /\ Len(Append(s, code)) = n + 1
       /\ \A i \in 1 .. n : Append(s, code)[i] = s[i]
       /\ Append(s, code)[n + 1] = code
  BY <1>10, AppendProperties
<1>13. \A i \in 1 .. n + 1 : u[i] = Append(s, code)[i]
  <2> SUFFICES ASSUME NEW i \in 1 .. n + 1 PROVE u[i] = Append(s, code)[i]
    OBVIOUS
  <2>1. u[i] = c[SlotOf(t, i)]
    BY <1>11
  <2>2. CASE i = n + 1
    BY <1>7, <1>12, <2>1, <2>2
  <2>3. CASE i \in 1 .. n
    <3>1. c[SlotOf(t, i)] = b[SlotOf(t, i)] /\ s[i] = b[SlotOf(t, i)]
      BY <1>6, <1>10, <2>3
    <3> QED
      BY <1>12, <2>1, <2>3, <3>1
  <2>4. i = n + 1 \/ i \in 1 .. n
    BY <1>1, Size
  <2> QED
    BY <2>2, <2>3, <2>4
<1>14. u = Append(s, code)
  BY <1>11, <1>12, <1>13, SeqEqual
<1> QED
  BY <1>2, <1>9, <1>14 DEF g, n

(* What kbd_dequeue does to the content.                                   *)
LEMMA Dequeued ==
  ASSUME NEW b, NEW h, NEW t, RingOf(b, h, t), h # t
  PROVE  /\ RingOf(b, h, After(t))
         /\ ContentOf(b, h, t) # <<>>
         /\ Head(ContentOf(b, h, t)) = b[t]
         /\ ContentOf(b, h, After(t)) = Tail(ContentOf(b, h, t))
<1> DEFINE g == After(t)
           n == CountOf(h, t)
<1>1. /\ n \in 1 .. KBD_BUFFER_SIZE - 1 /\ h \in Slots /\ t \in Slots
      /\ g \in Slots /\ g = IF t = KBD_BUFFER_SIZE - 1 THEN 0 ELSE t + 1
  BY CountRange, AfterValue DEF RingOf
<1>2. CountOf(h, g) = n - 1
  BY <1>1, Size DEF CountOf, Slots
<1>3. \A i \in 1 .. n - 1 : SlotOf(g, i) = SlotOf(t, i + 1)
  <2> SUFFICES ASSUME NEW i \in 1 .. n - 1
               PROVE  SlotOf(g, i) = SlotOf(t, i + 1)
    OBVIOUS
  <2> HIDE DEF g, n
  <2>1. i \in 1 .. KBD_BUFFER_SIZE /\ i + 1 \in 1 .. KBD_BUFFER_SIZE
    BY <1>1, Size
  <2>2. SlotOf(g, i) = IF g + i - 1 < KBD_BUFFER_SIZE
                         THEN g + i - 1 ELSE g + i - 1 - KBD_BUFFER_SIZE
    BY <1>1, <2>1, SlotValue
  <2>3. SlotOf(t, i + 1) = IF t + i < KBD_BUFFER_SIZE
                             THEN t + i ELSE t + i - KBD_BUFFER_SIZE
    <3> DEFINE j == i + 1
    <3>1. j \in 1 .. KBD_BUFFER_SIZE
      BY <2>1
    <3>2. SlotOf(t, j) = IF t + j - 1 < KBD_BUFFER_SIZE
                           THEN t + j - 1 ELSE t + j - 1 - KBD_BUFFER_SIZE
      <4> HIDE DEF j
      <4> QED
        BY <1>1, <3>1, SlotValue
    <3> QED
      BY <1>1, <3>2, Size DEF Slots
  <2> QED
    BY <1>1, <2>1, <2>2, <2>3, Size DEF Slots
<1>4. SlotOf(t, 1) = t
  BY <1>1, SlotValue, Size DEF Slots
<1>5. b \in [Slots -> Scancode \cup {NoCode}]
      /\ \A i \in 1 .. n : b[SlotOf(t, i)] \in Scancode
  BY DEF RingOf
<1> HIDE DEF g, n
<1>6. RingOf(b, h, g)
  BY <1>1, <1>2, <1>3, <1>5 DEF RingOf
<1>7. /\ ContentOf(b, h, t) \in Seq(Scancode)
      /\ Len(ContentOf(b, h, t)) = n
      /\ \A i \in 1 .. n : ContentOf(b, h, t)[i] = b[SlotOf(t, i)]
  BY ContentSeq DEF n
<1>8. /\ ContentOf(b, h, g) \in Seq(Scancode)
      /\ Len(ContentOf(b, h, g)) = n - 1
      /\ \A i \in 1 .. n - 1 : ContentOf(b, h, g)[i] = b[SlotOf(g, i)]
  BY <1>2, <1>6, ContentSeq
<1> DEFINE s == ContentOf(b, h, t)
           u == ContentOf(b, h, g)
<1>9. s # <<>> /\ Head(s) = b[t]
  BY <1>1, <1>4, <1>7
<1>10. /\ Tail(s) \in Seq(Scancode) /\ Len(Tail(s)) = n - 1
       /\ \A i \in 1 .. n - 1 : Tail(s)[i] = s[i + 1]
  BY <1>1, <1>7, <1>9, HeadTailProperties
<1>11. \A i \in 1 .. n - 1 : u[i] = Tail(s)[i]
  <2> SUFFICES ASSUME NEW i \in 1 .. n - 1 PROVE u[i] = Tail(s)[i]
    OBVIOUS
  <2>1. u[i] = b[SlotOf(g, i)] /\ SlotOf(g, i) = SlotOf(t, i + 1)
    BY <1>3, <1>8
  <2>2. i + 1 \in 1 .. n
    BY <1>1
  <2>3. s[i + 1] = b[SlotOf(t, i + 1)]
    BY <1>7, <2>2
  <2> QED
    BY <1>10, <2>1, <2>3
<1>12. u = Tail(s)
  BY <1>8, <1>10, <1>11, SeqEqual
<1> QED
  BY <1>6, <1>9, <1>12 DEF g

-----------------------------------------------------------------------------
(* The inductive invariant.                                                *)

LEMMA InitInv == Init => IInv
<1> SUFFICES ASSUME Init PROVE IInv
  OBVIOUS
<1> USE Size DEF Init, RingInit, FlagsInit
<1>1. 0 \in Slots
  BY DEF Slots
<1>2. TypeOK
  BY <1>1 DEF TypeOK
<1>3. CountOf(0, 0) = 0
  BY DEF CountOf
<1>4. RingOK
  BY <1>1, <1>3 DEF RingOK, RingOf
<1>5. Len(Content) = 0
  BY <1>3, <1>4, ContentSeq DEF RingOK, Content
<1>6. CodeInHand /\ ReaderKeepsSlot /\ EofBelongsToChar
  BY DEF CodeInHand, ReaderKeepsSlot, EofBelongsToChar
<1>7. ModifiersTracked
  BY <1>5 DEF ModifiersTracked, LastCodeTells, NotInRing, InHand, CtrlFlag,
              ShiftFlag
<1> QED
  BY <1>2, <1>4, <1>6, <1>7 DEF IInv

LEMMA RingSeq ==
  ASSUME IInv
  PROVE  /\ Content \in Seq(Scancode)
         /\ Len(Content) \in 0 .. KBD_BUFFER_SIZE - 1
         /\ Len(Content) = 0 <=> kbd_head = kbd_tail
         /\ \A i \in 1 .. Len(Content) : Content[i] \in Scancode
<1>1. RingOf(kbd_buffer, kbd_head, kbd_tail)
  BY DEF IInv, RingOK
<1>2. kbd_head \in Slots /\ kbd_tail \in Slots
  BY <1>1 DEF RingOf
<1>3. Content \in Seq(Scancode) /\ Len(Content) = CountOf(kbd_head, kbd_tail)
  BY <1>1, ContentSeq DEF Content
<1> QED
  BY <1>2, <1>3, CountRange, ElementOfSeq

(* Steps of the reader that neither move the ring nor decode a code.       *)
LEMMA QuietStep ==
  ASSUME IInv, UNCHANGED <<ringVars, charVars, userVars>>,
         (pc = "decode" \/ pc' = "decode") => UNCHANGED <<pc, scancode>>
  PROVE  /\ RingOK' /\ CodeInHand' /\ EofBelongsToChar' /\ ModifiersTracked'
<1> USE DEF ringVars, charVars, userVars
<1>1. Content' = Content
  BY DEF Content
<1>2. RingOK' /\ CodeInHand' /\ EofBelongsToChar'
  BY DEF IInv, RingOK, CodeInHand, EofBelongsToChar
<1>3. \A k : NotInRing(k)' <=> NotInRing(k)
  BY <1>1 DEF NotInRing
<1>4. \A k : InHand(k)' <=> InHand(k)
  BY DEF InHand
<1>5. ASSUME NEW k, LastCodeTells(k), UNCHANGED dropped PROVE LastCodeTells(k)'
  <2>1. ASSUME InHand(k) PROVE UNCHANGED scancode
    BY <2>1 DEF InHand
  <2> QED
    BY <1>1, <1>3, <1>4, <1>5, <2>1 DEF LastCodeTells
<1>6. CtrlFlag => CtrlFlag'
  BY <1>3, <1>4 DEF CtrlFlag
<1>7. ShiftFlag => ShiftFlag'
  BY <1>3, <1>4 DEF ShiftFlag
<1> QED
  BY <1>2, <1>5, <1>6, <1>7 DEF IInv, ModifiersTracked

LEMMA ReaderQuietInv ==
  ASSUME IInv, TimerInterrupt \/ Call \/ Test \/ Halt \/ Fetch
  PROVE  IInv'
<1> USE DEF TimerInterrupt, Wake, Call, Test, Halt, Fetch
<1>1. RingOK' /\ CodeInHand' /\ EofBelongsToChar' /\ ModifiersTracked'
  <2>1. UNCHANGED <<ringVars, charVars, userVars>>
    OBVIOUS
  <2>2. pc # "decode" /\ pc' # "decode"
    OBVIOUS
  <2> QED
    BY <2>1, <2>2, QuietStep
<1>2. TypeOK'
  BY DEF IInv, TypeOK, ringVars, charVars, userVars
<1>3. ReaderKeepsSlot'
  BY DEF IInv, ReaderKeepsSlot, ringVars
<1> QED
  BY <1>1, <1>2, <1>3 DEF IInv

LEMMA KeyboardInterruptInv ==
  ASSUME IInv, KeyboardInterrupt
  PROVE  /\ IInv'
         /\ \/ /\ Len(Content) = KBD_BUFFER_SIZE - 1
               /\ UNCHANGED Content /\ dropped' = TRUE
            \/ \E code \in Scancode : /\ Len(Content) < KBD_BUFFER_SIZE - 1
                                      /\ Content' = Append(Content, code)
                                      /\ UNCHANGED dropped
<1> USE DEF charVars
<1>1. PICK code \in Scancode :
         /\ down' = IF code.key \notin Modifiers THEN down
                    ELSE IF code.make THEN down \cup {code.key}
                                      ELSE down \ {code.key}
         /\ kbd_enqueue(code)
  BY DEF KeyboardInterrupt
<1>2. /\ pc' \in {pc, "test"} /\ (pc' # pc => pc = "halted")
      /\ UNCHANGED <<charVars, fetched, scancode>>
  BY DEF KeyboardInterrupt, Wake
<1>3. down' \in SUBSET Modifiers
  BY <1>1 DEF IInv, TypeOK
<1>4. CodeInHand' /\ EofBelongsToChar'
  BY <1>2 DEF IInv, CodeInHand, EofBelongsToChar
<1>5. CASE After(kbd_head) = kbd_tail
  <2>1. dropped' = TRUE /\ UNCHANGED ringVars
    BY <1>1, <1>5 DEF kbd_enqueue
  <2>2. TypeOK'
    BY <1>2, <1>3, <2>1 DEF IInv, TypeOK, ringVars
  <2>3. RingOK' /\ ReaderKeepsSlot' /\ ModifiersTracked'
    BY <1>2, <2>1 DEF IInv, RingOK, ReaderKeepsSlot, ModifiersTracked, ringVars
  <2>4. UNCHANGED Content
    BY <2>1 DEF Content, ringVars
  <2>5. Len(Content) = KBD_BUFFER_SIZE - 1
    <3>1. RingOf(kbd_buffer, kbd_head, kbd_tail)
      BY DEF IInv, RingOK
    <3>2. Len(Content) = CountOf(kbd_head, kbd_tail)
      BY <3>1, ContentSeq DEF Content
    <3>3. kbd_head \in Slots /\ kbd_tail \in Slots
      BY <3>1 DEF RingOf
    <3>4. kbd_tail = IF kbd_head = KBD_BUFFER_SIZE - 1 THEN 0 ELSE kbd_head + 1
      BY <1>5, <3>3, AfterValue
    <3>5. CountOf(kbd_head, kbd_tail) = KBD_BUFFER_SIZE - 1
      BY <3>3, <3>4, Size DEF CountOf, Slots
    <3> QED
      BY <3>2, <3>5
  <2> QED
    BY <1>4, <2>1, <2>2, <2>3, <2>4, <2>5 DEF IInv
<1>6. CASE After(kbd_head) # kbd_tail
  <2>1. /\ kbd_buffer' = [kbd_buffer EXCEPT ![kbd_head] = code]
        /\ kbd_head' = After(kbd_head)
        /\ UNCHANGED <<kbd_tail, dropped>>
    BY <1>1, <1>6 DEF kbd_enqueue
  <2>2. /\ RingOK' /\ Content' = Append(Content, code)
        /\ Len(Content) < KBD_BUFFER_SIZE - 1
    <3>1. RingOf(kbd_buffer, kbd_head, kbd_tail)
      BY DEF IInv, RingOK
    <3>2. /\ kbd_buffer' \in [Slots -> Scancode \cup {NoCode}]
          /\ \A i \in Slots : kbd_buffer'[i] = IF i = kbd_head THEN code
                                                   ELSE kbd_buffer[i]
      BY <2>1 DEF IInv, TypeOK
    <3>3. /\ RingOf(kbd_buffer', After(kbd_head), kbd_tail)
          /\ Len(Content) < KBD_BUFFER_SIZE - 1
          /\ ContentOf(kbd_buffer', After(kbd_head), kbd_tail) =
               Append(ContentOf(kbd_buffer, kbd_head, kbd_tail), code)
      <4> DEFINE c == kbd_buffer'
      <4>1. /\ c \in [Slots -> Scancode \cup {NoCode}]
            /\ \A i \in Slots : c[i] = IF i = kbd_head THEN code
                                                     ELSE kbd_buffer[i]
        BY <3>2
      <4> HIDE DEF c
      <4>2. Len(Content) = CountOf(kbd_head, kbd_tail)
        BY <3>1, ContentSeq DEF Content
      <4>3. /\ RingOf(c, After(kbd_head), kbd_tail)
            /\ CountOf(kbd_head, kbd_tail) < KBD_BUFFER_SIZE - 1
            /\ ContentOf(c, After(kbd_head), kbd_tail) =
                 Append(ContentOf(kbd_buffer, kbd_head, kbd_tail), code)
        BY <1>6, <3>1, <4>1, Enqueued
      <4> QED
        BY <4>2, <4>3 DEF c
    <3> QED
      BY <2>1, <3>3 DEF RingOK, Content
  <2>3. TypeOK'
    BY <1>2, <1>3, <2>1, AfterValue DEF IInv, TypeOK
  <2> DEFINE n == Len(Content)
  <2>4. /\ n \in Nat
        /\ Len(Content') = n + 1 /\ Content'[n + 1] = code
        /\ \A i \in 1 .. n : Content'[i] = Content[i]
    BY <2>2, RingSeq, AppendProperties
  <2>5. ReaderKeepsSlot'
    <3>1. kbd_head # kbd_tail => kbd_buffer'[kbd_tail] = kbd_buffer[kbd_tail]
      BY <2>1 DEF IInv, TypeOK
    <3>2. kbd_head' # kbd_tail'
      BY <1>6, <2>1
    <3> QED
      BY <1>2, <2>1, <3>1, <3>2 DEF IInv, ReaderKeepsSlot
  <2> HIDE DEF n
  <2>6. \A k : NotInRing(k)' <=> NotInRing(k) /\ code.key # k
    <3>1. \A k : NotInRing(k) <=> \A i \in 1 .. n : Content[i].key # k
      BY DEF NotInRing, n
    <3>2. \A k : NotInRing(k)' <=> \A i \in 1 .. n + 1 : Content'[i].key # k
      BY <2>4 DEF NotInRing
    <3>3. \A i : i \in 1 .. n + 1 <=> i \in 1 .. n \/ i = n + 1
      BY <2>4
    <3> QED
      BY <2>4, <3>1, <3>2, <3>3
  <2>7. \A k : InHand(k)' <=> InHand(k)
    BY <1>2 DEF InHand
  <2>8. \A k \in Modifiers :
          /\ code.key # k => (k \in down' <=> k \in down)
          /\ code.key = k => (code.make <=> k \in down')
    BY <1>1 DEF Scancode
  <2>9. ASSUME NEW k \in Modifiers, LastCodeTells(k) PROVE LastCodeTells(k)'
    <3>1. ASSUME NEW i \in 1 .. n + 1, Content'[i].key = k,
                 \A j \in i + 1 .. n + 1 : Content'[j].key # k
          PROVE  Content'[i].make <=> k \in down'
      <4>1. CASE i = n + 1
        BY <2>4, <2>8, <3>1, <4>1
      <4>2. CASE i \in 1 .. n
        <5>1. n + 1 \in i + 1 .. n + 1
          BY <2>4, <4>2
        <5>2. code.key # k
          BY <2>4, <3>1, <5>1
        <5>3. ASSUME NEW j \in i + 1 .. n PROVE Content[j].key # k
          <6>1. j \in i + 1 .. n + 1 /\ j \in 1 .. n
            BY <2>4, <4>2
          <6> QED
            BY <2>4, <3>1, <6>1
        <5>4. Content[i].key = k /\ Content'[i] = Content[i]
          BY <2>4, <3>1, <4>2
        <5>5. Content[i].make <=> k \in down
          BY <2>9, <4>2, <5>3, <5>4 DEF LastCodeTells, n
        <5> QED
          BY <2>8, <5>2, <5>4, <5>5
      <4> QED
        BY <2>4, <4>1, <4>2
    <3>2. InHand(k)' /\ NotInRing(k)' => (scancode'.make <=> k \in down')
      BY <1>2, <2>6, <2>7, <2>8, <2>9 DEF LastCodeTells
    <3> QED
      BY <2>4, <3>1, <3>2 DEF LastCodeTells
  <2>10. CtrlFlag => CtrlFlag'
    BY <1>2, <2>6, <2>7, <2>8 DEF CtrlFlag, Modifiers
  <2>11. ShiftFlag => ShiftFlag'
    BY <1>2, <2>6, <2>7, <2>8 DEF ShiftFlag, Modifiers
  <2>12. ModifiersTracked'
    BY <2>1, <2>9, <2>10, <2>11 DEF IInv, ModifiersTracked
  <2> QED
    BY <1>4, <2>1, <2>2, <2>3, <2>5, <2>12 DEF IInv
<1> QED
  BY <1>5, <1>6

LEMMA AdvanceInv ==
  ASSUME IInv, Advance
  PROVE  /\ IInv'
         /\ Content # <<>> /\ fetched = Head(Content)
         /\ Content' = Tail(Content)
<1> USE DEF Advance, charVars, userVars
<1>1. kbd_head # kbd_tail /\ fetched = kbd_buffer[kbd_tail]
  BY DEF IInv, ReaderKeepsSlot
<1>2. /\ RingOf(kbd_buffer, kbd_head, After(kbd_tail))
      /\ Content # <<>> /\ fetched = Head(Content)
      /\ ContentOf(kbd_buffer, kbd_head, After(kbd_tail)) = Tail(Content)
  BY <1>1, Dequeued DEF IInv, RingOK, Content
<1>3. RingOK' /\ Content' = Tail(Content)
  BY <1>2 DEF RingOK, Content
<1> DEFINE n == Len(Content)
<1>4. /\ n \in Nat \ {0}
      /\ Content[1] = fetched /\ fetched \in Scancode
      /\ Len(Content') = n - 1
      /\ \A i \in 1 .. n - 1 : Content'[i] = Content[i + 1]
  BY <1>2, <1>3, RingSeq, HeadTailProperties
<1>5. TypeOK'
  BY <1>4, AfterValue DEF IInv, TypeOK
<1>6. CodeInHand' /\ ReaderKeepsSlot' /\ EofBelongsToChar'
  BY <1>4 DEF IInv, CodeInHand, ReaderKeepsSlot, EofBelongsToChar
<1> HIDE DEF n
<1>7. \A k : NotInRing(k) <=> NotInRing(k)' /\ fetched.key # k
  <2>1. \A k : NotInRing(k) <=> \A i \in 1 .. n : Content[i].key # k
    BY DEF NotInRing, n
  <2>2. \A k : NotInRing(k)' <=> \A i \in 1 .. n - 1 : Content'[i].key # k
    BY <1>4 DEF NotInRing
  <2>3. \A i : i \in 1 .. n - 1 => i + 1 \in 1 .. n
    BY <1>4
  <2>4. \A i : i \in 1 .. n => i = 1 \/ (i - 1 \in 1 .. n - 1 /\ (i - 1) + 1 = i)
    BY <1>4
  <2>5. 1 \in 1 .. n
    BY <1>4
  <2>6. ASSUME NEW k, NotInRing(k) PROVE NotInRing(k)' /\ fetched.key # k
    BY <1>4, <2>1, <2>2, <2>3, <2>5, <2>6
  <2>7. ASSUME NEW k, NotInRing(k)', fetched.key # k PROVE NotInRing(k)
    <3> SUFFICES ASSUME NEW i \in 1 .. n PROVE Content[i].key # k
      BY <2>1
    <3>1. CASE i = 1
      BY <1>4, <2>7, <3>1
    <3>2. CASE i # 1
      BY <1>4, <2>2, <2>4, <2>7, <3>2, ZenonT(30)
    <3> QED
      BY <3>1, <3>2
  <2> QED
    BY <2>6, <2>7
<1>8. \A k : ~InHand(k) /\ (InHand(k)' <=> fetched.key = k)
  BY DEF InHand
<1>9. ASSUME NEW k \in Modifiers, LastCodeTells(k) PROVE LastCodeTells(k)'
  <2>1. ASSUME NEW i \in 1 .. n - 1, Content'[i].key = k,
               \A j \in i + 1 .. n - 1 : Content'[j].key # k
        PROVE  Content'[i].make <=> k \in down'
    <3>1. i + 1 \in 1 .. n /\ Content'[i] = Content[i + 1]
      BY <1>4
    <3>2. ASSUME NEW j \in (i + 1) + 1 .. n PROVE Content[j].key # k
      <4>1. /\ j - 1 \in i + 1 .. n - 1 /\ j - 1 \in 1 .. n - 1
            /\ (j - 1) + 1 = j
        BY <1>4
      <4> QED
        BY <1>4, <2>1, <4>1
    <3> QED
      BY <1>9, <2>1, <3>1, <3>2 DEF LastCodeTells, n
  <2>2. InHand(k)' /\ NotInRing(k)' => (scancode'.make <=> k \in down')
    <3> SUFFICES ASSUME InHand(k)', NotInRing(k)'
                 PROVE  scancode'.make <=> k \in down'
      OBVIOUS
    <3>1. Content[1].key = k /\ scancode' = Content[1] /\ 1 \in 1 .. n
      BY <1>4, <1>8
    <3>2. ASSUME NEW j \in 1 + 1 .. n PROVE Content[j].key # k
      <4>1. j - 1 \in 1 .. n - 1 /\ (j - 1) + 1 = j
        BY <1>4
      <4>2. Content'[j - 1].key # k
        BY <1>4, <4>1 DEF NotInRing
      <4> QED
        BY <1>4, <4>1, <4>2
    <3> QED
      BY <1>9, <3>1, <3>2 DEF LastCodeTells, n
  <2> QED
    BY <1>4, <2>1, <2>2 DEF LastCodeTells
<1>10. CtrlFlag => CtrlFlag'
  BY <1>7, <1>8 DEF CtrlFlag
<1>11. ShiftFlag => ShiftFlag'
  BY <1>7, <1>8 DEF ShiftFlag
<1>12. ModifiersTracked'
  BY <1>9, <1>10, <1>11 DEF IInv, ModifiersTracked
<1> QED
  BY <1>2, <1>3, <1>5, <1>6, <1>12 DEF IInv

LEMMA DecodeInv == ASSUME IInv, Decode PROVE IInv'
<1> USE DEF Decode, Continue, ringVars, userVars
<1>1. scancode \in Scancode
  BY DEF IInv, CodeInHand
<1>2. TypeOK'
  <2>1. is_ctrl_pressed' \in BOOLEAN /\ is_shift_pressed' \in BOOLEAN
    BY <1>1 DEF IInv, TypeOK, Scancode
  <2>2. /\ currentEvent' \in {"NONE_EV", "EOF_EV"}
        /\ result' \in {NoChar, "d", "D"} /\ pc' \in {"away", "test"}
    BY DEF IInv, TypeOK, CharOf
  <2> QED
    BY <2>1, <2>2 DEF IInv, TypeOK
<1>3. RingOK' /\ CodeInHand' /\ ReaderKeepsSlot'
  BY DEF IInv, RingOK, CodeInHand, ReaderKeepsSlot
<1>4. EofBelongsToChar'
  <2> SUFFICES ASSUME currentEvent' = "EOF_EV"
               PROVE  result' = "d" /\ is_ctrl_pressed' /\ ~is_shift_pressed'
    BY DEF EofBelongsToChar
  <2>1. /\ CharOf(scancode.key, is_shift_pressed) = "d"
        /\ scancode.make /\ is_ctrl_pressed
    OBVIOUS
  <2>2. scancode.key = "d" /\ ~is_shift_pressed
    BY <2>1 DEF CharOf, NoChar
  <2> QED
    BY <2>1, <2>2 DEF NoChar, Shifts
<1>5. Content' = Content
  BY DEF Content
<1>6. /\ \A k : NotInRing(k)' <=> NotInRing(k)
      /\ \A k : ~InHand(k)' /\ (InHand(k) <=> scancode.key = k)
  BY <1>5 DEF NotInRing, InHand
<1>7. \A k \in Modifiers : LastCodeTells(k) => LastCodeTells(k)'
  BY <1>5, <1>6 DEF LastCodeTells
<1>8. LastCodeTells("ctrl") /\ CtrlFlag => CtrlFlag'
  BY <1>6 DEF LastCodeTells, CtrlFlag, Shifts
<1>9. (\A k \in Shifts : LastCodeTells(k)) /\ ShiftFlag => ShiftFlag'
  <2>1. CASE scancode.key \in Shifts
    BY <1>6, <2>1 DEF LastCodeTells, ShiftFlag, Shifts
  <2>2. CASE scancode.key \notin Shifts
    BY <1>6, <2>2 DEF ShiftFlag
  <2> QED
    BY <2>1, <2>2
<1>10. ModifiersTracked'
  BY <1>7, <1>8, <1>9 DEF IInv, ModifiersTracked, Modifiers
<1> QED
  BY <1>2, <1>3, <1>4, <1>10 DEF IInv

LEMMA StutterInv == ASSUME IInv, UNCHANGED vars PROVE IInv'
<1> USE DEF vars, ringVars, charVars, userVars
<1>1. RingOK' /\ CodeInHand' /\ EofBelongsToChar' /\ ModifiersTracked'
  BY QuietStep
<1>2. TypeOK' /\ ReaderKeepsSlot'
  BY DEF IInv, TypeOK, ReaderKeepsSlot
<1> QED
  BY <1>1, <1>2 DEF IInv

LEMMA NextInv == ASSUME IInv, [Next]_vars PROVE IInv'
BY ReaderQuietInv, KeyboardInterruptInv, AdvanceInv, DecodeInv, StutterInv
   DEF Next, Reader

-----------------------------------------------------------------------------
(* Theorems.                                                               *)

(* The ring is well formed, what the reader has in hand is a code, and the *)
(* codes still to be decoded together with the flags of keyboard.c always  *)
(* tell which modifier keys are down.                                      *)
THEOREM Invariance == Spec => []IInv
<1>1. Init => IInv
  BY InitInv
<1>2. IInv /\ [Next]_vars => IInv'
  BY NextInv
<1> QED
  BY <1>1, <1>2, PTL DEF Spec

(* The variables of the driver and of the reader have their types: head    *)
(* and tail never leave the ring.                                          *)
THEOREM TypeCorrect == Spec => []TypeOK
<1>1. IInv => TypeOK
  BY DEF IInv
<1> QED
  BY <1>1, Invariance, PTL

(* The slot from which kbd_dequeue reads is not overwritten before it has  *)
(* moved the tail, however many keyboard interrupts come in between.       *)
THEOREM SlotStaysRead == Spec => []ReaderKeepsSlot
<1>1. IInv => ReaderKeepsSlot
  BY DEF IInv
<1> QED
  BY <1>1, Invariance, PTL

(* keyboard_getEvent after keyboard_getchar never returns the EOF of an    *)
(* earlier character.                                                      *)
THEOREM EofIsFresh == Spec => []EofBelongsToChar
<1>1. IInv => EofBelongsToChar
  BY DEF IInv
<1> QED
  BY <1>1, Invariance, PTL

(* When keyboard_getchar has read all codes and none was dropped, ctrl is  *)
(* what the keyboard says and shift is not stuck.                          *)
THEOREM ModifiersCorrect == Spec => []ModifiersFollowKeys
<1>1. IInv => ModifiersFollowKeys
  <2> SUFFICES ASSUME IInv, Drained, ~dropped
               PROVE  /\ is_ctrl_pressed <=> "ctrl" \in down
                      /\ is_shift_pressed => down \cap Shifts # {}
    BY DEF ModifiersFollowKeys
  <2>1. Len(Content) = 0
    BY RingSeq DEF Drained
  <2>2. \A k : NotInRing(k) /\ ~InHand(k)
    BY <2>1 DEF NotInRing, InHand, Drained
  <2>3. CtrlFlag /\ ShiftFlag
    BY DEF IInv, ModifiersTracked
  <2> QED
    BY <2>2, <2>3 DEF CtrlFlag, ShiftFlag
<1> QED
  BY <1>1, Invariance, PTL

(* The ring, filled by the interrupt handler and emptied by the thread in  *)
(* several steps, is a bounded queue: codes are decoded in the order in    *)
(* which the keyboard sent them, and only a full ring loses one.           *)
THEOREM Refinement == Spec => FifoSpec
<1> USE DEF charVars
<1>1. Init => Fifo!Init
  <2> SUFFICES ASSUME Init PROVE Fifo!Init
    OBVIOUS
  <2>1. Content = <<>>
    BY InitInv, RingSeq, EmptySeq DEF Init, RingInit
  <2> QED
    BY <2>1 DEF Init, Fifo!Init
<1>2. IInv /\ [Next]_vars => [Fifo!Next]_(Fifo!vars)
  <2> SUFFICES ASSUME IInv, [Next]_vars PROVE [Fifo!Next]_(Fifo!vars)
    OBVIOUS
  <2>1. CASE KeyboardInterrupt
    <3>1. scancode' = scancode
      BY <2>1 DEF KeyboardInterrupt
    <3>2. CASE /\ Len(Content) = KBD_BUFFER_SIZE - 1
               /\ UNCHANGED Content /\ dropped' = TRUE
      BY <3>1, <3>2 DEF Fifo!Next, Fifo!Refuse
    <3>3. ASSUME NEW code \in Scancode, Len(Content) < KBD_BUFFER_SIZE - 1,
                 Content' = Append(Content, code), UNCHANGED dropped
          PROVE  Fifo!Next
      BY <3>1, <3>3 DEF Fifo!Next, Fifo!Put
    <3> QED
      BY <2>1, <3>2, <3>3, KeyboardInterruptInv
  <2>2. CASE Test /\ kbd_head = kbd_tail
    <3>1. Content = <<>> /\ Content' = Content
      BY <2>2, RingSeq, EmptySeq DEF Test, ringVars, Content
    <3>2. scancode' = NoCode /\ UNCHANGED dropped
      BY <2>2 DEF Test, userVars
    <3> QED
      BY <3>1, <3>2 DEF Fifo!Next, Fifo!FindEmpty
  <2>3. CASE Advance
    <3>1. Content # <<>> /\ scancode' = Head(Content) /\ Content' = Tail(Content)
      BY <2>3, AdvanceInv DEF Advance
    <3>2. UNCHANGED dropped
      BY <2>3 DEF Advance, userVars
    <3> QED
      BY <3>1, <3>2 DEF Fifo!Next, Fifo!Take
  <2>4. CASE \/ TimerInterrupt \/ Call \/ Halt \/ Fetch \/ Decode
             \/ (Test /\ kbd_head # kbd_tail) \/ UNCHANGED vars
    <3>1. UNCHANGED <<ringVars, scancode, dropped>>
      BY <2>4 DEF userVars, TimerInterrupt, Call, Test, Halt, Fetch, Decode, vars
    <3> QED
      BY <3>1 DEF Fifo!vars, Content, ringVars
  <2> QED
    BY <2>1, <2>2, <2>3, <2>4 DEF Next, Reader
<1> QED
  BY <1>1, <1>2, Invariance, PTL DEF Spec, FifoSpec, Fifo!Spec
=============================================================================
