------------------------------ MODULE Keyboard ------------------------------
(***************************************************************************)
(* The keyboard driver (drivers/keyboard.c): the interrupt handler puts    *)
(* scan codes in a ring, keyboard_getchar takes them out in the thread of  *)
(* the command line, several instructions at a time, and turns them into   *)
(* characters.                                                             *)
(*                                                                         *)
(* keyboard_callback runs with interrupts off and is one step.  A step of  *)
(* the thread is what it does between two accesses to the ring; timer      *)
(* interrupts and other threads only come between its steps.  The kernel   *)
(* is compiled without optimization, so every access goes to memory.       *)
(***************************************************************************)
EXTENDS Integers, Sequences

CONSTANTS KBD_BUFFER_SIZE,  \* slots of the ring, one of which stays empty
          Keys              \* the keys of the keyboard

(* One key for every way in which keyboard_getchar treats a key: the three *)
(* modifiers, the letter that makes EOF with ctrl, a key without character.*)
Shifts    == {"lshift", "rshift"}
Modifiers == Shifts \cup {"ctrl"}

(* The code has 256 slots.                                                 *)
ASSUME KeyboardAssumption ==
  /\ KBD_BUFFER_SIZE \in Nat /\ KBD_BUFFER_SIZE >= 2
  /\ Keys \subseteq Modifiers \cup {"d", "alt"}

Slots == 0 .. KBD_BUFFER_SIZE - 1

(* A key sends one code when it is pressed (and again while it is held)    *)
(* and another one, with bit 0x80, when it is released.                    *)
Scancode == [key : Keys, make : BOOLEAN]
NoCode   == [key |-> "none", make |-> FALSE]   \* the -1 of kbd_dequeue
NoChar   == "no char"

VARIABLES
  kbd_buffer, kbd_head, kbd_tail,     \* the ring
  is_shift_pressed, is_ctrl_pressed, currentEvent,
  pc,        \* where the thread is in keyboard_getchar, "away" outside it
  fetched,   \* scancode in kbd_dequeue
  scancode,  \* scancode in keyboard_getchar
  result,    \* the character keyboard_getchar returned last
  down,      \* the modifier keys that are physically down (not code)
  dropped    \* some code found the ring full (not code)

ringVars == <<kbd_buffer, kbd_head, kbd_tail>>
charVars == <<is_shift_pressed, is_ctrl_pressed, currentEvent, result>>
userVars == <<down, dropped>>
vars == <<ringVars, charVars, userVars, pc, fetched, scancode>>

RingInit ==
  /\ kbd_buffer = [i \in Slots |-> NoCode]
  /\ kbd_head = 0 /\ kbd_tail = 0

FlagsInit == is_shift_pressed = FALSE /\ is_ctrl_pressed = FALSE

Init ==
  /\ RingInit /\ FlagsInit
  /\ currentEvent = "NONE_EV"
  /\ pc = "away"
  /\ fetched = NoCode /\ scancode = NoCode
  /\ result = NoChar
  /\ down = {} /\ dropped = FALSE

After(i) == (i + 1) % KBD_BUFFER_SIZE

-----------------------------------------------------------------------------
(* Interrupts.                                                             *)

(* Mutation: when the ring is full the oldest code makes room.             *)
kbd_enqueue_Overwrite(code) ==
  /\ kbd_buffer' = [kbd_buffer EXCEPT ![kbd_head] = code]
  /\ kbd_head' = After(kbd_head)
  /\ kbd_tail' = IF After(kbd_head) = kbd_tail THEN After(kbd_tail)
                                               ELSE kbd_tail
  /\ dropped' = dropped

(* Mutation: the ring is taken for full one code too early.                *)
kbd_enqueue_Early(code) ==
  IF After(After(kbd_head)) # kbd_tail
    THEN /\ kbd_buffer' = [kbd_buffer EXCEPT ![kbd_head] = code]
         /\ kbd_head' = After(kbd_head)
         /\ UNCHANGED <<kbd_tail, dropped>>
    ELSE /\ dropped' = TRUE
         /\ UNCHANGED ringVars

(* kbd_enqueue: the code that finds the ring full is lost.                 *)
kbd_enqueue(code) ==
  IF After(kbd_head) # kbd_tail
    THEN /\ kbd_buffer' = [kbd_buffer EXCEPT ![kbd_head] = code]
         /\ kbd_head' = After(kbd_head)
         /\ UNCHANGED <<kbd_tail, dropped>>
    ELSE /\ dropped' = TRUE
         /\ UNCHANGED ringVars

(* An interrupt that finds the processor halted ends the hlt.              *)
Wake == pc' = IF pc = "halted" THEN "test" ELSE pc

(* IRQ 1, keyboard_callback: a key was pressed, is held, or was released.  *)
KeyboardInterrupt ==
  /\ \E code \in Scancode :
       /\ ~code.make /\ code.key \in Modifiers => code.key \in down
       /\ down' = IF code.key \notin Modifiers THEN down
                  ELSE IF code.make THEN down \cup {code.key}
                                    ELSE down \ {code.key}
       /\ kbd_enqueue(code)
  /\ Wake
  /\ UNCHANGED <<charVars, fetched, scancode>>

(* Mutation: the timer interrupt returns to the hlt instruction.           *)
TimerInterrupt_NoWake == pc = "halted" /\ UNCHANGED vars

(* IRQ 0, of which the driver only sees that it ends a hlt.                *)
TimerInterrupt ==
  /\ pc = "halted"
  /\ Wake
  /\ UNCHANGED <<ringVars, charVars, userVars, fetched, scancode>>

-----------------------------------------------------------------------------
(* keyboard_getchar.                                                       *)

(* cliReadline or write_ wants a character.                                *)
Call ==
  /\ pc = "away"
  /\ pc' = "test"
  /\ UNCHANGED <<ringVars, charVars, userVars, fetched, scancode>>

(* kbd_dequeue: is there a code?  Before the hlt that follows an empty     *)
(* ring there is room for another interrupt.                               *)
Test ==
  /\ pc = "test"
  /\ IF kbd_head = kbd_tail THEN scancode' = NoCode /\ pc' = "empty"
                            ELSE pc' = "fetch" /\ UNCHANGED scancode
  /\ UNCHANGED <<ringVars, charVars, userVars, fetched>>

Halt ==
  /\ pc = "empty"
  /\ pc' = "halted"
  /\ UNCHANGED <<ringVars, charVars, userVars, fetched, scancode>>

(* kbd_dequeue: scancode = kbd_buffer[kbd_tail].                           *)
Fetch ==
  /\ pc = "fetch"
  /\ fetched' = kbd_buffer[kbd_tail]
  /\ pc' = "advance"
  /\ UNCHANGED <<ringVars, charVars, userVars, scancode>>

(* kbd_dequeue: the tail moves on, the code is returned; the local         *)
(* variable fetched ends here.                                             *)
Advance ==
  /\ pc = "advance"
  /\ kbd_tail' = After(kbd_tail)
  /\ scancode' = fetched /\ fetched' = NoCode
  /\ pc' = "decode"
  /\ UNCHANGED <<kbd_buffer, kbd_head, charVars, userVars>>

(* keyTable and keyTableShift; 0 where the tables hold 0 or end.           *)
CharOf(key, shift) == IF key # "d" THEN NoChar
                      ELSE IF shift THEN "D" ELSE "d"

Continue == pc' = "test" /\ UNCHANGED result

(* Mutation: codes with bit 0x80 are skipped before the modifiers are      *)
(* looked at.                                                              *)
Decode_BreaksFirst ==
  /\ pc = "decode"
  /\ currentEvent' = "NONE_EV"
  /\ is_ctrl_pressed' = (is_ctrl_pressed \/ scancode.key = "ctrl")
  /\ is_shift_pressed' = (is_shift_pressed \/ scancode.key \in Shifts)
  /\ IF scancode.key = "d" /\ scancode.make
       THEN result' = CharOf("d", is_shift_pressed) /\ pc' = "away"
       ELSE Continue
  /\ UNCHANGED <<ringVars, userVars, fetched, scancode>>

(* Mutation: the event is only ever set.                                   *)
Decode_EventKept ==
  LET c == CharOf(scancode.key, is_shift_pressed)
  IN  /\ pc = "decode"
      /\ is_ctrl_pressed' = IF scancode.key = "ctrl" THEN scancode.make
                                                     ELSE is_ctrl_pressed
      /\ is_shift_pressed' = IF scancode.key \in Shifts THEN scancode.make
                                                        ELSE is_shift_pressed
      /\ currentEvent' = IF scancode.make /\ is_ctrl_pressed /\ c = "d"
                           THEN "EOF_EV" ELSE currentEvent
      /\ IF scancode.make /\ c # NoChar THEN result' = c /\ pc' = "away"
                                        ELSE Continue
      /\ UNCHANGED <<ringVars, userVars, fetched, scancode>>

(* The rest of the loop of keyboard_getchar: a modifier sets or clears its *)
(* flag, a pressed key with a character ends the call.                     *)
Decode ==
  LET c == CharOf(scancode.key, is_shift_pressed)
  IN  /\ pc = "decode"
      /\ is_ctrl_pressed' = IF scancode.key = "ctrl" THEN scancode.make
                                                     ELSE is_ctrl_pressed
      /\ is_shift_pressed' = IF scancode.key \in Shifts THEN scancode.make
                                                        ELSE is_shift_pressed
      /\ currentEvent' = IF scancode.make /\ is_ctrl_pressed /\ c = "d"
                           THEN "EOF_EV" ELSE "NONE_EV"
      /\ IF scancode.make /\ c # NoChar THEN result' = c /\ pc' = "away"
                                        ELSE Continue
      /\ UNCHANGED <<ringVars, userVars, fetched, scancode>>

-----------------------------------------------------------------------------
Reader == Test \/ Halt \/ Fetch \/ Advance \/ Decode

Next == KeyboardInterrupt \/ TimerInterrupt \/ Call \/ Reader

Spec == Init /\ [][Next]_vars

(* The timer fires for ever; the thread of the command line is scheduled   *)
(* again and again (EveryReadyThreadRuns of module Scheduler).  Nobody has *)
(* to press a key, and a caller may stay away for ever.                    *)
FairSpec == Spec /\ WF_vars(TimerInterrupt) /\ WF_vars(Reader)

-----------------------------------------------------------------------------
(* Properties.                                                             *)

TypeOK ==
  /\ kbd_buffer \in [Slots -> Scancode \cup {NoCode}]
  /\ kbd_head \in Slots /\ kbd_tail \in Slots
  /\ is_shift_pressed \in BOOLEAN /\ is_ctrl_pressed \in BOOLEAN
  /\ currentEvent \in {"NONE_EV", "EOF_EV"}
  /\ pc \in {"away", "test", "empty", "halted", "fetch", "advance", "decode"}
  /\ fetched \in Scancode \cup {NoCode}
  /\ scancode \in Scancode \cup {NoCode}
  /\ result \in {NoChar, "d", "D"}
  /\ down \in SUBSET Modifiers
  /\ dropped \in BOOLEAN

(* The codes in the ring, oldest first.                                    *)
CountOf(head, tail) == IF head >= tail THEN head - tail
                                       ELSE head - tail + KBD_BUFFER_SIZE
SlotOf(tail, i) == (tail + i - 1) % KBD_BUFFER_SIZE
ContentOf(buffer, head, tail) ==
  [i \in 1 .. CountOf(head, tail) |-> buffer[SlotOf(tail, i)]]
Content == ContentOf(kbd_buffer, kbd_head, kbd_tail)

(* The ring together with the reader is a queue of KBD_BUFFER_SIZE - 1     *)
(* codes: interrupts that strike between the three accesses of kbd_dequeue *)
(* neither lose, duplicate nor reorder a code, and the first code that is  *)
(* dropped finds the ring full.                                            *)
Fifo == INSTANCE BoundedFifo WITH
          Item <- Scancode, Capacity <- KBD_BUFFER_SIZE - 1,
          Nothing <- NoCode, queue <- Content, taken <- scancode,
          refused <- dropped

FifoSpec == Fifo!Spec

(* What kbd_dequeue has tested and read stays true until it moves the      *)
(* tail, whatever the interrupt handler does in between.                   *)
ReaderKeepsSlot ==
  /\ pc \in {"fetch", "advance"} => kbd_head # kbd_tail
  /\ pc = "advance" => fetched = kbd_buffer[kbd_tail]

Drained == kbd_head = kbd_tail /\ pc \in {"away", "test", "empty", "halted"}

(* Unless a code was lost, the modifiers agree with the keyboard once all  *)
(* codes are read.  (Of shift only one direction holds: releasing one of   *)
(* two shift keys clears the common flag.)                                 *)
ModifiersFollowKeys ==
  Drained /\ ~dropped =>
    /\ is_ctrl_pressed <=> "ctrl" \in down
    /\ is_shift_pressed => down \cap Shifts # {}

(* An EOF event belongs to the character just returned: write_ asks for    *)
(* the event after keyboard_getchar and must not see an old one.           *)
EofBelongsToChar ==
  currentEvent = "EOF_EV" =>
    result = "d" /\ is_ctrl_pressed /\ ~is_shift_pressed

(* A code that arrives between the test for an empty ring and the hlt does *)
(* not wait for the next key: the reader takes it.                         *)
NoLostWakeup ==
  (pc \in {"empty", "halted"} /\ kbd_head # kbd_tail) ~> pc = "advance"

-----------------------------------------------------------------------------
(* The inductive invariant that KeyboardProofs proves.                     *)

(* The slots between tail and head hold codes.                             *)
RingOf(b, h, t) == /\ b \in [Slots -> Scancode \cup {NoCode}]
                   /\ h \in Slots /\ t \in Slots
                   /\ \A i \in 1 .. CountOf(h, t) : b[SlotOf(t, i)] \in Scancode

RingOK == RingOf(kbd_buffer, kbd_head, kbd_tail)

CodeInHand == pc = "decode" => scancode \in Scancode

(* Key k has no code in the ring; the code in the reader's hand is of k.   *)
NotInRing(k) == \A i \in 1 .. Len(Content) : Content[i].key # k
InHand(k)    == pc = "decode" /\ scancode.key = k

(* The last code of key k that is still to be decoded, if there is one,    *)
(* tells where the key is.                                                 *)
LastCodeTells(k) ==
  /\ \A i \in 1 .. Len(Content) :
       /\ Content[i].key = k
       /\ \A j \in i + 1 .. Len(Content) : Content[j].key # k
       => (Content[i].make <=> k \in down)
  /\ InHand(k) /\ NotInRing(k) => (scancode.make <=> k \in down)

(* If none is, the flag does; the flag of shift was set by one of its two  *)
(* keys, and clearing it clears it for both.                               *)
CtrlFlag == NotInRing("ctrl") /\ ~InHand("ctrl") =>
              (is_ctrl_pressed <=> "ctrl" \in down)
ShiftFlag == is_shift_pressed /\ (\A k \in Shifts : ~InHand(k)) =>
               \E k \in Shifts : NotInRing(k) => k \in down

ModifiersTracked ==
  ~dropped => /\ \A k \in Modifiers : LastCodeTells(k)
              /\ CtrlFlag /\ ShiftFlag

IInv == /\ TypeOK /\ RingOK /\ CodeInHand
        /\ ReaderKeepsSlot
        /\ EofBelongsToChar
        /\ ModifiersTracked
=============================================================================
