------------------------------- MODULE Serial -------------------------------
(***************************************************************************)
(* The serial line (drivers/serial.c): a thread and the interrupt handlers *)
(* print by polling the transmitter and storing a character into it.  A    *)
(* handler can come between the two steps of the thread.                   *)
(*                                                                         *)
(* Texts are as long as TextLength; a character is its writer and its      *)
(* place in the text.                                                      *)
(***************************************************************************)
EXTENDS Integers, SequencesExt

CONSTANTS
  Writers,
  TextLength,
  FifoSize     \* of the transmitter, if enabled (16)

VARIABLES
  fifo,      \* characters in the transmitter
  position,  \* place of the next character of each writer in its text
  ready,     \* whether it has seen the transmitter empty
  heard      \* not code: the last character of each writer sent out

vars == <<fifo, position, ready, heard>>

After(i) == (i % TextLength) + 1

(* Mutation: serial_init leaves the FIFO off.                              *)
Capacity_NoFifo == 1

(* serial_init enables the FIFO (0xC7).                                    *)
Capacity == FifoSize

Init ==
  /\ fifo = <<>>
  /\ position = [w \in Writers |-> 1]
  /\ ready = [w \in Writers |-> FALSE]
  /\ heard = [w \in Writers |-> TextLength]

(* The loop of serial_putchar: bit 5 of the line status says that the      *)
(* transmitter is empty, FIFO and all.                                     *)
Poll(w) ==
  /\ ~ready[w] /\ fifo = <<>>
  /\ ready' = [ready EXCEPT ![w] = TRUE]
  /\ UNCHANGED <<fifo, position, heard>>

(* A character stored into a full transmitter is lost.                     *)
Put(w) ==
  /\ ready[w]
  /\ fifo' = IF Len(fifo) < Capacity THEN Append(fifo, <<w, position[w]>>)
                                     ELSE fifo
  /\ position' = [position EXCEPT ![w] = After(@)]
  /\ ready' = [ready EXCEPT ![w] = FALSE]
  /\ UNCHANGED heard

Transmit ==
  /\ fifo # <<>>
  /\ heard' = [heard EXCEPT ![Head(fifo)[1]] = Head(fifo)[2]]
  /\ fifo' = Tail(fifo)
  /\ UNCHANGED <<position, ready>>

(* Not inside a text.                                                      *)
Silent(w) == position[w] = 1 /\ ~ready[w]

(* The place in its text of the last character of w that has left or is    *)
(* among the first n in the transmitter.                                   *)
Latest(w, n) ==
  LET own == {i \in 1 .. n : fifo[i][1] = w}
  IN  IF own = {} THEN heard[w] ELSE fifo[Max(own)][2]

(* The texts of the writers are mixed on the line, but each writer's own   *)
(* characters leave in its order and none is missing, although a handler   *)
(* may fill the transmitter that a thread has seen empty.                  *)
TextsInOrder ==
  /\ \A n \in DOMAIN fifo : fifo[n][2] = After(Latest(fifo[n][1], n - 1))
  /\ \A w \in Writers : position[w] = After(Latest(w, Len(fifo)))
=============================================================================
