---------------------------- MODULE BoundedFifo ----------------------------
(***************************************************************************)
(* What a buffer between an interrupt handler and a thread promises:       *)
(* items come out in the order in which they went in, none twice and none  *)
(* that was not put in; an item is refused only when the buffer is full,   *)
(* and the reader is told that the buffer is empty only when it is.        *)
(***************************************************************************)
EXTENDS Naturals, Sequences

CONSTANTS Item,      \* what can be put in the buffer
          Capacity,  \* how many items it holds
          Nothing    \* what the reader gets from an empty buffer

VARIABLES queue,     \* the items in the buffer, oldest first
          taken,     \* the result of the reader's last attempt
          refused    \* some item was not put in

vars == <<queue, taken, refused>>

Init == queue = <<>> /\ taken = Nothing /\ refused = FALSE

Put(item) == /\ Len(queue) < Capacity
             /\ queue' = Append(queue, item)
             /\ UNCHANGED <<taken, refused>>

Refuse == /\ Len(queue) = Capacity
          /\ refused' = TRUE
          /\ UNCHANGED <<queue, taken>>

Take == /\ queue # <<>>
        /\ taken' = Head(queue)
        /\ queue' = Tail(queue)
        /\ UNCHANGED refused

FindEmpty == /\ queue = <<>>
             /\ taken' = Nothing
             /\ UNCHANGED <<queue, refused>>

Next == (\E item \in Item : Put(item)) \/ Refuse \/ Take \/ FindEmpty

Spec == Init /\ [][Next]_vars
=============================================================================
