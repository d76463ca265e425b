---------------------------- MODULE MCInterrupts ----------------------------
(***************************************************************************)
(* Interrupts for TLC: a disk of two sectors of which one is damaged, a    *)
(* command that can address four, and requests for each kind of sector.    *)
(***************************************************************************)
EXTENDS Interrupts

CONSTANTS u, v

MCValues == {u, v}

Read(n)     == [kind |-> "read", lba |-> n, value |-> u]
Write(n, x) == [kind |-> "write", lba |-> n, value |-> x]

MCRequests == {Read(1), Read(0), Write(5, v), Write(0, v), Write(3, v)}
=============================================================================
