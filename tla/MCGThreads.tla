---------------------------- MODULE MCGThreads ----------------------------
(***************************************************************************)
(* GThreads for TLC: main and two threads, and a queue above, at and below *)
(* the priority they start with.                                           *)
(***************************************************************************)
EXTENDS GThreads

MCAllAlgs    == {"RR", "RP", "LOT"}
MCRoundRobin == {"RR"}
MCPriority   == {"RP"}

MCFirst == -1
MCSecondFirst == -2
=============================================================================
