-------------------------------- MODULE Disk --------------------------------
(***************************************************************************)
(* What ataReadSector and ataWriteSector promise to their callers: one     *)
(* request at a time, answered once; a successful read is answered with    *)
(* what was stored last, an error has stored nothing.                      *)
(*                                                                         *)
(* The promise has a hole: a write that the medium refuses after the       *)
(* driver has handed over the data is answered like any other.             *)
(***************************************************************************)
EXTENDS Integers

CONSTANTS
  Values,    \* contents of a sector
  Size,      \* sectors of the disk
  Bad,       \* sectors whose medium is damaged
  Space,     \* sector numbers a command can hold (2^28)
  Requests   \* what callers ask for

VARIABLES
  content,   \* of the sectors
  request,   \* the last one
  answer     \* to it: "none" yet, "ok" (of a write), "error", a sector read

vars == <<content, request, answer>>

Sectors == 0 .. Size - 1

(* The upper four bits of a sector number are ignored.                     *)
Sector(r) == r.lba % Space

Init ==
  /\ content \in [Sectors -> Values]
  /\ request \in Requests
  /\ answer = "ok"

Ask ==
  /\ answer # "none"
  /\ request' \in Requests
  /\ answer' = "none"
  /\ UNCHANGED content

Pending(kind) == answer = "none" /\ request.kind = kind

Store ==
  /\ Pending("write") /\ Sector(request) \in Sectors \ Bad
  /\ content' = [content EXCEPT ![Sector(request)] = request.value]
  /\ UNCHANGED <<request, answer>>

AnswerWrite ==
  /\ Pending("write") /\ Sector(request) \in Sectors
  /\ Sector(request) \in Bad \/ content[Sector(request)] = request.value
  /\ answer' = "ok"
  /\ UNCHANGED <<content, request>>

AnswerRead ==
  /\ Pending("read") /\ Sector(request) \in Sectors \ Bad
  /\ answer' = content[Sector(request)]
  /\ UNCHANGED <<content, request>>

Refuse ==
  /\ \/ answer = "none" /\ Sector(request) \notin Sectors
     \/ Pending("read") /\ Sector(request) \in Bad
  /\ answer' = "error"
  /\ UNCHANGED <<content, request>>

Next == Ask \/ Store \/ AnswerWrite \/ AnswerRead \/ Refuse

Spec == Init /\ [][Next]_vars
=============================================================================
