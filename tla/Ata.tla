--------------------------------- MODULE Ata --------------------------------
(***************************************************************************)
(* The disk driver (drivers/ide.c) against the device it polls.            *)
(*                                                                         *)
(* The device is external: it is what the driver expects of the command    *)
(* block of an ATA disk.  A sector number is split between the register    *)
(* that selects the drive (its upper 4 bits of 28) and the three address   *)
(* registers, which are one here.  The 256 words of a sector are one value.*)
(* A device that fails a command sets ERR and offers no data.              *)
(***************************************************************************)
EXTENDS Integers

CONSTANTS Values, Size, Bad, Requests,   \* as in Disk
          Upper,   \* values of the upper bits of a sector number (2^4)
          Lower    \* values of the others (2^24)

Sectors == 0 .. Size - 1

VARIABLES
  content,   \* of the sectors of the disk
  status,    \* of the device: BSY, DRQ, ERR
  command,   \* it executes; store is write when the data has arrived
  address,   \* the address registers
  latch,     \* the sector in the data register, while there is one
  intrq,     \* the interrupt line
  pc,        \* where the driver is
  request,   \* parameters of the call
  buffer,    \* what a read has taken from the data register
  answer     \* result of the last call

deviceVars == <<content, status, command, address, latch>>
driverVars == <<pc, request, buffer, answer>>
vars == <<deviceVars, intrq, driverVars>>

NoValue == "none"

Init ==
  /\ content \in [Sectors -> Values]
  /\ status = {} /\ command = "none"
  /\ address = [upper |-> 0, lower |-> 0]
  /\ latch = NoValue /\ buffer = NoValue
  /\ intrq = FALSE
  /\ pc = "idle" /\ request \in Requests /\ answer = "ok"

-----------------------------------------------------------------------------
(* The driver.                                                             *)

Goto(from, to) == pc = from /\ pc' = to

(* A thread calls ataReadSector or ataWriteSector.                         *)
Call ==
  /\ Goto("idle", "select")
  /\ request' \in Requests
  /\ answer' = "none"
  /\ UNCHANGED <<deviceVars, intrq, buffer>>

(* Every read of the status register takes back the interrupt request.     *)
ReadStatus == intrq' = FALSE

(* The drive register, and four reads of the status for a delay.           *)
SelectDrive ==
  /\ Goto("select", "address")
  /\ address' = [address EXCEPT !.upper = (request.lba \div Lower) % Upper]
  /\ ReadStatus
  /\ UNCHANGED <<content, status, command, latch, request, buffer, answer>>

SetAddress ==
  /\ Goto("address", "command")
  /\ address' = [address EXCEPT !.lower = request.lba % Lower]
  /\ UNCHANGED <<content, status, command, latch, intrq, request, buffer, answer>>

(* The device takes a command when it is not busy.                         *)
Send(c) == IF "BSY" \in status THEN UNCHANGED <<status, command>>
                               ELSE status' = {"BSY"} /\ command' = c

SendCommand ==
  /\ Goto("command", "poll")
  /\ Send(request.kind)
  /\ UNCHANGED <<content, address, latch, intrq, request, buffer, answer>>

Return(result) == pc' = "idle" /\ answer' = result

(* Mutation: the loop waits for DRQ whatever ERR says.                     *)
PollLoop_NoError ==
  /\ pc = "poll"
  /\ ReadStatus
  /\ IF "BSY" \notin status /\ "DRQ" \in status THEN pc' = "transfer"
                                                  ELSE UNCHANGED pc
  /\ UNCHANGED <<deviceVars, request, buffer, answer>>

(* One round of the polling loop.                                          *)
PollLoop ==
  /\ pc = "poll"
  /\ ReadStatus
  /\ \/ "BSY" \notin status /\ "DRQ" \in status
        /\ pc' = "transfer" /\ UNCHANGED answer
     \/ ~("BSY" \notin status /\ "DRQ" \in status) /\ "ERR" \in status
        /\ Return("error")
     \/ ~("BSY" \notin status /\ "DRQ" \in status) /\ "ERR" \notin status
        /\ UNCHANGED <<pc, answer>>
  /\ UNCHANGED <<deviceVars, request, buffer>>

(* 256 words in, and one last read of the status.                          *)
ReadData ==
  /\ pc = "transfer" /\ request.kind = "read"
  /\ pc' = "last status"
  /\ buffer' = latch /\ latch' = NoValue
  /\ status' = status \ {"DRQ"}
  /\ UNCHANGED <<content, command, address, intrq, request, answer>>

LastStatus ==
  /\ pc = "last status"
  /\ ReadStatus
  /\ Return(buffer) /\ buffer' = NoValue
  /\ UNCHANGED <<deviceVars, request>>

(* 256 words out, on which the device goes on by itself.                   *)
WriteData ==
  /\ pc = "transfer" /\ request.kind = "write"
  /\ pc' = "flush"
  /\ latch' = request.value
  /\ status' = {"BSY"} /\ command' = "store"
  /\ UNCHANGED <<content, address, intrq, request, buffer, answer>>

(* FLUSH CACHE, which a device still busy with the data does not take.     *)
SendFlush ==
  /\ Goto("flush", "settle")
  /\ Send("flush")
  /\ UNCHANGED <<content, address, latch, intrq, request, buffer, answer>>

(* Mutation: the driver does not wait for the end of the write.            *)
Settle_NoWait ==
  /\ pc = "settle"
  /\ ReadStatus
  /\ Return("ok")
  /\ UNCHANGED <<deviceVars, request, buffer>>

(* The loop at the end of ataWriteSector looks for BSY alone.              *)
Settle ==
  /\ pc = "settle" /\ "BSY" \notin status
  /\ ReadStatus
  /\ Return("ok")
  /\ UNCHANGED <<deviceVars, request, buffer>>

-----------------------------------------------------------------------------
(* The device.                                                             *)

Addressed == address.upper * Lower + address.lower

Executes(c) == "BSY" \in status /\ command = c

(* A command ends with that status, and with an interrupt.                 *)
Ends(result) == status' = result /\ command' = "none" /\ intrq' = TRUE
                /\ UNCHANGED <<address, driverVars>>

DeviceReads ==
  /\ Executes("read") /\ Addressed \in Sectors \ Bad
  /\ latch' = content[Addressed]
  /\ Ends({"DRQ"})
  /\ UNCHANGED content

DeviceFails ==
  /\ \/ Executes("read") /\ Addressed \notin Sectors \ Bad
     \/ Executes("write") /\ Addressed \notin Sectors
  /\ Ends({"ERR"})
  /\ UNCHANGED <<content, latch>>

(* For the data of a write the device asks without an interrupt.           *)
DeviceWantsData ==
  /\ Executes("write") /\ Addressed \in Sectors
  /\ status' = {"DRQ"}
  /\ UNCHANGED <<content, command, address, latch, intrq, driverVars>>

DeviceStores ==
  /\ Executes("store")
  /\ IF Addressed \in Bad
       THEN Ends({"ERR"}) /\ UNCHANGED content
       ELSE Ends({}) /\ content' = [content EXCEPT ![Addressed] = latch]
  /\ latch' = NoValue

DeviceFlushes ==
  /\ Executes("flush")
  /\ Ends({})
  /\ UNCHANGED <<content, latch>>

-----------------------------------------------------------------------------
DriverStep ==
  \/ SelectDrive \/ SetAddress \/ SendCommand \/ PollLoop
  \/ ReadData \/ LastStatus \/ WriteData \/ SendFlush \/ Settle

DeviceStep ==
  DeviceReads \/ DeviceFails \/ DeviceWantsData \/ DeviceStores \/ DeviceFlushes

-----------------------------------------------------------------------------
DiskPromise == INSTANCE Disk WITH Space <- Upper * Lower

(* Driver and device keep the promise of Disk: what is answered with       *)
(* success was transferred from or to the sector asked for, if the medium  *)
(* took it, and an error has changed nothing.                              *)
DiskSpec == DiskPromise!Spec
=============================================================================
