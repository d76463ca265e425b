--------------------------- MODULE InterruptsProofs ---------------------------
(***************************************************************************)
(* Theorems about Interrupts for every disk, every set of requests, every  *)
(* length of the texts and every FIFO of at least two places: the promise  *)
(* of Disk is kept, texts leave in order, no request stays in service.     *)
(*                                                                         *)
(* The invariant has a part for each of the drivers and one for the        *)
(* processor.  They meet in one place: a handler that has seen the         *)
(* transmitter empty is printing, so nobody else can fill it.              *)
(***************************************************************************)
EXTENDS Interrupts, SequenceTheorems, WellFoundedInduction, TLAPS

-----------------------------------------------------------------------------
(* The disk driver and its device.                                         *)

Target == request.lba % (Upper * Lower)
OnDisk == Target \in Drive!Sectors
Stored == Target \in Bad \/ content[Target] = request.value

Idle(statuses) == status \in statuses /\ command = "none"
Busy(c)        == status = {"BSY"} /\ command = c

HasData   == /\ request.kind = "read" /\ OnDisk /\ Target \notin Bad
             /\ Idle({{"DRQ"}}) /\ latch = content[Target]
WantsData == /\ request.kind = "write" /\ OnDisk
             /\ status = {"DRQ"} /\ command = "write"
Failed    == /\ Idle({{"ERR"}})
             /\ ~OnDisk \/ (request.kind = "read" /\ Target \in Bad)

DriveTypes ==
  /\ content \in [Drive!Sectors -> Values]
  /\ request \in Requests
  /\ address \in [upper : Nat, lower : Nat]
  /\ pc \in {"idle", "select", "address", "command", "poll", "transfer",
             "last status", "flush", "settle"}
  /\ pc = "idle" <=> answer # "none"

AddressSet ==
  /\ pc \notin {"idle", "select"} =>
       address.upper = (request.lba \div Lower) % Upper
  /\ pc \notin {"idle", "select", "address"} =>
       address.lower = request.lba % Lower

DriveStates ==
  /\ pc \in {"idle", "select", "address", "command"} => Idle({{}, {"ERR"}})
  /\ pc = "poll" => Busy(request.kind) \/ HasData \/ WantsData \/ Failed
  /\ pc = "transfer" => HasData \/ WantsData
  /\ pc = "last status" =>
       /\ request.kind = "read" /\ OnDisk /\ Target \notin Bad
       /\ Idle({{}}) /\ buffer = content[Target]
  /\ pc \in {"flush", "settle"} =>
       /\ request.kind = "write" /\ OnDisk
       /\ \/ Busy("store") /\ latch = request.value
          \/ Stored /\ (Busy("flush") \/ Idle({{}, {"ERR"}}))

DriveInv == DriveTypes /\ AddressSet /\ DriveStates

-----------------------------------------------------------------------------
(* The serial line: whoever has seen the transmitter empty finds room.     *)

LineTypes ==
  /\ fifo \in Seq(Writers \X Nat)
  /\ position \in [Writers -> Nat] /\ heard \in [Writers -> Nat]
  /\ ready \in [Writers -> BOOLEAN]

RoomLeft ==
  /\ ready[Handler] => fifo = <<>> /\ vector # 0 /\ stage = "print"
  /\ ready[Thread] => Len(fifo) <= 1

LineInv == LineTypes /\ RoomLeft /\ TextsInOrder

-----------------------------------------------------------------------------
(* What is in service while a handler runs.                                *)

CpuInv ==
  \/ vector \in {0, 48} /\ inService = {}
  \/ vector = 32 /\ inService = {0}
  \/ vector = 33 /\ inService = {1}
  \/ vector = 46 /\ inService = {2, 14}
  \/ vector = 47 /\ inService = {2}

IInv == DriveInv /\ LineInv /\ CpuInv

-----------------------------------------------------------------------------
(* Division by a number that is not known.                                 *)

(* Quotient and remainder.                                                 *)
LEMMA DivMod ==
  ASSUME NEW a \in Nat, NEW m \in Nat \ {0}
  PROVE  /\ a \div m \in Nat /\ a % m \in 0 .. m - 1
         /\ a = (a \div m) * m + (a % m)
BY SMT

(* A positive multiple is not smaller than the number.                     *)
LEMMA AtLeastOnce ==
  ASSUME NEW k \in Int, NEW m \in Nat \ {0}, k >= 1
  PROVE  k * m >= m
BY SMT

(* A remainder is the only one in its range.                               *)
LEMMA RemainderOf ==
  ASSUME NEW m \in Nat \ {0}, NEW s \in Nat, NEW b \in 0 .. m - 1
  PROVE  (s * m + b) % m = b
<1> DEFINE a == s * m + b
           q == a \div m
<1>1. s * m \in Nat
  BY SMT
<1>2. a \in Nat
  BY <1>1
<1>3. q \in Nat /\ a % m \in 0 .. m - 1 /\ a = q * m + (a % m)
  <2> HIDE DEF a
  <2> QED
    BY <1>2, DivMod DEF q
<1>4. (q - s) * m = b - (a % m) /\ (s - q) * m = (a % m) - b
  BY <1>3
<1>5. ~(q - s >= 1)
  <2> DEFINE k == q - s
  <2>1. k \in Int
    BY <1>3
  <2> HIDE DEF k
  <2>2. k >= 1 => k * m >= m
    BY <2>1, AtLeastOnce
  <2> QED
    BY <1>3, <1>4, <2>2 DEF k
<1>6. ~(s - q >= 1)
  <2> DEFINE k == s - q
  <2>1. k \in Int
    BY <1>3
  <2> HIDE DEF k
  <2>2. k >= 1 => k * m >= m
    BY <2>1, AtLeastOnce
  <2> QED
    BY <1>3, <1>4, <2>2 DEF k
<1>7. q = s
  BY <1>3, <1>5, <1>6
<1> QED
  BY <1>3, <1>7

(* A number that is split between two registers is the number again, as    *)
(* far as they can hold it: what the drive and address registers select.   *)
LEMMA SplitNumber ==
  ASSUME NEW n \in Nat, NEW l \in Nat \ {0}, NEW u \in Nat \ {0}
  PROVE  ((n \div l) % u) * l + (n % l) = n % (u * l)
<1> DEFINE q == n \div l
           r == n % l
           s == q \div u
           t == q % u
<1>1. q \in Nat /\ r \in 0 .. l - 1 /\ n = q * l + r
  BY DivMod
<1>2. s \in Nat /\ t \in 0 .. u - 1 /\ q = s * u + t
  <2> HIDE DEF q
  <2> QED
    BY <1>1, DivMod DEF s, t
<1> HIDE DEF q, r, s, t
<1>3. /\ u * l \in Nat \ {0} /\ t * l + r \in Nat
      /\ n = s * (u * l) + (t * l + r)
  BY <1>1, <1>2
<1>4. (u - t) * l >= l
  <2> DEFINE k == u - t
  <2>1. k \in Int /\ k >= 1
    BY <1>2
  <2> HIDE DEF k
  <2>2. k * l >= l
    BY <2>1, AtLeastOnce
  <2> QED
    BY <2>2 DEF k
<1>5. (u - t) * l = u * l - t * l /\ t * l \in Nat
  BY <1>2
<1>6. t * l + r < u * l
  BY <1>1, <1>3, <1>4, <1>5
<1> DEFINE m == u * l
           b == t * l + r
<1>7. b \in 0 .. m - 1 /\ m \in Nat \ {0} /\ n = s * m + b
  BY <1>3, <1>6
<1> HIDE DEF m, b
<1>8. n % m = b
  BY <1>2, <1>7, RemainderOf
<1> QED
  BY <1>8 DEF m, b, q, r, t

-----------------------------------------------------------------------------
(* The disk.                                                               *)

(* What the assumptions say of the disk.                                   *)
LEMMA Constants ==
  /\ Upper \in Nat \ {0} /\ Lower \in Nat \ {0} /\ Size \in Nat
  /\ Bad \subseteq Drive!Sectors
  /\ "none" \notin Values /\ "ok" \notin Values /\ "error" \notin Values
  /\ \A r \in Requests : /\ r.kind \in {"read", "write"}
                         /\ r.lba \in Nat /\ r.value \in Values
BY InterruptsAssumption DEF InterruptsAssumption, Drive!Sectors

(* Once the driver has set the registers, they select the sector asked for.*)
LEMMA AddressedIsTarget ==
  ASSUME DriveInv, pc \notin {"idle", "select", "address"}
  PROVE  Drive!Addressed = Target
<1>1. request.lba \in Nat
  BY Constants DEF DriveInv, DriveTypes
<1>2. /\ address.upper = (request.lba \div Lower) % Upper
      /\ address.lower = request.lba % Lower
  BY DEF DriveInv, AddressSet
<1> QED
  BY <1>1, <1>2, Constants, SplitNumber DEF Drive!Addressed, Target

(* What the disk and its driver may do at the level of Disk.               *)
Promised == Drive!DiskPromise!Next \/ UNCHANGED Drive!DiskPromise!vars

(* The steps of the driver implement those of the disk.                    *)
LEMMA DriverKeeps ==
  ASSUME DriveInv, Drive!DriverStep
  PROVE  DriveInv' /\ Promised
<1> USE Constants DEF DriveInv, DriveTypes, AddressSet, DriveStates, Idle, Busy,
      Target, OnDisk, Drive!deviceVars, Drive!driverVars, Drive!Goto,
      Drive!ReadStatus, Promised, Drive!DiskPromise!vars
<1>1. CASE Drive!SelectDrive
  <2>1. address'.upper = (request.lba \div Lower) % Upper
    BY <1>1 DEF Drive!SelectDrive
  <2>2. address' \in [upper : Nat, lower : Nat]
    BY <1>1 DEF Drive!SelectDrive
  <2> QED
    BY <1>1, <2>1, <2>2 DEF Drive!SelectDrive
<1>2. CASE Drive!SetAddress
  <2>1. /\ address'.upper = address.upper
        /\ address'.lower = request.lba % Lower
    BY <1>2 DEF Drive!SetAddress
  <2>2. address' \in [upper : Nat, lower : Nat]
    BY <1>2 DEF Drive!SetAddress
  <2> QED
    BY <1>2, <2>1, <2>2 DEF Drive!SetAddress
<1>3. CASE Drive!SendCommand
  BY <1>3 DEF Drive!SendCommand, Drive!Send
<1>4. CASE Drive!PollLoop
  BY <1>4 DEF Drive!PollLoop, Drive!Return, HasData, WantsData, Failed,
     Drive!DiskPromise!Next, Drive!DiskPromise!Refuse, Drive!DiskPromise!Pending,
     Drive!DiskPromise!Sector, Drive!DiskPromise!Sectors, Drive!Sectors
<1>5. CASE Drive!ReadData
  BY <1>5 DEF Drive!ReadData, HasData, WantsData
<1>6. CASE Drive!LastStatus
  <2>1. content[Target] \in Values
    BY <1>6 DEF Drive!LastStatus
  <2>2. DriveInv'
    BY <1>6, <2>1 DEF Drive!LastStatus, Drive!Return
  <2>3. Drive!DiskPromise!AnswerRead
    BY <1>6 DEF Drive!LastStatus, Drive!Return, Drive!DiskPromise!AnswerRead,
       Drive!DiskPromise!Pending, Drive!DiskPromise!Sector,
       Drive!DiskPromise!Sectors, Drive!Sectors
  <2> QED
    BY <2>2, <2>3 DEF Drive!DiskPromise!Next
<1>7. CASE Drive!WriteData
  BY <1>7 DEF Drive!WriteData, HasData, WantsData
<1>8. CASE Drive!SendFlush
  BY <1>8 DEF Drive!SendFlush, Drive!Send, Stored
<1>9. CASE Drive!Settle
  BY <1>9 DEF Drive!Settle, Drive!Return, Stored, Drive!DiskPromise!Next,
     Drive!DiskPromise!AnswerWrite, Drive!DiskPromise!Pending,
     Drive!DiskPromise!Sector, Drive!DiskPromise!Sectors, Drive!Sectors
<1> QED
  BY <1>1, <1>2, <1>3, <1>4, <1>5, <1>6, <1>7, <1>8, <1>9 DEF Drive!DriverStep

(* So do the steps of the drive.                                           *)
LEMMA DeviceKeeps ==
  ASSUME DriveInv, Drive!DeviceStep
  PROVE  DriveInv' /\ Promised
<1> USE Constants DEF DriveInv, DriveTypes, AddressSet, DriveStates, Idle, Busy,
      HasData, WantsData, Failed, Stored, Target, OnDisk, Drive!Executes,
      Drive!Ends, Drive!driverVars
<1>1. pc \notin {"idle", "select", "address", "command"}
  BY DEF Drive!DeviceStep, Drive!DeviceReads, Drive!DeviceFails,
     Drive!DeviceWantsData, Drive!DeviceStores, Drive!DeviceFlushes
<1>2. Drive!Addressed = Target
  BY <1>1, AddressedIsTarget
<1>3. CASE Drive!DeviceReads
  BY <1>1, <1>2, <1>3 DEF Drive!DeviceReads, Promised, Drive!DiskPromise!vars
<1>4. CASE Drive!DeviceFails
  BY <1>1, <1>2, <1>4 DEF Drive!DeviceFails, Promised, Drive!DiskPromise!vars
<1>5. CASE Drive!DeviceWantsData
  BY <1>1, <1>2, <1>5
  DEF Drive!DeviceWantsData, Promised, Drive!DiskPromise!vars
<1>6. CASE Drive!DeviceStores
  <2>1. /\ pc \in {"flush", "settle"} /\ OnDisk /\ latch = request.value
        /\ request.kind = "write" /\ answer = "none"
    BY <1>1, <1>6 DEF Drive!DeviceStores
  <2>2. CASE Target \in Bad
    BY <1>1, <1>2, <1>6, <2>1, <2>2
    DEF Drive!DeviceStores, Promised, Drive!DiskPromise!vars
  <2>3. CASE Target \notin Bad
    <3>1. /\ content' = [content EXCEPT ![Target] = request.value]
          /\ UNCHANGED <<request, answer>>
      BY <1>2, <1>6, <2>1, <2>3 DEF Drive!DeviceStores
    <3>2. content' \in [Drive!Sectors -> Values] /\ content'[Target] = request.value
      BY <2>1, <3>1
    <3>3. DriveInv'
      BY <1>6, <2>1, <3>1, <3>2 DEF Drive!DeviceStores
    <3>4. Drive!DiskPromise!Store
      BY <2>1, <2>3, <3>1 DEF Drive!DiskPromise!Store, Drive!DiskPromise!Pending,
         Drive!DiskPromise!Sector, Drive!DiskPromise!Sectors, Drive!Sectors
    <3> QED
      BY <3>3, <3>4 DEF Promised, Drive!DiskPromise!Next
  <2> QED
    BY <2>2, <2>3
<1>7. CASE Drive!DeviceFlushes
  BY <1>1, <1>2, <1>7 DEF Drive!DeviceFlushes, Promised, Drive!DiskPromise!vars
<1> QED
  BY <1>3, <1>4, <1>5, <1>6, <1>7 DEF Drive!DeviceStep

(* A call asks the disk.                                                   *)
LEMMA CallKeeps ==
  ASSUME DriveInv, Drive!Call
  PROVE  DriveInv' /\ Promised
BY DEF Drive!Call, Drive!Goto, Drive!deviceVars, DriveInv, DriveTypes, AddressSet,
   DriveStates, Idle, Promised, Drive!DiskPromise!Next, Drive!DiskPromise!Ask

(* Handlers take back the request of the disk, and touch nothing else.     *)
driveState == <<content, status, command, address, latch, pc, request, buffer,
                answer>>

(* A step of another device is a stutter.                                  *)
LEMMA DriveStutters ==
  ASSUME DriveInv, UNCHANGED driveState
  PROVE  DriveInv' /\ Promised
BY DEF driveState, DriveInv, DriveTypes, AddressSet, DriveStates, Idle, Busy,
   HasData, WantsData, Failed, Stored, Target, OnDisk, Promised,
   Drive!DiskPromise!vars

(* Every step of the machine is one of the disk or a stutter.              *)
LEMMA DriveKeeps ==
  ASSUME DriveInv, [Next]_vars
  PROVE  DriveInv' /\ Promised
<1>1. CASE ThreadCalls
  BY <1>1, CallKeeps DEF ThreadCalls
<1>2. CASE ThreadDrives
  BY <1>2, DriverKeeps DEF ThreadDrives
<1>3. CASE DiskWorks
  BY <1>3, DeviceKeeps DEF DiskWorks
<1>4. CASE ~(ThreadCalls \/ ThreadDrives \/ DiskWorks)
  <2>1. UNCHANGED driveState
    BY <1>4 DEF driveState, Next, vars, driveVars, AcceptFirst, AcceptDisk,
       AcceptSpurious, Enter, Forget, HandlerCall, TimerPrints, DiskPrints, HandlerPrints,
       EndOfInterrupt, ThreadPrints, LineSends, Interrupt
  <2> QED
    BY <2>1, DriveStutters
<1> QED
  BY <1>1, <1>2, <1>3, <1>4

(* The first state is one of the disk.                                     *)
LEMMA DriveStarts ==
  ASSUME Drive!Init
  PROVE  DriveInv /\ Drive!DiskPromise!Init
<1> USE Constants DEF Drive!Init
<1>1. DriveInv
  BY DEF DriveInv, DriveTypes, AddressSet, DriveStates, Idle
<1>2. Drive!DiskPromise!Init
  BY DEF Drive!DiskPromise!Init, Drive!DiskPromise!Sectors, Drive!Sectors
<1> QED
  BY <1>1, <1>2

-----------------------------------------------------------------------------
(* The serial line.                                                        *)

(* Places of a queue that are not none have a last one.                    *)
LEMMA LastPlace ==
  ASSUME NEW n \in Nat, NEW S, S \subseteq 1 .. n, S # {}
  PROVE  \E i \in S : \A k \in S : k <= i
<1> DEFINE T == {n - k : k \in S}
<1>1. /\ \A k \in S : n - k \in T /\ k \in Nat /\ n - k \in Nat
      /\ \A x \in T : \E k \in S : x = n - k
  OBVIOUS
<1>2. T \subseteq Nat /\ T # {}
  <2> HIDE DEF T
  <2> QED
    BY <1>1
<1> HIDE DEF T
<1>3. PICK x \in T : \A y \in T : <<y, x>> \notin OpToRel(<, Nat)
  BY <1>2, NatLessThanWellFounded, WFMin
<1>4. PICK i \in S : x = n - i
  BY <1>1
<1>5. ASSUME NEW k \in S
      PROVE  k <= i
  <2>1. ~(n - k < n - i)
    BY <1>1, <1>2, <1>3, <1>4 DEF OpToRel
  <2> QED
    BY <1>1, <2>1
<1> QED
  BY <1>5

(* Latest, of any transmitter and any line.                                *)
LatestIn(f, h, w, n) ==
  LET own == {i \in 1 .. n : f[i][1] = w}
  IN  IF own = {} THEN h[w] ELSE f[Line!Max(own)][2]

(* No character of w, or the last one, among the first n.                  *)
None(f, w, n)   == \A k \in 1 .. n : f[k][1] # w
One(f, w, n, i) == /\ i \in 1 .. n /\ f[i][1] = w
                   /\ \A k \in 1 .. n : f[k][1] = w => k <= i

(* LatestIn is the last value queued by a writer, if there is one.         *)
LEMMA LastValue ==
  ASSUME NEW f, NEW h, NEW w, NEW n \in Nat
  PROVE  /\ None(f, w, n) => LatestIn(f, h, w, n) = h[w]
         /\ \A i : One(f, w, n, i) => LatestIn(f, h, w, n) = f[i][2]
         /\ None(f, w, n) \/ \E i : One(f, w, n, i)
<1> DEFINE own == {k \in 1 .. n : f[k][1] = w}
<1>1. None(f, w, n) => LatestIn(f, h, w, n) = h[w]
  BY DEF None, LatestIn
<1>2. ASSUME NEW i, One(f, w, n, i)
      PROVE  LatestIn(f, h, w, n) = f[i][2]
  <2>1. i \in own /\ \A k \in own : k <= i /\ k \in Int
    BY <1>2 DEF One
  <2>2. \A x \in own : (\A y \in own : x >= y) => x = i
    BY <2>1
  <2>3. Line!Max(own) = i
    BY <2>1, <2>2 DEF Line!Max
  <2> QED
    BY <2>1, <2>3 DEF LatestIn
<1>3. ASSUME ~None(f, w, n)
      PROVE  \E i : One(f, w, n, i)
  <2>1. own \subseteq 1 .. n /\ own # {}
    BY <1>3 DEF None
  <2>2. \E i \in own : \A k \in own : k <= i
    <3> HIDE DEF own
    <3> QED
      BY <2>1, LastPlace
  <2> QED
    BY <2>2 DEF One
<1> QED
  BY <1>1, <1>2, <1>3

Queue == Seq(Writers \X Nat)

(* A character put in comes after those that are there ...                 *)
LEMMA LastAppend ==
  ASSUME NEW f \in Queue, NEW h, NEW w, NEW c \in Writers \X Nat
  PROVE  /\ \A n \in 0 .. Len(f) : LatestIn(Append(f, c), h, w, n) = LatestIn(f, h, w, n)
         /\ LatestIn(Append(f, c), h, w, Len(f) + 1) =
              IF w = c[1] THEN c[2] ELSE LatestIn(f, h, w, Len(f))
<1> DEFINE g == Append(f, c)
           m == Len(f)
<1>1. /\ m \in Nat /\ g[m + 1] = c
      /\ \A k \in 1 .. m : g[k] = f[k]
  BY DEF Queue
<1> HIDE DEF g, m
<1>2. ASSUME NEW n \in 0 .. m
      PROVE  LatestIn(g, h, w, n) = LatestIn(f, h, w, n)
  <2>1. /\ n \in Nat /\ None(g, w, n) <=> None(f, w, n)
        /\ \A i : One(f, w, n, i) => One(g, w, n, i) /\ g[i] = f[i]
    BY <1>1 DEF None, One
  <2> QED
    BY <2>1, LastValue
<1>3. CASE w = c[1]
  <2>1. m + 1 \in Nat /\ One(g, w, m + 1, m + 1)
    BY <1>1, <1>3 DEF One
  <2>2. LatestIn(g, h, w, m + 1) = g[m + 1][2]
    BY <2>1, LastValue
  <2> QED
    BY <1>1, <1>2, <1>3, <2>2 DEF g, m
<1>4. CASE w # c[1]
  <2>1. /\ m + 1 \in Nat /\ None(f, w, m) => None(g, w, m + 1)
        /\ \A i : One(f, w, m, i) => One(g, w, m + 1, i) /\ g[i] = f[i]
    BY <1>1, <1>4 DEF None, One
  <2>2. LatestIn(g, h, w, m + 1) = LatestIn(f, h, w, m)
    BY <1>1, <2>1, LastValue
  <2> QED
    BY <1>1, <1>2, <1>4, <2>2 DEF g, m
<1> QED
  BY <1>3, <1>4

(* ... and one that leaves is still the one before the next.               *)
LEMMA LastTail ==
  ASSUME NEW f \in Queue, f # <<>>, NEW h \in [Writers -> Nat], NEW w \in Writers,
         NEW n \in 0 .. Len(f) - 1
  PROVE  LatestIn(Tail(f), [h EXCEPT ![Head(f)[1]] = Head(f)[2]], w, n)
           = LatestIn(f, h, w, n + 1)
<1> DEFINE g == Tail(f)
           j == [h EXCEPT ![Head(f)[1]] = Head(f)[2]]
<1>1. /\ n \in Nat /\ f[1] \in Writers \X Nat
      /\ j[w] = IF w = f[1][1] THEN f[1][2] ELSE h[w]
      /\ \A k \in 1 .. n : k + 1 \in 1 .. n + 1 /\ g[k] = f[k + 1]
      /\ \A k \in 1 .. n + 1 : k # 1 => k - 1 \in 1 .. n /\ g[k - 1] = f[k]
  BY SMTT(30) DEF Queue
<1> HIDE DEF g, j
<1>2. ASSUME None(f, w, n + 1)
      PROVE  LatestIn(g, j, w, n) = LatestIn(f, h, w, n + 1)
  <2>1. f[1][1] # w /\ None(g, w, n)
    BY <1>1, <1>2, SMTT(30) DEF None
  <2> QED
    BY <1>1, <1>2, <2>1, LastValue
<1>3. ASSUME NEW i, One(f, w, n + 1, i)
      PROVE  LatestIn(g, j, w, n) = LatestIn(f, h, w, n + 1)
  <2>1. LatestIn(f, h, w, n + 1) = f[i][2]
    BY <1>1, <1>3, LastValue
  <2>2. CASE i = 1
    <3>1. f[1][1] = w /\ None(g, w, n)
      BY <1>1, <1>3, <2>2, SMTT(30) DEF None, One
    <3> QED
      BY <1>1, <2>1, <2>2, <3>1, LastValue
  <2>3. CASE i # 1
    <3>1. i - 1 \in 1 .. n /\ g[i - 1] = f[i] /\ f[i][1] = w /\ i \in Int
      BY <1>1, <1>3, <2>3 DEF One
    <3>2. ASSUME NEW k \in 1 .. n, g[k][1] = w
          PROVE  k <= i - 1
      <4>1. k + 1 \in 1 .. n + 1 /\ f[k + 1][1] = w
        BY <1>1, <3>2
      <4>2. k + 1 <= i
        BY <1>3, <4>1 DEF One
      <4> QED
        BY <3>1, <4>2
    <3>3. One(g, w, n, i - 1)
      BY <3>1, <3>2 DEF One
    <3> QED
      BY <1>1, <2>1, <3>1, <3>3, LastValue
  <2> QED
    BY <2>2, <2>3
<1>4. n + 1 \in Nat
  BY <1>1
<1> QED
  BY <1>2, <1>3, <1>4, LastValue DEF g, j

(* TextsInOrder, said with LatestIn, before and after a step.              *)
LEMMA LatestIs ==
  /\ TextsInOrder <=>
       /\ \A n \in DOMAIN fifo :
            fifo[n][2] = Line!After(LatestIn(fifo, heard, fifo[n][1], n - 1))
       /\ \A w \in Writers :
            position[w] = Line!After(LatestIn(fifo, heard, w, Len(fifo)))
  /\ TextsInOrder' <=>
       /\ \A n \in DOMAIN fifo' :
            fifo'[n][2] = Line!After(LatestIn(fifo', heard', fifo'[n][1], n - 1))
       /\ \A w \in Writers :
            position'[w] = Line!After(LatestIn(fifo', heard', w, Len(fifo')))
BY DEF TextsInOrder, Line!TextsInOrder, Line!Latest, LatestIn

LEMMA AfterNat == \A i \in Nat : Line!After(i) \in Nat
BY InterruptsAssumption DEF InterruptsAssumption, Line!After

(* A character put into a transmitter with room keeps the order.           *)
LEMMA PutKeepsOrder ==
  ASSUME LineTypes, TextsInOrder, NEW x \in Writers, Line!Put(x), Len(fifo) <= 1
  PROVE  /\ Len(fifo') = Len(fifo) + 1
         /\ LineTypes' /\ TextsInOrder'
<1> DEFINE c == <<x, position[x]>>
<1>1. /\ fifo \in Queue /\ c \in Writers \X Nat /\ c[1] = x /\ c[2] = position[x]
      /\ heard' = heard
  BY DEF LineTypes, Queue, Line!Put
<1>2. fifo' = Append(fifo, c)
  BY <1>1, InterruptsAssumption
  DEF InterruptsAssumption, Line!Put, Line!Capacity, Queue
<1>3. LineTypes'
  <2>1. fifo' \in Seq(Writers \X Nat)
    BY <1>1, <1>2 DEF Queue
  <2>2. position' \in [Writers -> Nat]
    BY AfterNat DEF LineTypes, Line!Put
  <2> QED
    BY <1>1, <2>1, <2>2 DEF LineTypes, Line!Put
<1> HIDE DEF c
<1>6. ASSUME NEW w
      PROVE  /\ \A k \in 0 .. Len(fifo) :
                  LatestIn(fifo', heard', w, k) = LatestIn(fifo, heard, w, k)
             /\ LatestIn(fifo', heard', w, Len(fifo) + 1) =
                  IF w = x THEN position[x] ELSE LatestIn(fifo, heard, w, Len(fifo))
  <2> DEFINE g == Append(fifo, c)
  <2>1. /\ \A k \in 0 .. Len(fifo) :
              LatestIn(g, heard, w, k) = LatestIn(fifo, heard, w, k)
        /\ LatestIn(g, heard, w, Len(fifo) + 1) =
              IF w = c[1] THEN c[2] ELSE LatestIn(fifo, heard, w, Len(fifo))
    <3>1. fifo \in Queue /\ c \in Writers \X Nat
      BY <1>1
    <3> QED
      BY <3>1, LastAppend, ZenonT(60)
  <2> HIDE DEF g
  <2>2. fifo' = g /\ heard' = heard
    BY <1>1, <1>2 DEF g
  <2> QED
    BY <1>1, <2>1, <2>2
<1>4. ASSUME NEW n \in DOMAIN fifo'
      PROVE  fifo'[n][2] = Line!After(LatestIn(fifo', heard', fifo'[n][1], n - 1))
  <2>1. /\ Len(fifo) \in Nat /\ n \in 1 .. Len(fifo) + 1
        /\ fifo'[n] = IF n <= Len(fifo) THEN fifo[n] ELSE c
    BY <1>1, <1>2 DEF Queue
  <2>2. CASE n <= Len(fifo)
    <3>1. /\ n \in DOMAIN fifo /\ n - 1 \in 0 .. Len(fifo)
          /\ fifo[n][2] = Line!After(LatestIn(fifo, heard, fifo[n][1], n - 1))
      BY <1>1, <2>1, <2>2, LatestIs DEF Queue
    <3>2. LatestIn(fifo', heard', fifo[n][1], n - 1)
            = LatestIn(fifo, heard, fifo[n][1], n - 1)
      BY <1>6, <3>1
    <3> QED
      BY <2>1, <2>2, <3>1, <3>2
  <2>3. CASE n = Len(fifo) + 1
    <3>1. n - 1 = Len(fifo) /\ Len(fifo) \in 0 .. Len(fifo) /\ fifo'[n] = c
      BY <2>1, <2>3
    <3>2. LatestIn(fifo', heard', x, n - 1) = LatestIn(fifo, heard, x, Len(fifo))
      BY <1>6, <3>1
    <3> QED
      BY <1>1, <3>1, <3>2, LatestIs
  <2> QED
    BY <2>1, <2>2, <2>3
<1>5. ASSUME NEW w \in Writers
      PROVE  position'[w] = Line!After(LatestIn(fifo', heard', w, Len(fifo')))
  <2>1. Len(fifo') = Len(fifo) + 1
    BY <1>1, <1>2 DEF Queue
  <2>2. position'[w] = IF w = x THEN Line!After(position[x]) ELSE position[w]
    BY DEF Line!Put, LineTypes
  <2>3. LatestIn(fifo', heard', w, Len(fifo) + 1) =
          IF w = x THEN position[x] ELSE LatestIn(fifo, heard, w, Len(fifo))
    BY <1>6
  <2> QED
    BY <2>1, <2>2, <2>3, LatestIs
<1> QED
  BY <1>1, <1>2, <1>3, <1>4, <1>5, LatestIs DEF Queue

(* The line takes the byte at the head of the queue.                       *)
LEMMA TransmitKeepsOrder ==
  ASSUME LineTypes, TextsInOrder, Line!Transmit
  PROVE  /\ LineTypes' /\ TextsInOrder' /\ Len(fifo') = Len(fifo) - 1
<1>1. /\ fifo \in Queue /\ fifo # <<>> /\ fifo' = Tail(fifo)
      /\ heard \in [Writers -> Nat] /\ position' = position
      /\ heard' = [heard EXCEPT ![Head(fifo)[1]] = Head(fifo)[2]]
  BY DEF LineTypes, Queue, Line!Transmit
<1>2. /\ Len(fifo) \in Nat \ {0} /\ Len(fifo') = Len(fifo) - 1
      /\ \A n \in 1 .. Len(fifo) - 1 : /\ fifo'[n] = fifo[n + 1]
                                       /\ fifo'[n] \in Writers \X Nat
      /\ DOMAIN fifo' = 1 .. Len(fifo) - 1 /\ DOMAIN fifo = 1 .. Len(fifo)
  BY <1>1 DEF Queue
<1>3. ASSUME NEW w \in Writers, NEW n \in 0 .. Len(fifo) - 1
      PROVE  LatestIn(fifo', heard', w, n) = LatestIn(fifo, heard, w, n + 1)
  BY <1>1, <1>2, LastTail
<1>4. LineTypes'
  <2>1. fifo' \in Queue /\ Head(fifo) \in Writers \X Nat
    BY <1>1 DEF Queue
  <2> QED
    BY <1>1, <2>1 DEF LineTypes, Queue, Line!Transmit
<1>5. ASSUME NEW n \in DOMAIN fifo'
      PROVE  fifo'[n][2] = Line!After(LatestIn(fifo', heard', fifo'[n][1], n - 1))
  <2>1. /\ n - 1 \in 0 .. Len(fifo) - 1 /\ n + 1 \in DOMAIN fifo
        /\ (n - 1) + 1 = (n + 1) - 1 /\ fifo'[n] = fifo[n + 1]
        /\ fifo[n + 1][1] \in Writers
    BY <1>2
  <2>2. LatestIn(fifo', heard', fifo'[n][1], n - 1)
          = LatestIn(fifo, heard, fifo[n + 1][1], (n + 1) - 1)
    BY <1>3, <2>1
  <2> QED
    BY <2>1, <2>2, LatestIs
<1>6. ASSUME NEW w \in Writers
      PROVE  position'[w] = Line!After(LatestIn(fifo', heard', w, Len(fifo')))
  <2>1. Len(fifo') \in 0 .. Len(fifo) - 1 /\ Len(fifo') + 1 = Len(fifo)
    BY <1>2
  <2> QED
    BY <1>1, <1>3, <2>1, LatestIs
<1> QED
  BY <1>2, <1>4, <1>5, <1>6, LatestIs

(* Every step of the machine keeps the order of the texts.                 *)
LEMMA LineKeeps ==
  ASSUME LineInv, CpuInv, [Next]_vars
  PROVE  LineInv'
<1> USE DEF LineInv
<1>1. /\ Thread \in Writers /\ Handler \in Writers /\ Thread # Handler
      /\ Len(fifo) \in Nat /\ Len(<<>>) = 0
      /\ ready \in [Writers -> BOOLEAN]
  BY DEF Writers, Thread, Handler, LineTypes
<1>2. ASSUME UNCHANGED lineVars, UNCHANGED <<vector, stage>> \/ ~ready[Handler]
      PROVE  LineInv'
  <2>1. LineTypes' /\ TextsInOrder'
    BY <1>2, LatestIs DEF lineVars, LineTypes
  <2>2. RoomLeft'
    BY <1>2 DEF lineVars, RoomLeft
  <2> QED
    BY <2>1, <2>2
<1>3. ASSUME NEW w \in Writers, Line!Poll(w), UNCHANGED <<vector, stage>>,
             w = Handler => vector # 0 /\ stage = "print"
      PROVE  LineInv'
  <2>1. LineTypes' /\ TextsInOrder'
    BY <1>3, LatestIs DEF Line!Poll, LineTypes
  <2>2. RoomLeft'
    BY <1>1, <1>3 DEF Line!Poll, RoomLeft, Writers
  <2> QED
    BY <2>1, <2>2
<1>4. CASE ThreadPrints
  <2>1. ~ready[Handler] /\ UNCHANGED <<vector, stage>>
    BY <1>4 DEF ThreadPrints, cpuVars, RoomLeft
  <2>2. CASE Line!Poll(Thread)
    BY <1>1, <1>3, <2>1, <2>2
  <2>3. CASE Line!Put(Thread)
    <3>1. Len(fifo) <= 1
      BY <2>3 DEF Line!Put, RoomLeft
    <3>2. LineTypes' /\ TextsInOrder'
      BY <1>1, <2>3, <3>1, PutKeepsOrder
    <3>3. ~ready'[Thread] /\ ~ready'[Handler]
      BY <1>1, <2>1, <2>3 DEF Line!Put
    <3> QED
      BY <3>2, <3>3 DEF RoomLeft
  <2> QED
    BY <1>4, <2>2, <2>3 DEF ThreadPrints
<1>5. CASE HandlerPrints
  <2>1. vector # 0 /\ stage = "print" /\ UNCHANGED vector
    BY <1>5 DEF HandlerPrints
  <2>2. CASE Line!Poll(Handler) /\ UNCHANGED stage
    BY <1>1, <1>3, <2>1, <2>2
  <2>3. CASE Line!Put(Handler)
    <3>1. ready[Handler] /\ Len(fifo) = 0
      BY <1>1, <2>3 DEF Line!Put, RoomLeft
    <3>2. LineTypes' /\ TextsInOrder' /\ Len(fifo') = 1
      BY <1>1, <2>3, <3>1, PutKeepsOrder
    <3>3. ~ready'[Handler]
      BY <1>1, <2>3 DEF Line!Put
    <3> QED
      BY <3>2, <3>3 DEF RoomLeft
  <2> QED
    BY <1>5, <2>2, <2>3 DEF HandlerPrints
<1>6. CASE LineSends
  <2>1. Line!Transmit /\ fifo # <<>> /\ UNCHANGED <<ready, vector, stage>>
    BY <1>6 DEF LineSends, Line!Transmit, cpuVars
  <2>2. LineTypes' /\ TextsInOrder' /\ Len(fifo') = Len(fifo) - 1
    BY <2>1, TransmitKeepsOrder
  <2> QED
    BY <1>1, <2>1, <2>2 DEF RoomLeft
<1>7. CASE ~(ThreadPrints \/ HandlerPrints \/ LineSends)
  <2>1. UNCHANGED lineVars
    BY <1>7 DEF Next, vars, AcceptFirst, AcceptDisk, AcceptSpurious, Enter, Forget,
       HandlerCall, TimerPrints, DiskPrints, EndOfInterrupt, ThreadCalls,
       ThreadDrives, DiskWorks, Interrupt, lineVars
  <2>2. UNCHANGED <<vector, stage>> \/ vector = 0 \/ stage # "print"
    BY <1>7 DEF Next, vars, AcceptFirst, AcceptDisk, AcceptSpurious, Forget,
       HandlerCall, TimerPrints, DiskPrints, EndOfInterrupt, ThreadCalls,
       ThreadDrives, DiskWorks, Interrupt, cpuVars
  <2>3. UNCHANGED <<vector, stage>> \/ ~ready[Handler]
    BY <2>2 DEF RoomLeft
  <2> QED
    BY <1>2, <2>1, <2>3
<1> QED
  BY <1>4, <1>5, <1>6, <1>7

(* Nothing is queued at first.                                             *)
LEMMA LineStarts ==
  ASSUME Line!Init
  PROVE  LineInv
<1> USE DEF Line!Init
<1>1. /\ fifo = <<>> /\ fifo \in Queue /\ Len(fifo) = 0 /\ DOMAIN fifo = {}
      /\ TextLength \in Nat \ {0}
  BY InterruptsAssumption DEF InterruptsAssumption, Queue
<1>2. LineTypes
  BY <1>1 DEF LineTypes, Queue
<1>3. Line!After(TextLength) = 1
  <2>1. TextLength % TextLength = 0
    BY <1>1
  <2> QED
    BY <2>1 DEF Line!After
<1>4. ASSUME NEW w \in Writers
      PROVE  position[w] = Line!After(LatestIn(fifo, heard, w, Len(fifo)))
  <2>1. None(fifo, w, 0)
    BY DEF None
  <2>2. LatestIn(fifo, heard, w, 0) = heard[w]
    BY <2>1, LastValue
  <2> QED
    BY <1>1, <1>3, <2>2
<1>5. RoomLeft
  BY DEF RoomLeft, Writers, Thread, Handler
<1> QED
  BY <1>1, <1>2, <1>4, <1>5, LatestIs DEF LineInv

-----------------------------------------------------------------------------
(* The controllers.                                                        *)

(* Every handler sends the ends of interrupt that its acceptance asks for. *)
LEMMA ServedEnds ==
  ASSUME CpuInv
  PROVE  inService \ Ended = {}
<1> USE DEF Ended, OfFirst, OfSecond, Highest, OnSecond
<1>1. CASE vector \in {0, 48} /\ inService = {}
  BY <1>1
<1>2. CASE vector = 32 /\ inService = {0}
  BY <1>2
<1>3. CASE vector = 33 /\ inService = {1}
  BY <1>3
<1>4. CASE vector = 46 /\ inService = {2, 14}
  <2>1. 2 \in OfFirst /\ 14 \in OfSecond
    BY <1>4
  <2> QED
    BY <1>4, <2>1
<1>5. CASE vector = 47 /\ inService = {2}
  BY <1>5
<1> QED
  BY <1>1, <1>2, <1>3, <1>4, <1>5 DEF CpuInv

(* Every step keeps what is in service in step with the handlers.          *)
LEMMA CpuKeeps ==
  ASSUME CpuInv, [Next]_vars
  PROVE  CpuInv'
<1>1. ASSUME vector = 0
      PROVE  inService = {}
  BY <1>1 DEF CpuInv
<1>2. ASSUME NEW i \in {0, 1, 4}, AcceptFirst(i)
      PROVE  CpuInv'
  <2>1. vector = 0 /\ i \in {0, 1} /\ Enter(i, 32 + i, {i})
    BY <1>2 DEF AcceptFirst, Next_, Candidates, Unmasked
  <2>2. CASE i = 0
    BY <1>1, <2>1, <2>2 DEF Enter, Gate, CpuInv
  <2>3. CASE i = 1
    BY <1>1, <2>1, <2>3 DEF Enter, Gate, CpuInv
  <2> QED
    BY <2>1, <2>2, <2>3
<1>3. CASE AcceptDisk
  BY <1>1, <1>3 DEF AcceptDisk, Enter, Gate, CpuInv
<1>4. CASE AcceptSpurious
  BY <1>1, <1>4 DEF AcceptSpurious, Enter, Gate, CpuInv
<1>5. CASE EndOfInterrupt
  BY <1>5, ServedEnds DEF EndOfInterrupt, CpuInv
<1>6. CASE ~(\/ \E i \in {0, 1, 4} : AcceptFirst(i)
             \/ AcceptDisk \/ AcceptSpurious \/ EndOfInterrupt)
  <2>1. UNCHANGED <<vector, inService>>
    BY <1>6 DEF Next, vars, cpuVars, Forget, HandlerCall, TimerPrints, DiskPrints,
       HandlerPrints, ThreadCalls, ThreadDrives, ThreadPrints, DiskWorks, LineSends, Interrupt
  <2> QED
    BY <2>1 DEF CpuInv
<1> QED
  BY <1>2, <1>3, <1>4, <1>5, <1>6

-----------------------------------------------------------------------------
(* Theorems.                                                               *)

(* The three parts hold together in every reachable state.                 *)
THEOREM Invariance == Spec => []IInv
<1>1. Init => IInv
  BY DriveStarts, LineStarts DEF Init, IInv, CpuInv
<1>2. IInv /\ [Next]_vars => IInv'
  BY DriveKeeps, LineKeeps, CpuKeeps DEF IInv
<1> QED
  BY <1>1, <1>2, PTL DEF Spec

(* Outside the handlers no request is in service (end of interrupt in      *)
(* generic_isr_handler, spurious interrupts included).                     *)
THEOREM NothingStaysInService == Spec => []NothingInService
<1>1. IInv => NothingInService
  BY DEF IInv, CpuInv, NothingInService
<1> QED
  BY <1>1, Invariance, PTL

(* The characters of each writer leave the serial line in its order and    *)
(* none is missing (serial_putchar in threads and handlers).               *)
THEOREM TextsLeaveInOrder == Spec => []TextsInOrder
<1>1. IInv => TextsInOrder
  BY DEF IInv, LineInv
<1> QED
  BY <1>1, Invariance, PTL

(* The driver and its device implement Disk, with handlers in between      *)
(* (ataReadSector and ataWriteSector).                                     *)
THEOREM ImplementsDisk == Spec => DiskSpec
<1>1. Init => Drive!DiskPromise!Init
  BY DriveStarts DEF Init
<1>2. IInv /\ [Next]_vars => [Drive!DiskPromise!Next]_(Drive!DiskPromise!vars)
  BY DriveKeeps DEF IInv, Promised
<1>3. DiskSpec <=> /\ Drive!DiskPromise!Init
                   /\ [][Drive!DiskPromise!Next]_(Drive!DiskPromise!vars)
  BY DEF DiskSpec, Drive!DiskSpec, Drive!DiskPromise!Spec
<1> QED
  BY <1>1, <1>2, <1>3, Invariance, PTL DEF Spec
=============================================================================
