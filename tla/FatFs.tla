-------------------------------- MODULE FatFs --------------------------------
(***************************************************************************)
(* The FAT16 file system (diskAccess/diskAccess.c, diskAccessUtils.c) on a *)
(* disk that may lose power between any two sectors written.               *)
(*                                                                         *)
(* One thread uses the file system, so nothing interleaves with it; what   *)
(* counts is the order in which the sectors of the root directory, of one  *)
(* subdirectory, of the two copies of the FAT and of the data area reach   *)
(* the disk.  A step of an operation is what it does up to and including   *)
(* one sector written.  PowerLoss forgets the memory and boots again.      *)
(*                                                                         *)
(* A file name is the name in its 8.3 form, sizes are in sectors, and a    *)
(* sector of a file is labelled with the name for which it was written and *)
(* its number in the file; a sector of no file has no label.  The dot      *)
(* entries of the subdirectory are left out: no operation modelled here    *)
(* changes them.                                                           *)
(***************************************************************************)
EXTENDS Integers

CONSTANTS
  Names,              \* names of files and of the subdirectory
  DirName,            \* the subdirectory the disk comes with
  RootSlots,          \* entries of the root directory
  DirSlots,           \* entries of the subdirectory, apart from . and ..
  FatSectors,         \* fat_size_sectors
  EntriesPerSector,   \* FAT entries in a sector (256)
  DataClusters,       \* clusters that really exist in the data area
  SectorsPerCluster,  \* sectors_per_cluster
  MaxChunks,          \* longest file written, in sectors
  MaxLosses           \* bound: power losses

ASSUME FatAssumption ==
  /\ DirName \in Names
  /\ RootSlots \in 1 .. 16            \* more overflow entries[16] on the stack
  /\ DirSlots \in 1 .. 16
  /\ FatSectors \in Nat /\ EntriesPerSector \in Nat \ {0}
  /\ FatSectors * EntriesPerSector > 2
  /\ FatSectors * EntriesPerSector <= 65528     \* above, numbers end a chain
  /\ DataClusters \in Nat \ {0}
  /\ SectorsPerCluster \in Nat \ {0}
  /\ MaxChunks \in Nat \ {0}
  /\ MaxLosses \in Nat

Clusters   == 2 .. FatSectors * EntriesPerSector - 1
DirCluster == 2            \* the first cluster of the data area
SectorNos  == 0 .. SectorsPerCluster - 1
Free       == 0
EndOfChain == 65535        \* 0xFFFF
NoCluster  == -1

Slots  == [root |-> 1 .. RootSlots, sub |-> 1 .. DirSlots]
Places == DOMAIN Slots

(* The first byte of a slot says whether it ends the directory (0x00), is  *)
(* erased (0xE5) or in use.                                                *)
Slot(mark, name, attr, start, size) ==
  [mark |-> mark, name |-> name, attr |-> attr, start |-> start, size |-> size]
End    == Slot("end", DirName, "file", 0, 0)

(* Mutation: an entry is erased by clearing it.                            *)
Erased_Cleared == End

Erased == Slot("erased", DirName, "file", 0, 0)

NoSector == <<DirName, 0>>  \* a data sector of no file

(* An operation: which one, for which file, and the local variables of     *)
(* write_ (startingCluster, prevClusterIndex, sectors written), touch_,    *)
(* create_ and rmCurrentDir_ (the slots and names still to be deleted).    *)
Call(kind, name, chunks) ==
  [kind |-> kind, name |-> name, chunks |-> chunks, start |-> NoCluster,
   prev |-> NoCluster, written |-> 0, todo |-> {}]
NoCall == Call("none", DirName, 0)

VARIABLES
  dirs,      \* the sectors of the two directories
  fat,       \* the two copies of the FAT on the disk
  data,      \* the sectors of the data area
  fatTable,  \* fileSystem.fatTable
  cwd,       \* currentDir.dirLBA
  op,        \* the operation in progress
  pc,        \* where it is
  sector,    \* the next sector updateFatTable writes
  next,      \* what follows updateFatTable
  events,    \* what has gone out of the ordinary (not code)
  losses     \* power losses so far (not code)

diskVars == <<dirs, fat, data>>
history == <<events, losses>>
vars == <<diskVars, fatTable, cwd, op, pc, sector, next, history>>

Least(S, i) == i \in S /\ \A k \in S : i <= k

-----------------------------------------------------------------------------
(* The disk a boot finds: an empty subdirectory in the first root slot.    *)
Init ==
  /\ dirs = [root |-> [i \in Slots.root |->
                         IF i = 1 THEN Slot("used", DirName, "dir", DirCluster, 0)
                                  ELSE End],
             sub  |-> [i \in Slots.sub |-> End]]
  /\ fatTable = [c \in Clusters |-> IF c = DirCluster THEN EndOfChain ELSE Free]
  /\ fat = <<fatTable, fatTable>>
  /\ data = [c \in Clusters |-> [s \in SectorNos |-> NoSector]]
  /\ cwd = "root"
  /\ op = NoCall /\ pc = "idle"
  /\ sector = 0 /\ next = "idle"
  /\ events = {} /\ losses = 0

-----------------------------------------------------------------------------
(* Directories.                                                            *)

Used(p)    == {i \in Slots[p] : dirs[p][i].mark = "used"}

(* The slots a scan sees that stops at the first end mark.                 *)
Visible(p) == {i \in Used(p) : \A j \in 1 .. i : dirs[p][j].mark # "end"}

Named(p, n) == {i \in Visible(p) : dirs[p][i].name = n}

(* findEntryInCurrentDir: the slot of the first entry of that name.        *)
EntryInCurrentDir(n) == {i \in Named(cwd, n) : Least(Named(cwd, n), i)}

(* Mutation: the search starts in the root whatever the current directory. *)
Victim_FromRoot(n) ==
  IF Named("sub", n) # {} /\ \E i \in Used("root") : dirs.root[i].attr = "dir"
    THEN {<<"sub", i>> : i \in {k \in Named("sub", n) : Least(Named("sub", n), k)}}
    ELSE {<<"root", i>> : i \in {k \in Named("root", n) :
                                   Least(Named("root", n), k)}}

(* findEntryAndErase: where delete_ finds its victim.  In the root each    *)
(* directory is searched before its own name is compared, and the scan     *)
(* does not stop at an end mark.                                           *)
Victim(n) ==
  LET below(i) == dirs.root[i].attr = "dir" /\ Named("sub", n) # {}
      hits     == {i \in Used("root") : below(i) \/ dirs.root[i].name = n}
      inSub    == {<<"sub", i>> : i \in {k \in Named("sub", n) :
                                           Least(Named("sub", n), k)}}
  IN  IF cwd = "sub" THEN inSub
      ELSE UNION {IF below(i) THEN inSub ELSE {<<"root", i>>} :
                    i \in {k \in hits : Least(hits, k)}}

(* The slot findFirstFreeEntry takes.                                      *)
FreeSlot(i) == Least(Slots[cwd] \ Used(cwd), i)

-----------------------------------------------------------------------------
(* The allocation table.                                                   *)

(* findFreeCluster; nothing satisfies it when it returns -1.               *)
FreeCluster(c) == Least({x \in Clusters : fatTable[x] = Free}, c)
FatFull == \A c \in Clusters : fatTable[c] # Free

(* The clusters on the chain that starts at cluster c: what every set has  *)
(* that contains c and follows the links of table.                         *)
Chain(table, c) ==
  LET closed == {T \in SUBSET Clusters :
                   /\ c \in Clusters => c \in T
                   /\ \A x \in T : table[x] \in Clusters => table[x] \in T}
  IN  {x \in Clusters : \A T \in closed : x \in T}

(* Mutation: delete_ stops one cluster before the end of the chain.        *)
FreeChain_KeepsLast(table, c) ==
  [x \in Clusters |-> IF x \in Chain(table, c) /\ table[x] # EndOfChain
                        THEN Free ELSE table[x]]

(* The loop of delete_.                                                    *)
FreeChain(table, c) ==
  [x \in Clusters |-> IF x \in Chain(table, c) THEN Free ELSE table[x]]

-----------------------------------------------------------------------------
(* Operations.                                                             *)

(* Where the operation goes on; its local variables end with it.           *)
Goto(p, call) == pc' = p /\ op' = IF p = "idle" THEN NoCall ELSE call

(* fatTable[findFreeCluster()] = 0xFFFF, and on to label p.                *)
Allocate(p, call) ==
  /\ pc = "idle"
  /\ \E c \in Clusters :
       /\ FreeCluster(c)
       /\ fatTable' = [fatTable EXCEPT ![c] = EndOfChain]
       /\ Goto(p, [call EXCEPT !.start = c])
  /\ UNCHANGED <<diskVars, cwd, sector, history>>

(* touch_: entry first, allocation table second.                           *)
Touch(n) == Allocate("erase", Call("touch", n, 0)) /\ UNCHANGED next

(* Mutation: create_ works in the order of touch_.                         *)
Create_EntryFirst(n) ==
  Allocate("erase", Call("create", n, 0)) /\ UNCHANGED next

(* create_: allocation table first, entry second.                          *)
Create(n) == Allocate("fat", Call("create", n, 0)) /\ next' = "erase"

(* With no cluster free touch_ and create_ store to fatTable[-1].  The     *)
(* language gives no meaning to what follows, and neither does the model:  *)
(* it goes on with the next boot.                                          *)
StoreOutside ==
  /\ pc = "idle" /\ FatFull
  /\ pc' = "outside"
  /\ UNCHANGED <<diskVars, fatTable, cwd, op, sector, next, history>>

(* write_ for a file of that many sectors.  (Over a directory it would     *)
(* turn file data into directory entries; that is left out.)               *)
Write(n, chunks) ==
  /\ pc = "idle"
  /\ \A i \in EntryInCurrentDir(n) : dirs[cwd][i].attr = "file"
  /\ Goto("chunk", Call("write", n, chunks))
  /\ UNCHANGED <<diskVars, fatTable, cwd, sector, next, history>>

(* The cluster the next chunk goes to: the first one of an existing file,  *)
(* else a free one, if there is one.                                       *)
ChunkCluster(c) ==
  IF EntryInCurrentDir(op.name) # {}
    THEN \E i \in EntryInCurrentDir(op.name) : c = dirs[cwd][i].start
    ELSE FreeCluster(c)

MoreChunks == op.written < op.chunks /\ \E c \in Clusters : ChunkCluster(c)

ChunkWritten(c) ==
  /\ op' = [op EXCEPT !.start = IF @ = NoCluster THEN c ELSE @,
                      !.prev = c, !.written = @ + 1]
  /\ data' = IF c < DirCluster + DataClusters
               THEN [data EXCEPT ![c][0] = <<op.name, op.written + 1>>]
               ELSE data
  /\ events' = events \cup
       IF EntryInCurrentDir(op.name) # {} THEN {"overwrite"} ELSE {}

(* Mutation: the previous cluster is not linked to the new one.            *)
WriteChunk_NotLinked ==
  /\ pc = "chunk" /\ MoreChunks
  /\ \E c \in Clusters :
       /\ ChunkCluster(c)
       /\ fatTable' = [fatTable EXCEPT ![c] = EndOfChain]
       /\ ChunkWritten(c)
  /\ UNCHANGED <<dirs, fat, cwd, pc, sector, next, losses>>

(* One round of the loop of write_.  writeCluster writes the first sector  *)
(* of the cluster; the disk ignores a cluster it does not have.            *)
WriteChunk ==
  /\ pc = "chunk" /\ MoreChunks
  /\ \E c \in Clusters :
       /\ ChunkCluster(c)
       /\ fatTable' = [x \in Clusters |-> IF x = op.prev THEN c
                                          ELSE IF x = c THEN EndOfChain
                                                        ELSE fatTable[x]]
       /\ ChunkWritten(c)
  /\ UNCHANGED <<dirs, fat, cwd, pc, sector, next, losses>>

(* The loop of write_ ends at the end of the input or with a full disk.    *)
EndChunks ==
  /\ pc = "chunk" /\ ~MoreChunks
  /\ IF op.start = NoCluster THEN Goto("idle", op) /\ UNCHANGED next
                             ELSE Goto("fat", op) /\ next' = "erase"
  /\ UNCHANGED <<diskVars, fatTable, cwd, sector, history>>

(* delete_ as the rm command calls it.                                     *)
RemoveFile(n) ==
  /\ pc = "idle"
  /\ Goto("erase", Call("rm", n, 0))
  /\ UNCHANGED <<diskVars, fatTable, cwd, sector, next, history>>

(* getCurrentEntries: the names of a directory, each with its slot.        *)
NamesIn(p) == {<<i, dirs[p][i].name>> : i \in Visible(p)}

(* rmCurrentDir_ in the subdirectory: what is in it, then the directory.   *)
RemoveDir ==
  /\ pc = "idle" /\ cwd = "sub"
  /\ Goto("sweep", [Call("rmdir", DirName, 0) EXCEPT
                      !.todo = NamesIn("sub") \cup {<<DirSlots + 1, DirName>>}])
  /\ UNCHANGED <<diskVars, fatTable, cwd, sector, next, history>>

(* The loop of rmCurrentDir_, in the order of the slots, with              *)
(* changeDir("/") before its last round.                                   *)
Sweep ==
  /\ pc = "sweep"
  /\ \/ op.todo = {} /\ Goto("idle", op) /\ UNCHANGED cwd
     \/ \E first \in op.todo :
          /\ \A other \in op.todo : first[1] <= other[1]
          /\ Goto("erase", [op EXCEPT !.name = first[2], !.todo = @ \ {first}])
          /\ cwd' = IF op.todo = {first} THEN "root" ELSE cwd
  /\ UNCHANGED <<diskVars, fatTable, sector, next, history>>

(* changeDirAbsolute_, to the root or to the subdirectory if it exists.    *)
ChangeDir ==
  /\ pc = "idle"
  /\ \/ cwd' = "root"
     \/ /\ \E i \in Visible("root") : dirs.root[i].attr = "dir"
        /\ cwd' = "sub"
  /\ UNCHANGED <<diskVars, fatTable, op, pc, sector, next, history>>

-----------------------------------------------------------------------------
(* Steps the operations share.                                             *)

(* What follows delete_ in each of its callers.                            *)
AfterErase == IF op.kind = "rm" THEN "idle"
              ELSE IF op.kind = "rmdir" THEN "sweep" ELSE "entry"

(* delete_: findEntryAndErase writes the directory, then the chain of the  *)
(* victim is freed in memory, with the cluster write_ has just written if  *)
(* that is where the victim was.                                           *)
Erase ==
  /\ pc = "erase"
  /\ IF Victim(op.name) = {}
       THEN Goto(AfterErase, op) /\ UNCHANGED <<dirs, data, fatTable, next, events>>
       ELSE \E v \in Victim(op.name) :
              LET entry == dirs[v[1]][v[2]]
              IN  /\ dirs' = [dirs EXCEPT ![v[1]][v[2]] = Erased]
                  /\ fatTable' = FreeChain(fatTable, entry.start)
                  /\ data' = [c \in Clusters |->
                       IF c \in Chain(fatTable, entry.start) \ {op.prev}
                         THEN [s \in SectorNos |-> NoSector] ELSE data[c]]
                  /\ Goto("fat", op) /\ next' = AfterErase
                  /\ events' = events \cup
                       IF entry.attr = "dir" /\ Used("sub") # {}
                         THEN {"lost clusters"} ELSE {}
  /\ UNCHANGED <<fat, cwd, sector, losses>>

FatSectorWritten(copy) ==
  fat' = [fat EXCEPT ![copy] =
            [c \in Clusters |-> IF c \div EntriesPerSector = sector \div 2
                                  THEN fatTable[c] ELSE fat[copy][c]]]

FatWritten ==
  IF sector + 1 < 2 * FatSectors
    THEN sector' = sector + 1 /\ UNCHANGED <<op, pc, next>>
    ELSE sector' = 0 /\ Goto(next, op) /\ next' = "idle"

(* Mutation: only the first copy is written.                               *)
WriteFat_OneCopy ==
  /\ pc = "fat"
  /\ FatSectorWritten(1) /\ FatWritten
  /\ UNCHANGED <<dirs, data, fatTable, cwd, history>>

(* updateFatTable writes each sector to the first copy, then to the second.*)
WriteFat ==
  /\ pc = "fat"
  /\ FatSectorWritten(1 + (sector % 2)) /\ FatWritten
  /\ UNCHANGED <<dirs, data, fatTable, cwd, history>>

(* findFirstFreeEntry, after its call of delete_.  Without a free slot the *)
(* cluster stays allocated.                                                *)
WriteEntry ==
  /\ pc = "entry"
  /\ IF Used(cwd) = Slots[cwd]
       THEN events' = events \cup {"lost clusters"} /\ UNCHANGED dirs
       ELSE /\ \E i \in Slots[cwd] :
                 /\ FreeSlot(i)
                 /\ dirs' = [dirs EXCEPT ![cwd][i] =
                       Slot("used", op.name, "file", op.start, op.written)]
            /\ UNCHANGED events
  /\ Goto(IF op.kind = "touch" THEN "fat" ELSE "idle", op)
  /\ UNCHANGED <<fat, data, fatTable, cwd, sector, next, losses>>

(* A file was entered whose first cluster the disk still holds for free.   *)
TouchWindow == op.kind = "touch" /\ pc = "fat" /\ next = "idle"

(* The machine stops and boots again: initFileSystem reads the first copy. *)
PowerLoss ==
  /\ pc # "idle"
  /\ losses < MaxLosses /\ losses' = losses + 1
  /\ fatTable' = fat[1]
  /\ cwd' = "root"
  /\ op' = NoCall /\ pc' = "idle"
  /\ sector' = 0 /\ next' = "idle"
  /\ events' = events \cup {"power loss"}
                      \cup IF TouchWindow THEN {"torn touch"} ELSE {}
  /\ UNCHANGED diskVars

-----------------------------------------------------------------------------
Next ==
  \/ \E n \in Names : \/ Touch(n) \/ Create(n) \/ RemoveFile(n)
                      \/ \E chunks \in 1 .. MaxChunks : Write(n, chunks)
  \/ StoreOutside \/ RemoveDir \/ ChangeDir
  \/ WriteChunk \/ EndChunks \/ Sweep \/ Erase \/ WriteFat \/ WriteEntry
  \/ PowerLoss

Spec == Init /\ [][Next]_vars

-----------------------------------------------------------------------------
(* Properties.                                                             *)

TypeOK ==
  /\ \A p \in Places : \A i \in Slots[p] :
       dirs[p][i] \in [mark : {"end", "erased", "used"}, name : Names,
                       attr : {"file", "dir"},
                       start : Clusters \cup {Free}, size : 0 .. MaxChunks]
  /\ \A table \in {fat[1], fat[2], fatTable} :
       table \in [Clusters -> Clusters \cup {Free, EndOfChain}]
  /\ data \in [Clusters -> [SectorNos ->
                              Names \X (0 .. MaxChunks)]]
  /\ cwd \in Places
  /\ op \in [kind : {"none", "touch", "create", "write", "rm", "rmdir"},
             name : Names, chunks : 0 .. MaxChunks,
             start : Clusters \cup {NoCluster}, prev : Clusters \cup {NoCluster},
             written : 0 .. MaxChunks,
             todo : SUBSET ((1 .. DirSlots + 1) \X Names)]
  /\ pc \in {"idle", "chunk", "sweep", "erase", "fat", "entry", "outside"}
  /\ sector \in 0 .. 2 * FatSectors - 1
  /\ next \in {"idle", "sweep", "erase", "entry"}
  /\ events \subseteq {"overwrite", "lost clusters", "power loss", "torn touch"}
  /\ losses \in 0 .. MaxLosses

(* Only what precedes the first end mark of a directory is in use, so the  *)
(* scans that stop there (ls, cat, cd, delete_ in a subdirectory) and the  *)
(* ones that do not (delete_ in the root) see the same files.              *)
NothingBehindEnd ==
  \A p \in Places : \A i \in Slots[p] : \A j \in Slots[p] :
    dirs[p][i].mark = "end" /\ i < j => dirs[p][j].mark = "end"

(* The entries that can be reached: those of the root directory, and those *)
(* of the subdirectory as long as it is there.                             *)
SubExists == \E i \in Used("root") : dirs.root[i].attr = "dir"
Live == {<<"root", i>> : i \in Used("root")}
          \cup (IF SubExists THEN {<<"sub", i>> : i \in Used("sub")} ELSE {})
Entry(e) == dirs[e[1]][e[2]]

(* Between two operations the two copies of the allocation table agree     *)
(* with each other and with the memory, unless the power was lost in the   *)
(* middle of updateFatTable; the first copy always agrees.                 *)
TablesAgree ==
  pc = "idle" => /\ fat[1] = fatTable
                 /\ "power loss" \notin events => fat[2] = fatTable

(* The current directory has not been deleted: dirLBA does not point into  *)
(* clusters that belong to a file by now.                                  *)
CurrentDirExists == cwd = "sub" => SubExists

Consistent == events \cap {"overwrite", "torn touch"} = {} /\ ~TouchWindow

(* What a boot would find on the disk at any moment, whichever sector was  *)
(* written last: no two files share a cluster, and no cluster of a file is *)
(* free.  Two things break this, writing over an existing file and losing  *)
(* the power in touch_.                                                    *)
ChainsDisjoint ==
  Consistent =>
    \A e \in Live :
      LET chain == Chain(fat[1], Entry(e).start)
      IN  /\ Entry(e).start \in chain
          /\ \A c \in chain : fat[1][c] # Free
          /\ \A f \in Live \ {e} : chain \cap Chain(fat[1], Entry(f).start) = {}

(* Cluster number j (from 0) of the file that starts at c.                 *)
Walk(table, c) ==
  LET cluster[j \in Nat] ==
        IF j = 0 THEN c
        ELSE LET before == cluster[j - 1]
             IN  IF before \in Clusters THEN table[before] ELSE EndOfChain
  IN  cluster

(* readFileContent: sector number j (from 0) of a file.                    *)
SectorRead(table, c, j) ==
  LET cluster == Walk(table, c)[j \div SectorsPerCluster]
  IN  IF cluster \in Clusters THEN data[cluster][j % SectorsPerCluster]
                              ELSE NoSector

(* Every file on the disk, read from its entry along its chain, has all of *)
(* its sectors in the order in which write_ got them, and none of another  *)
(* file, whatever was created, deleted and interrupted in the meantime.    *)
FilesReadBack ==
  Consistent =>
    \A e \in Live : \A j \in 1 .. Entry(e).size :
      SectorRead(fat[1], Entry(e).start, j - 1) = <<Entry(e).name, j>>

(* Nothing but a power loss, a full directory, the deletion of a directory *)
(* that is not empty and writing over a file loses free space.             *)
NoLeaks ==
  pc = "idle" /\ events = {} =>
    {c \in Clusters : fatTable[c] # Free}
      = UNION {Chain(fatTable, Entry(e).start) : e \in Live}

(* The console says "Number of bytes written" for every sector write_ has  *)
(* written, also to a file that exists: they can be read back afterwards.  *)
WrittenReadsBack ==
  pc = "idle" /\ "power loss" \notin events =>
    \A e \in Live : \A j \in 1 .. Entry(e).size :
      SectorRead(fatTable, Entry(e).start, j - 1) = <<Entry(e).name, j>>

(* The console says "File deleted" after rm: no file of that name is left  *)
(* in the current directory.                                               *)
RemovedIsGone ==
  [][\A n \in Names :
       op.kind = "rm" /\ op.name = n /\ pc' = "idle" /\ losses' = losses
         => Named(cwd, n)' = {}]_vars
=============================================================================
